------------------------------ MODULE Publishing ------------------------------
(***************************************************************************)
(* The upload of one finished clip: app/pipeline/workers/publish.py,       *)
(* app/publishing and what recovery and people do beside them.             *)
(*                                                                         *)
(* The clip has one row of upload_tasks per uploader and a sequence of     *)
(* upload_attempts.  Every claim of the automatic uploader adds one to     *)
(* publish_generation and inserts one attempt in the same transaction, so  *)
(* the index of an attempt is its generation, and an upload still has the  *)
(* generation of an attempt exactly when that attempt is the last one.     *)
(*                                                                         *)
(* A sender is a thread: a publishing execution of the task queue, or a    *)
(* page job, a command or a request that publishes a clip.  Every write    *)
(* transaction of it is one action; the request to the platform lies       *)
(* between two of them.  A fault is an exit of the process, an exception   *)
(* of the database or a journal file that cannot be written.               *)
(***************************************************************************)
EXTENDS Naturals, Sequences, FiniteSets

CONSTANTS
  TaskSenders,   \* threads that publish under a task lease
  PageSenders,   \* threads that publish for a page job, a request or a command
  Null,          \* claimed_by or remote_id IS NULL
  MaxTries,      \* upload_max_retries + 1
  MaxAttempts,   \* bound: attempts of the clip
  MaxRequests,   \* bound: runs started and things people do
  MaxFaults      \* bound: faults

Senders == TaskSenders \cup PageSenders

ASSUME SendersAssumption == TaskSenders \cap PageSenders = {} /\ Null \notin Senders
ASSUME LimitsAssumption ==
  /\ MaxTries \in Nat \ {0} /\ MaxAttempts \in Nat
  /\ MaxRequests \in Nat /\ MaxFaults \in Nat

VARIABLES
  upload,     \* the row of upload_tasks of every uploader
  attempts,   \* upload_attempts of the automatic uploader, oldest first
  journal,    \* receipts in the journal directory: an attempt and its remote id
  clip,       \* FinalClip.status
  automatic,  \* the setting biliup_enabled
  sender,     \* where every sender is
  sync,       \* what sync_segment_task_from_attempt has read and not written
  commands,   \* external: attempts whose upload command may still arrive
  accepted,   \* external: attempts the platform accepted a copy from
  confirmed,  \* history: a person confirmed the publication
  requests, faults

db    == <<upload, attempts, clip, automatic>>
proc  == <<sender, sync>>
world == <<commands, accepted, confirmed>>
bounds == <<requests, faults>>
vars == <<db, journal, proc, world, bounds>>

Uploaders == {"biliup", "manual"}

UploadStatuses == {"absent", "queued", "skipped", "preparing", "uploading", "success",
                   "failed_retryable", "failed_permanent", "reconciliation_required"}

AttemptStatuses == {"prepared", "in_progress", "success", "failed_retryable",
                    "failed_permanent", "reconciliation_required"}

Outcomes == {"success", "failed_retryable", "failed_permanent", "remote_result_unknown"}

\* A remote id was parsed from the answer or typed by a person.
RemoteIds == {"parsed", "typed", "manual"}

Upload  == [status : UploadStatuses, owner : Senders \cup {Null}, remote : RemoteIds \cup {Null}]
Attempt == [status : AttemptStatuses, worker : Senders, remote : RemoteIds \cup {Null},
            aged : BOOLEAN]

\* journal_failed: the receipt could not be written, its commit comes first.
Places == {"idle", "process", "prepare", "execute", "sending", "uploading",
           "answered", "journal_failed", "commit"}

\* permitted: the lease or the job the sender runs for is still its own.
Sender == [at : Places, uploader : Uploaders, permitted : BOOLEAN, attempt : Nat,
           tries : Nat, outcome : Outcomes \cup {Null}, remote : RemoteIds \cup {Null}]

NoRun == [at |-> "idle", uploader |-> "biliup", permitted |-> FALSE, attempt |-> 0,
          tries |-> 0, outcome |-> Null, remote |-> Null]

Receipt(a, remote) == [attempt |-> a, remote |-> remote]

Sync == [at : {"idle", "read", "loaded"}, attempt : Nat,
         status : AttemptStatuses \cup {Null}, remote : RemoteIds \cup {Null},
         before : Upload, after : Upload, mark : BOOLEAN]

NoUpload == [status |-> "absent", owner |-> Null, remote |-> Null]

NoSync == [at |-> "idle", attempt |-> 0, status |-> Null, remote |-> Null,
           before |-> NoUpload, after |-> NoUpload, mark |-> FALSE]

-----------------------------------------------------------------------------
(* Questions the code asks of the state.                                   *)

Attempts == DOMAIN attempts

\* upload.publish_generation == attempt.publish_generation
Current(a) == a = Len(attempts)

\* get_uploader
Uploader == IF automatic THEN "biliup" ELSE "manual"

Open == {"prepared", "in_progress", "reconciliation_required"}

Blocked == \E a \in Attempts : attempts[a].status \in Open

\* _completed_upload: attempts that prove a publication by a remote id.
Receipts == {a \in Attempts : attempts[a].status = "success" /\ attempts[a].remote # Null}

\* The WHERE clause of _atomic_claim_upload_task.
Claimable(u) ==
  /\ upload[u].status \in {"queued", "failed_retryable"}
  /\ upload[u].owner = Null
  /\ \A other \in Uploaders \ {u, "manual"} :
       upload[other].status \notin {"preparing", "uploading", "success", "reconciliation_required"}

\* _publish_source_error and require_running: the source of s still permits it.
SourceValid(s) ==
  /\ sender[s].permitted
  /\ s \in TaskSenders => automatic /\ clip # "rejected"

\* UploadExecution.matches
Matches(s, a) ==
  /\ Current(a)
  /\ upload["biliup"].owner = s
  /\ attempts[a].worker = s

\* _VALID_TRANSITIONS, for the outcomes a sender reports.
ValidTransition(status, outcome) ==
  \/ status = "prepared" /\ outcome \in {"failed_retryable", "failed_permanent"}
  \/ status = "in_progress"
  \/ status = "reconciliation_required" /\ outcome \in {"success", "failed_permanent"}

SchedulerFree == sync.at = "idle"

-----------------------------------------------------------------------------
Init ==
  /\ upload = [u \in Uploaders |-> NoUpload]
  /\ attempts = <<>>
  /\ journal = {}
  /\ clip = "ready"
  /\ automatic \in BOOLEAN
  /\ sender = [s \in Senders |-> NoRun]
  /\ sync = NoSync
  /\ commands = {}
  /\ accepted = {}
  /\ confirmed = FALSE
  /\ requests = 0
  /\ faults = 0

\* Bounds: a person or the scheduler asks for something; something breaks.
Asked  == requests < MaxRequests /\ requests' = requests + 1 /\ UNCHANGED faults
Broken == faults < MaxFaults /\ faults' = faults + 1 /\ UNCHANGED requests

GoesTo(s, place) == sender' = [sender EXCEPT ![s].at = place]
Stops(s) == sender' = [sender EXCEPT ![s] = NoRun]

-----------------------------------------------------------------------------
(* Queueing.                                                               *)

\* Faulty: the claim is not given back.
SetUploadClaimed(u, status, remote) ==
  [upload EXCEPT ![u].status = status, ![u].remote = remote]

SetUpload(u, status, remote) ==
  [upload EXCEPT ![u] = [status |-> status, owner |-> Null, remote |-> remote]]

\* _resume_skipped_upload: checked again, if nothing can have been sent.
Resumed(u) ==
  {upload} \cup
  (IF /\ upload[u].status = "skipped" /\ upload[u].owner = Null /\ upload[u].remote = Null
      /\ \A a \in Attempts : attempts[a].status = "failed_retryable"
   THEN {[upload EXCEPT ![u].status = "queued"]} ELSE {})

\* enqueue_upload: a new row as the checks decide, or the one that exists.
Queued(u) ==
  IF upload[u].status = "absent"
  THEN {[upload EXCEPT ![u].status = st] : st \in {"queued", "skipped"}}
  ELSE Resumed(u)

Starts(s, place, u) ==
  /\ Asked
  /\ sender[s] = NoRun
  /\ sender' = [sender EXCEPT ![s] = [NoRun EXCEPT
       !.at = place, !.uploader = u, !.permitted = TRUE, !.tries = 1]]
  /\ UNCHANGED <<attempts, clip, automatic, journal, sync, world>>

\* run_publish up to prepare_upload_attempt: only a missing row is queued, and
\* only for a publication that is permitted and not yet proved.
StartTask(s) ==
  /\ s \in TaskSenders
  /\ Starts(s, "prepare", "biliup")
  /\ IF Receipts = {} /\ automatic /\ clip # "rejected" /\ upload["biliup"].status = "absent"
     THEN upload' \in Queued("biliup")
     ELSE UNCHANGED upload

\* enqueue_and_upload
StartPage(s) ==
  /\ s \in PageSenders
  /\ Starts(s, "process", Uploader)
  /\ upload' \in Queued(Uploader)

\* A retry of an upload that is in the list.
RetryPage(s, u) ==
  /\ s \in PageSenders
  /\ upload[u].status # "absent"
  /\ Starts(s, "process", u)
  /\ UNCHANGED upload

\* The head of process_upload_task.
Process(s) ==
  /\ sender[s].at = "process"
  /\ LET u == sender[s].uploader IN
     \E after \in Resumed(u) :
       /\ upload' = after
       /\ IF after[u].status \in {"queued", "failed_retryable"} THEN GoesTo(s, "prepare") ELSE Stops(s)
  /\ UNCHANGED <<attempts, clip, automatic, journal, sync, world, bounds>>

\* A manual upload is claimed, exported and finished in one transaction; the
\* clip is not published by it.
ExportManually(s) ==
  /\ sender[s].at = "prepare" /\ sender[s].uploader = "manual"
  /\ upload' = IF Claimable("manual") /\ sender[s].permitted
               THEN SetUpload("manual", "success", "manual") ELSE upload
  /\ Stops(s)
  /\ UNCHANGED <<attempts, clip, automatic, journal, sync, world, bounds>>

-----------------------------------------------------------------------------
(* prepare_upload_attempt: one transaction, and one way to leave it each.  *)

AtPrepare(s) == sender[s].at = "prepare" /\ sender[s].uploader = "biliup"

\* A publication that is proved is reported again, not repeated.
FindReceipt(s) ==
  /\ AtPrepare(s) /\ sender[s].permitted
  /\ \E a \in Receipts :
       sender' = [sender EXCEPT ![s] = [@ EXCEPT
         !.at = "commit", !.attempt = a, !.outcome = "success", !.remote = attempts[a].remote]]
  /\ UNCHANGED <<db, journal, sync, world, bounds>>

Refused(s) == ~SourceValid(s) \/ Blocked \/ ~Claimable("biliup")

\* Nothing is written: the source is gone, the clip is being sent, the upload is
\* not to be claimed, or the clip was rejected or edited since it was checked.
RefuseToPrepare(s) ==
  /\ AtPrepare(s)
  /\ ~sender[s].permitted \/ Receipts = {}
  /\ Stops(s)
  /\ UNCHANGED <<db, journal, sync, world, bounds>>

\* precheck_clip failed.
SkipUpload(s) ==
  /\ AtPrepare(s) /\ Receipts = {} /\ ~Refused(s)
  /\ upload' = [upload EXCEPT !["biliup"].status = "skipped"]
  /\ Stops(s)
  /\ UNCHANGED <<attempts, clip, automatic, journal, sync, world, bounds>>

\* The claim and the attempt it is for.
PrepareAttempt(s) ==
  /\ AtPrepare(s) /\ Receipts = {} /\ ~Refused(s)
  /\ clip # "rejected"
  /\ Len(attempts) < MaxAttempts
  /\ upload' = [upload EXCEPT !["biliup"] = [@ EXCEPT !.status = "preparing", !.owner = s]]
  /\ attempts' = Append(attempts, [status |-> "prepared", worker |-> s, remote |-> Null,
                                   aged |-> FALSE])
  /\ sender' = [sender EXCEPT ![s] = [@ EXCEPT !.at = "execute", !.attempt = Len(attempts) + 1]]
  /\ UNCHANGED <<clip, automatic, journal, sync, world, bounds>>

-----------------------------------------------------------------------------
(* execute_remote_upload.                                                  *)

Closed(a, status, remote) ==
  [attempts EXCEPT ![a].status = status, ![a].remote = remote, ![a].aged = FALSE]

\* The attempt is no longer prepared: recovery has given it up.
FindAttemptClosed(s) ==
  /\ sender[s].at = "execute"
  /\ attempts[sender[s].attempt].status # "prepared"
  /\ Stops(s)
  /\ UNCHANGED <<db, journal, sync, world, bounds>>

\* The permission, the settings, the clip or its file changed since.
RefuseToSend(s) ==
  LET a == sender[s].attempt IN
  /\ sender[s].at = "execute"
  /\ attempts[a].status = "prepared"
  /\ attempts' = Closed(a, "failed_permanent", Null)
  /\ upload' = IF Matches(s, a) THEN SetUpload("biliup", "failed_permanent", upload["biliup"].remote)
               ELSE upload
  /\ Stops(s)
  /\ UNCHANGED <<clip, automatic, journal, sync, world, bounds>>

MarkSent(s) ==
  LET a == sender[s].attempt IN
  /\ sender[s].at = "execute"
  /\ attempts[a].status = "prepared"
  /\ Matches(s, a) /\ SourceValid(s) /\ automatic /\ clip # "rejected"
  /\ attempts' = [attempts EXCEPT ![a].status = "in_progress", ![a].aged = FALSE]
  /\ upload' = [upload EXCEPT !["biliup"].status = "uploading"]
  /\ GoesTo(s, "sending")
  /\ UNCHANGED <<clip, automatic, journal, sync, world, bounds>>

\* _renew: the attempt is still being sent, by this sender.
Renewable(s) ==
  LET a == sender[s].attempt IN attempts[a].status = "in_progress" /\ Matches(s, a)

\* The first heartbeat decides whether the command is started.
StartCommand(s) ==
  /\ sender[s].at = "sending" /\ Renewable(s)
  /\ attempts' = [attempts EXCEPT ![sender[s].attempt].aged = FALSE]
  /\ commands' = commands \cup {sender[s].attempt}
  /\ GoesTo(s, "uploading")
  /\ UNCHANGED <<upload, clip, automatic, journal, sync, accepted, confirmed, bounds>>

\* UploadOwnershipLost
LoseOwnership(s) ==
  /\ sender[s].at = "sending" /\ ~Renewable(s)
  /\ sender' = [sender EXCEPT ![s] = [@ EXCEPT !.at = "commit", !.outcome = "failed_permanent"]]
  /\ UNCHANGED <<db, journal, sync, world, bounds>>

\* The heartbeat runs until the receipt is written.
Renew(s) ==
  /\ sender[s].at \in {"uploading", "answered", "journal_failed"} /\ Renewable(s)
  /\ attempts[sender[s].attempt].aged
  /\ attempts' = [attempts EXCEPT ![sender[s].attempt].aged = FALSE]
  /\ UNCHANGED <<upload, clip, automatic, journal, proc, world, bounds>>

\* External: a command reaches the platform, its starter alive or not.
Arrive(a) ==
  /\ a \in commands
  /\ commands' = commands \ {a}
  /\ accepted' = accepted \cup {a}
  /\ UNCHANGED <<db, journal, proc, confirmed, bounds>>

\* External: what BiliupUploader.upload and classify_upload_error make of the end
\* of the command.  Only an outcome known not to be a publication is a failure.
Return(s, outcome) ==
  LET a == sender[s].attempt IN
  /\ sender[s].at = "uploading"
  /\ CASE outcome = "success" -> a \in accepted
       [] outcome = "remote_result_unknown" -> TRUE
       [] OTHER -> a \notin accepted
  /\ commands' = IF outcome \in {"failed_retryable", "failed_permanent"} THEN commands \ {a} ELSE commands
  /\ sender' = [sender EXCEPT ![s] = [@ EXCEPT
       !.at = IF outcome = "success" THEN "answered" ELSE "commit",
       !.outcome = outcome,
       !.remote = IF outcome = "success" THEN "parsed" ELSE Null]]
  /\ UNCHANGED <<db, journal, sync, accepted, confirmed, bounds>>

\* Faulty: the receipt is written if it can be, and the result goes on.
WriteReceiptOrNot(s) ==
  /\ sender[s].at = "answered"
  /\ GoesTo(s, "commit")
  /\ \/ /\ journal' = journal \cup {Receipt(sender[s].attempt, sender[s].remote)}
        /\ UNCHANGED bounds
     \/ /\ Broken
        /\ UNCHANGED journal
  /\ UNCHANGED <<db, sync, world>>

\* write_remote_success, before anything is committed.
WriteReceipt(s) ==
  /\ sender[s].at = "answered"
  /\ \/ /\ journal' = journal \cup {Receipt(sender[s].attempt, sender[s].remote)}
        /\ GoesTo(s, "commit")
        /\ UNCHANGED bounds
     \/ /\ Broken
        /\ GoesTo(s, "journal_failed")
        /\ UNCHANGED journal
  /\ UNCHANGED <<db, sync, world>>

-----------------------------------------------------------------------------
(* commit_publish_result.                                                  *)

\* Two receipts of one attempt that name different submissions.
Conflicts(a, outcome, remote) ==
  attempts[a].status = "success" /\ outcome = "success" /\ remote # attempts[a].remote

Ignored(a, outcome, remote) ==
  \/ Conflicts(a, outcome, remote)
  \/ attempts[a].status # "success" /\ ~ValidTransition(attempts[a].status, outcome)

\* Faulty: the last result wins.
TargetOfLast(a, outcome) ==
  IF outcome = "remote_result_unknown" THEN "reconciliation_required" ELSE outcome

\* Faulty: a command that ended without a refusal has published the clip.
TargetTrusting(a, outcome) ==
  IF attempts[a].status = "success" \/ outcome = "remote_result_unknown" THEN "success" ELSE outcome

\* A success is kept, an unknown outcome has to be looked into.
Target(a, outcome) ==
  CASE attempts[a].status = "success" -> "success"
    [] attempts[a].status # "success" /\ outcome = "remote_result_unknown" -> "reconciliation_required"
    [] OTHER -> outcome

\* The attempt, the upload if it still has its generation, and the clip.
Records(a, status, remote) ==
  /\ attempts' = Closed(a, status, remote)
  /\ upload' = IF Current(a) THEN SetUpload("biliup", status, remote) ELSE upload
  /\ clip' = IF status = "success" THEN "published" ELSE clip
  /\ UNCHANGED automatic

\* mark_replayed: a receipt is deleted once it is committed, if it can be.
Forgets(receipt) == journal' \in {journal, journal \ {receipt}}

\* The remote id of an attempt after a result: the first one stays.
RemoteAfter(a, remote) ==
  IF attempts[a].remote = Null /\ attempts[a].status # "success" THEN remote ELSE attempts[a].remote

\* A retry happens in the loop of process_upload_task only.
Continues(s) ==
  LET run == sender[s] IN
  sender' = [sender EXCEPT ![s] =
    IF s \in PageSenders /\ run.outcome = "failed_retryable" /\ run.tries < MaxTries
    THEN [run EXCEPT !.at = "prepare", !.tries = run.tries + 1, !.attempt = 0, !.outcome = Null]
    ELSE NoRun]

\* After a journal that could not be written, the result is committed twice.
AfterCommit(s) == IF sender[s].at = "journal_failed" THEN GoesTo(s, "commit") ELSE Continues(s)

CommitResult(s) ==
  LET a == sender[s].attempt  outcome == sender[s].outcome  remote == sender[s].remote IN
  /\ sender[s].at \in {"journal_failed", "commit"}
  /\ IF Ignored(a, outcome, remote)
     THEN UNCHANGED <<db, journal>>
     ELSE /\ Records(a, Target(a, outcome), RemoteAfter(a, remote))
          /\ IF outcome = "success" THEN Forgets(Receipt(a, remote)) ELSE UNCHANGED journal
  /\ AfterCommit(s)
  /\ UNCHANGED <<sync, world, bounds>>

\* The commit fails: a success goes to the journal, or is lost with it.
CommitFails(s) ==
  LET a == sender[s].attempt  outcome == sender[s].outcome  remote == sender[s].remote IN
  /\ sender[s].at \in {"journal_failed", "commit"}
  /\ ~Ignored(a, outcome, remote)
  /\ Broken
  /\ \/ /\ Target(a, outcome) = "success"
        /\ journal' = journal \cup {Receipt(a, RemoteAfter(a, remote))}
        /\ AfterCommit(s)
     \/ UNCHANGED journal /\ Stops(s)
  /\ UNCHANGED <<db, sync, world>>

\* An exception of the database before the command is started.
Raise(s) ==
  /\ sender[s].at \in {"process", "prepare", "execute", "sending"}
  /\ Broken
  /\ Stops(s)
  /\ UNCHANGED <<db, journal, sync, world>>

-----------------------------------------------------------------------------
(* Recovery: recover_publish_state, in the thread of the scheduler.        *)

\* Faulty: only an attempt that is still being sent takes its receipt.
ReplayableInProgress(receipt) ==
  receipt.remote # Null /\ attempts[receipt.attempt].status = "in_progress"

\* A receipt without a remote id, or with another one than a known success has,
\* stays where it is.
Replayable(receipt) ==
  receipt.remote # Null /\ ~Conflicts(receipt.attempt, "success", receipt.remote)

\* recover_publish_results, for one receipt.
ReplayReceipt(receipt) ==
  LET a == receipt.attempt IN
  /\ SchedulerFree
  /\ receipt \in journal
  /\ Replayable(receipt)
  /\ Records(a, "success", receipt.remote)
  /\ Forgets(receipt)
  /\ UNCHANGED <<proc, world, bounds>>

\* upload_attempt_stale_s passes without a sign of life of an attempt.
Age(a) ==
  /\ a \in Attempts
  /\ attempts[a].status \in {"prepared", "in_progress"}
  /\ ~attempts[a].aged
  /\ attempts' = [attempts EXCEPT ![a].aged = TRUE]
  /\ UNCHANGED <<upload, clip, automatic, journal, proc, world, bounds>>

\* Faulty: an attempt that never began to send is overlooked.
AbandonedSending == {"in_progress"}

\* The attempts recover_stale_upload_attempts looks at.
Abandoned == {"prepared", "in_progress"}

\* Faulty: an attempt is given up with a status that only uploads have.
GivenUpQueued(status) == IF status = "prepared" THEN "queued" ELSE "reconciliation_required"

\* Faulty: whoever sends no heartbeat has not sent the request either.
GivenUpRetryable(status) == "failed_retryable"

\* recover_stale_upload_attempts: what was not sent may be sent again, what may
\* have been sent has to be looked into.
GivenUp(status) == IF status = "prepared" THEN "failed_retryable" ELSE "reconciliation_required"

RecoverStaleAttempt(a) ==
  /\ SchedulerFree
  /\ a \in Attempts
  /\ attempts[a].status \in Abandoned
  /\ attempts[a].aged
  /\ LET status == GivenUp(attempts[a].status) IN
     /\ attempts' = Closed(a, status, attempts[a].remote)
     /\ upload' = IF Current(a) THEN SetUpload("biliup", status, upload["biliup"].remote) ELSE upload
  /\ UNCHANGED <<clip, automatic, journal, proc, world, bounds>>

\* sync_segment_task_from_attempt reads the attempts, then the upload and the
\* clip, and locks the database when it writes what differs: a change of the
\* upload is flushed before the clip is read.  It takes the oldest success, else
\* the latest attempt.
Evidence ==
  LET successes == {a \in Attempts : attempts[a].status = "success"}
  IN  IF successes # {} THEN CHOOSE a \in successes : \A b \in successes : a <= b ELSE Len(attempts)

\* Faulty: only trouble is passed on.
PassedOnTrouble == {"reconciliation_required", "failed_permanent"}

PassedOn == {"success", "reconciliation_required", "failed_permanent"}

SyncRead ==
  /\ SchedulerFree
  /\ attempts # <<>>
  /\ attempts[Evidence].status \in PassedOn
  /\ sync' = [sync EXCEPT !.at = "read", !.attempt = Evidence,
                          !.status = attempts[Evidence].status, !.remote = attempts[Evidence].remote]
  /\ UNCHANGED <<db, journal, sender, world, bounds>>

\* What the upload is to become, if it has the generation of the attempt.
SyncedUpload(row) ==
  IF Current(sync.attempt)
  THEN [status |-> sync.status, owner |-> Null, remote |-> sync.remote] ELSE row

SyncLoad ==
  /\ sync.at = "read"
  /\ LET after == SyncedUpload(upload["biliup"])
         mark  == sync.status = "success" /\ (clip # "published" \/ after # upload["biliup"])
     IN  sync' = IF after = upload["biliup"] /\ ~mark THEN NoSync
                 ELSE [sync EXCEPT !.at = "loaded", !.before = upload["biliup"],
                                   !.after = after, !.mark = mark]
  /\ UNCHANGED <<db, journal, sender, world, bounds>>

\* Only the columns that were to change are written.
SyncWrite ==
  /\ sync.at = "loaded"
  /\ upload' = [upload EXCEPT !["biliup"] =
                  [c \in DOMAIN @ |-> IF sync.after[c] # sync.before[c] THEN sync.after[c] ELSE @[c]]]
  /\ clip' = IF sync.mark THEN "published" ELSE clip
  /\ sync' = NoSync
  /\ UNCHANGED <<attempts, automatic, journal, sender, world, bounds>>

-----------------------------------------------------------------------------
(* People, and the end of the process.                                     *)

\* confirm_manual_upload, with the submission's id or without.  Marking the clip
\* is its first write, and locks before the uploads and the attempts are read; for
\* a clip that is marked already the upload is read a moment before.
Confirm(id) ==
  LET unknown == {a \in Attempts : attempts[a].status = "reconciliation_required"}
      Known(remote) == IF id = Null THEN remote ELSE id
  IN
  /\ Asked
  /\ clip' = "published"
  /\ upload' = [u \in Uploaders |->
                  IF upload[u].status = "reconciliation_required"
                  THEN [status |-> "success", owner |-> Null, remote |-> Known(upload[u].remote)]
                  ELSE upload[u]]
  /\ attempts' = [a \in Attempts |->
                  IF a \in unknown
                  THEN [attempts[a] EXCEPT !.status = "success", !.remote = Known(@)]
                  ELSE attempts[a]]
  /\ confirmed' = TRUE
  /\ UNCHANGED <<automatic, journal, proc, commands, accepted>>

\* reject_clip, or publish_clip before it queues the upload.
Decide(status) ==
  /\ Asked
  /\ clip # status
  /\ clip' = status
  /\ UNCHANGED <<upload, attempts, automatic, journal, proc, world>>

Toggle ==
  /\ Asked
  /\ automatic' = ~automatic
  /\ UNCHANGED <<upload, attempts, clip, journal, proc, world>>

\* The task is cancelled or recovered, or the job ends, under its sender.
Revoke(s) ==
  /\ Asked
  /\ sender[s].permitted
  /\ sender' = [sender EXCEPT ![s].permitted = FALSE]
  /\ UNCHANGED <<db, journal, sync, world>>

\* The process exits: threads are gone, a started command may not be.
Crash ==
  /\ Broken
  /\ sender' = [s \in Senders |-> NoRun]
  /\ sync' = NoSync
  /\ UNCHANGED <<db, journal, world>>

-----------------------------------------------------------------------------
SenderStep(s) ==
  \/ Process(s) \/ ExportManually(s)
  \/ FindReceipt(s) \/ RefuseToPrepare(s) \/ SkipUpload(s) \/ PrepareAttempt(s)
  \/ FindAttemptClosed(s) \/ RefuseToSend(s) \/ MarkSent(s)
  \/ StartCommand(s) \/ LoseOwnership(s)
  \/ \E outcome \in Outcomes : Return(s, outcome)
  \/ WriteReceipt(s) \/ CommitResult(s)

Recovery ==
  \/ \E receipt \in journal : ReplayReceipt(receipt)
  \/ \E a \in Attempts : RecoverStaleAttempt(a)
  \/ SyncRead \/ SyncLoad \/ SyncWrite

Next ==
  \/ \E s \in Senders :
       \/ StartTask(s) \/ StartPage(s) \/ (\E u \in Uploaders : RetryPage(s, u))
       \/ SenderStep(s) \/ Renew(s) \/ CommitFails(s) \/ Raise(s) \/ Revoke(s)
  \/ Recovery
  \/ \E a \in Attempts : Age(a) \/ Arrive(a)
  \/ \E id \in {Null, "typed"} : Confirm(id)
  \/ \E status \in {"ready", "rejected"} : Decide(status)
  \/ Toggle
  \/ Crash

Spec == Init /\ [][Next]_vars

\* Threads proceed and commands end (BiliupUploader waits 1800 s); time passes.
\* Every tick of the scheduler replays, then recovers, then synchronises: what
\* is there to replay or to recover whenever a tick begins is not passed over.
Fairness ==
  /\ \A s \in Senders : WF_vars(SenderStep(s))
  /\ \A a \in 1 .. MaxAttempts :
       /\ WF_vars(Age(a))
       /\ SF_vars(RecoverStaleAttempt(a))
       /\ SF_vars(\E receipt \in journal : receipt.attempt = a /\ ReplayReceipt(receipt))
  /\ WF_vars(SyncRead) /\ WF_vars(SyncLoad) /\ WF_vars(SyncWrite)

LiveSpec == Spec /\ Fairness
===============================================================================
