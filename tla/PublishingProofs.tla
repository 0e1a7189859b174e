--------------------------- MODULE PublishingProofs ---------------------------
(***************************************************************************)
(* Proofs about the publication of a clip, for any senders and bounds: the *)
(* inductive invariant, that every step keeps it, and what follows from    *)
(* it, the refinement of UploadLedger included.                            *)
(***************************************************************************)
EXTENDS PublishingProperties, FiniteSetTheorems, SequenceTheorems, TLAPS

\* Statuses an attempt may have once its command was started and not refused.
Sent == {"in_progress", "reconciliation_required", "success"}

Refusals == {"failed_retryable", "failed_permanent"}

WithAttempt == {"execute", "sending", "uploading", "answered", "journal_failed", "commit"}

\* The history before the last attempt is over and may be repeated.
OnlyLastOpen == \A a \in Attempts : a # Len(attempts) => attempts[a].status = "failed_retryable"

\* An attempt whose copy may have arrived is not recorded as refused.
SentStaysOpen ==
  /\ \A a \in commands \cup accepted : a \in Attempts /\ attempts[a].status \in Sent
  /\ commands \cap accepted = {}

\* Attempts a success may be claimed for.
Proven(a) == a \in accepted \/ (a \in Attempts /\ attempts[a].status = "success")

\* What a sender knows of the attempt it works for.
SenderSound(s) ==
  LET a == sender[s].attempt IN
  sender[s].at \in WithAttempt =>
    /\ a \in Attempts
    /\ \/ attempts[a].worker = s
       \/ sender[s].at = "commit" /\ sender[s].outcome = "success" /\ attempts[a].status = "success"
    /\ sender[s].at \in {"execute", "sending"} => a \notin commands \cup accepted
    /\ sender[s].at \in {"answered", "journal_failed"} => sender[s].outcome = "success"
    /\ sender[s].at = "commit" => sender[s].outcome \in Outcomes
    /\ sender[s].at \in {"answered", "journal_failed", "commit"} =>
         /\ sender[s].outcome = "success" => Proven(a)
         /\ sender[s].outcome \in Refusals => a \notin commands \cup accepted

SendersSound == \A s \in Senders : SenderSound(s)

JournalSound == \A receipt \in journal : Proven(receipt.attempt)

\* The upload follows the last attempt once that is settled.
UploadFollows ==
  attempts # <<>> /\ attempts[Len(attempts)].status \in PassedOn
    => upload["biliup"].status \in PassedOn

\* What the tick has read of the last attempt, which is settled for good.
SyncSound ==
  sync.at # "idle" =>
    /\ attempts # <<>>
    /\ sync.attempt = Len(attempts)
    /\ sync.status \in PassedOn
    /\ attempts[Len(attempts)].status \in PassedOn
    /\ sync.status = "success" => attempts[Len(attempts)].status = "success"
    /\ sync.at = "loaded" =>
         sync.after = [status |-> sync.status, owner |-> Null, remote |-> sync.remote]

\* A success of an attempt has a reason.
AttemptsGrounded == \A a \in Attempts : attempts[a].status = "success" => accepted # {} \/ confirmed

IInv ==
  /\ TypeOK
  /\ OnlyLastOpen
  /\ SentStaysOpen
  /\ SendersSound
  /\ JournalSound
  /\ ClaimMatchesAttempt
  /\ UploadFollows
  /\ SyncSound
  /\ AttemptsGrounded
  /\ SuccessIsGrounded
  /\ ReceiptBeforeCommit

-----------------------------------------------------------------------------
(* What the operators on attempts and uploads return.                      *)

\* A sequence of attempts: its length, its domain and its elements.
LEMMA AttemptsShape ==
  ASSUME NEW seq \in Seq(Attempt)
  PROVE  /\ Len(seq) \in Nat
         /\ DOMAIN seq = 1 .. Len(seq)
         /\ seq \in [DOMAIN seq -> Attempt]
         /\ seq = <<>> <=> Len(seq) = 0
<1>1. Len(seq) \in Nat /\ seq \in [1 .. Len(seq) -> Attempt] /\ DOMAIN seq = 1 .. Len(seq)
  BY LenProperties
<1>2. seq # <<>> => Len(seq) \in Nat \ {0}
  BY EmptySeq
<1>3. Len(<<>>) = 0
  BY EmptySeq
<1> QED BY <1>1, <1>2, <1>3

\* A function on the same indices is a sequence of the same length.
LEMMA SameLength ==
  ASSUME attempts \in Seq(Attempt), NEW f \in [Attempts -> Attempt]
  PROVE  f \in Seq(Attempt) /\ Len(f) = Len(attempts) /\ DOMAIN f = Attempts
<1>1. Len(attempts) \in Nat /\ Attempts = 1 .. Len(attempts)
  BY AttemptsShape DEF Attempts
<1>2. f \in Seq(Attempt)
  BY <1>1
<1>3. Len(f) \in Nat /\ DOMAIN f = 1 .. Len(f)
  BY <1>2, LenProperties
<1>4. 1 .. Len(f) = 1 .. Len(attempts)
  BY <1>1, <1>3
<1> QED BY <1>1, <1>2, <1>3, <1>4

\* Closing an attempt changes nothing but its status and its remote id.
LEMMA ClosedFacts ==
  ASSUME attempts \in Seq(Attempt), NEW a \in Attempts,
         NEW status \in AttemptStatuses, NEW remote \in RemoteIds \cup {Null}
  PROVE  LET c == Closed(a, status, remote) IN
         /\ c \in Seq(Attempt) /\ Len(c) = Len(attempts) /\ DOMAIN c = Attempts
         /\ c[a].status = status
         /\ \A b \in Attempts : c[b].worker = attempts[b].worker
         /\ \A b \in Attempts \ {a} : c[b] = attempts[b]
<1>1. attempts \in [Attempts -> Attempt]
  BY AttemptsShape DEF Attempts
<1>2. Closed(a, status, remote) \in [Attempts -> Attempt]
  BY <1>1 DEF Closed, Attempt
<1>3. Closed(a, status, remote)[a].status = status
  BY <1>1 DEF Closed, Attempt
<1>4. \A b \in Attempts : Closed(a, status, remote)[b].worker = attempts[b].worker
  BY <1>1 DEF Closed, Attempt
<1>5. \A b \in Attempts \ {a} : Closed(a, status, remote)[b] = attempts[b]
  BY <1>1 DEF Closed, Attempt
<1> QED BY <1>2, <1>3, <1>4, <1>5, SameLength

LEMMA SetUploadFacts ==
  ASSUME upload \in [Uploaders -> Upload], NEW u \in Uploaders,
         NEW status \in UploadStatuses, NEW remote \in RemoteIds \cup {Null}
  PROVE  LET row == SetUpload(u, status, remote) IN
         /\ row \in [Uploaders -> Upload]
         /\ row[u].status = status /\ row[u].owner = Null
         /\ \A v \in Uploaders \ {u} : row[v] = upload[v]
BY DEF SetUpload, Upload

\* The results of a commit are statuses of attempts and of uploads.
LEMMA StatusFacts ==
  /\ AttemptStatuses \ {"prepared", "in_progress"} \subseteq UploadStatuses
  /\ PassedOn \subseteq AttemptStatuses /\ PassedOn \subseteq UploadStatuses
  /\ Refusals \subseteq Outcomes /\ Refusals \subseteq UploadStatuses
  /\ \A a : \A outcome \in Outcomes :
       Target(a, outcome) \in {"success", "reconciliation_required"} \cup Refusals
BY DEF AttemptStatuses, UploadStatuses, PassedOn, Refusals, Outcomes, Target

-----------------------------------------------------------------------------
(* What a step may leave alone, and what it keeps then.                    *)

\* Attempts may have been touched, with no change of what they are.
SameAttempts ==
  /\ Len(attempts') = Len(attempts)
  /\ DOMAIN attempts' = DOMAIN attempts
  /\ \A a \in DOMAIN attempts : attempts'[a].status = attempts[a].status
                             /\ attempts'[a].worker = attempts[a].worker

\* A success stays one, an attempt stays its worker's, and what is known not to
\* have been sent was not sent by this step.
Kept ==
  /\ Attempts \subseteq Attempts'
  /\ \A a \in Attempts : /\ attempts'[a].worker = attempts[a].worker
                         /\ attempts[a].status = "success" => attempts'[a].status = "success"
  /\ accepted \subseteq accepted'

\* A sender the step does not move keeps what it knows.
LEMMA SenderKept ==
  ASSUME NEW s \in Senders, SenderSound(s), sender'[s] = sender[s], Kept,
         sender[s].attempt \in Attempts /\ attempts[sender[s].attempt].worker = s
           /\ sender[s].attempt \notin commands \cup accepted
           => sender[s].attempt \notin commands' \cup accepted'
  PROVE  SenderSound(s)'
BY DEF SenderSound, Kept, Proven, WithAttempt, Refusals

\* The invariants of attempts and receipts, when none of them changes.
LEMMA AttemptsFrame ==
  ASSUME SameAttempts, UNCHANGED <<commands, accepted, confirmed>>, journal' \subseteq journal,
         OnlyLastOpen, SentStaysOpen, JournalSound, AttemptsGrounded
  PROVE  OnlyLastOpen' /\ SentStaysOpen' /\ JournalSound' /\ AttemptsGrounded'
BY DEF SameAttempts, OnlyLastOpen, SentStaysOpen, JournalSound, AttemptsGrounded, Attempts, Proven

\* Those of the upload.
LEMMA UploadFrame ==
  ASSUME attempts \in Seq(Attempt), attempts' \in Seq(Attempt),
         SameAttempts, upload'["biliup"] = upload["biliup"],
         accepted \subseteq accepted', confirmed => confirmed',
         ClaimMatchesAttempt, UploadFollows, SuccessIsGrounded
  PROVE  ClaimMatchesAttempt' /\ UploadFollows' /\ SuccessIsGrounded'
<1>1. Len(attempts') = Len(attempts) /\ (attempts' = <<>> <=> attempts = <<>>)
  BY AttemptsShape DEF SameAttempts
<1>2. attempts # <<>> => Len(attempts) \in DOMAIN attempts
  BY AttemptsShape
<1>3. attempts # <<>> => /\ attempts'[Len(attempts')].status = attempts[Len(attempts)].status
                         /\ attempts'[Len(attempts')].worker = attempts[Len(attempts)].worker
  BY <1>1, <1>2 DEF SameAttempts
<1>4. ClaimMatchesAttempt'
  <2>1. CASE attempts = <<>>
    BY <2>1, <1>1 DEF ClaimMatchesAttempt
  <2>2. CASE attempts # <<>>
    BY <2>2, <1>1, <1>3 DEF ClaimMatchesAttempt
  <2> QED BY <2>1, <2>2
<1>5. UploadFollows'
  BY <1>1, <1>3 DEF UploadFollows
<1>6. SuccessIsGrounded'
  BY DEF SuccessIsGrounded
<1> QED BY <1>4, <1>5, <1>6

\* And what the tick has read.
LEMMA SyncFrame ==
  ASSUME attempts \in Seq(Attempt), attempts' \in Seq(Attempt),
         SameAttempts, UNCHANGED sync, SyncSound
  PROVE  SyncSound'
<1>1. Len(attempts') = Len(attempts) /\ (attempts' = <<>> <=> attempts = <<>>)
  BY AttemptsShape DEF SameAttempts
<1>2. attempts # <<>> => Len(attempts) \in DOMAIN attempts
  BY AttemptsShape
<1>3. attempts # <<>> => attempts'[Len(attempts')].status = attempts[Len(attempts)].status
  BY <1>1, <1>2 DEF SameAttempts
<1> QED BY <1>1, <1>3 DEF SyncSound

\* A receipt that is recorded stays so, if its attempt does or its file.
LEMMA ReceiptFrame ==
  ASSUME Kept, NEW a \in Attempts, Recorded(a),
         \/ journal \subseteq journal'
         \/ attempts'[a].status = "success"
  PROVE  Recorded(a)'
BY DEF Kept, Recorded

-----------------------------------------------------------------------------
(* The type invariant: what senders do,                                    *)

LEMMA SenderTypes ==
  ASSUME TypeOK, NEW s \in Senders
  PROVE  /\ sender[s] \in Sender
         /\ NoRun \in Sender
         /\ \A place \in Places : GoesTo(s, place) => sender' \in [Senders -> Sender]
         /\ Stops(s) => sender' \in [Senders -> Sender]
<1>1. sender \in [Senders -> Sender]
  BY DEF TypeOK
<1>2. NoRun \in Sender
  BY DEF NoRun, Sender, Places, Uploaders
<1>3. \A place \in Places : [sender[s] EXCEPT !.at = place] \in Sender
  BY <1>1 DEF Sender
<1> QED BY <1>1, <1>2, <1>3 DEF GoesTo, Stops

\* What the queueing of an upload makes of the uploads.
LEMMA QueuedTypes ==
  ASSUME TypeOK, NEW u \in Uploaders
  PROVE  Queued(u) \subseteq [Uploaders -> Upload] /\ Resumed(u) \subseteq [Uploaders -> Upload]
<1>1. upload \in [Uploaders -> Upload]
  BY DEF TypeOK
<1>2. \A st \in {"queued", "skipped"} : [upload EXCEPT ![u].status = st] \in [Uploaders -> Upload]
  BY <1>1 DEF Upload, UploadStatuses
<1> QED BY <1>1, <1>2 DEF Queued, Resumed

LEMMA TypeStart ==
  ASSUME TypeOK, NEW s \in Senders,
         StartTask(s) \/ StartPage(s) \/ \E u \in Uploaders : RetryPage(s, u)
  PROVE  TypeOK'
<1>1. "biliup" \in Uploaders /\ Uploader \in Uploaders
  BY DEF Uploaders, Uploader
<1>2. ASSUME NEW place \in Places, NEW u \in Uploaders, Starts(s, place, u)
      PROVE  /\ sender' \in [Senders -> Sender]
             /\ requests' \in Nat /\ faults' \in Nat
             /\ UNCHANGED <<attempts, clip, automatic, journal, sync, commands, accepted, confirmed>>
  <2>1. [NoRun EXCEPT !.at = place, !.uploader = u, !.permitted = TRUE, !.tries = 1] \in Sender
    BY DEF NoRun, Sender
  <2>2. sender' \in [Senders -> Sender]
    BY <1>2, <2>1 DEF Starts, TypeOK
  <2> QED BY <1>2, <2>2 DEF Starts, Asked, TypeOK, world
<1>3. CASE StartTask(s)
  <2>1. upload' \in [Uploaders -> Upload]
    BY <1>1, <1>3, QueuedTypes DEF StartTask, TypeOK
  <2> QED BY <1>1, <1>2, <1>3, <2>1 DEF StartTask, TypeOK, Places
<1>4. CASE StartPage(s)
  <2>1. upload' \in [Uploaders -> Upload]
    BY <1>1, <1>4, QueuedTypes DEF StartPage
  <2> QED BY <1>1, <1>2, <1>4, <2>1 DEF StartPage, TypeOK, Places
<1>5. ASSUME NEW u \in Uploaders, RetryPage(s, u)
      PROVE  TypeOK'
  BY <1>2, <1>5 DEF RetryPage, TypeOK, Places
<1> QED BY <1>3, <1>4, <1>5

LEMMA TypePrepare ==
  ASSUME TypeOK, NEW s \in Senders,
         \/ Process(s) \/ ExportManually(s) \/ FindReceipt(s)
         \/ RefuseToPrepare(s) \/ SkipUpload(s) \/ PrepareAttempt(s)
  PROVE  TypeOK'
<1> USE DEF world, bounds, db
<1>1. sender[s] \in Sender /\ sender \in [Senders -> Sender]
  BY SenderTypes DEF TypeOK
<1>2. CASE Process(s)
  <2>1. sender[s].uploader \in Uploaders
    BY <1>1 DEF Sender
  <2>2. upload' \in [Uploaders -> Upload]
    BY <1>2, <2>1, QueuedTypes DEF Process
  <2>3. sender' \in [Senders -> Sender]
    BY <1>2, SenderTypes DEF Process, Places
  <2> QED BY <1>2, <2>2, <2>3 DEF Process, TypeOK
<1>3. CASE ExportManually(s)
  <2>1. upload' \in [Uploaders -> Upload]
    BY <1>3, SetUploadFacts DEF ExportManually, TypeOK, Uploaders, UploadStatuses, RemoteIds
  <2> QED BY <1>3, <2>1, SenderTypes DEF ExportManually, TypeOK
<1>4. CASE FindReceipt(s)
  <2>1. PICK a \in Receipts :
          sender' = [sender EXCEPT ![s] = [@ EXCEPT
            !.at = "commit", !.attempt = a, !.outcome = "success", !.remote = attempts[a].remote]]
    BY <1>4 DEF FindReceipt
  <2>2. a \in Nat /\ attempts[a] \in Attempt
    BY AttemptsShape DEF Receipts, Attempts, TypeOK
  <2>3. sender' \in [Senders -> Sender]
    BY <1>1, <2>1, <2>2 DEF Sender, Attempt, Places, Outcomes
  <2> QED BY <1>4, <2>3 DEF FindReceipt, TypeOK
<1>5. CASE RefuseToPrepare(s)
  BY <1>5, SenderTypes DEF RefuseToPrepare, TypeOK
<1>6. CASE SkipUpload(s)
  <2>1. upload' \in [Uploaders -> Upload]
    BY <1>6 DEF SkipUpload, TypeOK, Uploaders, Upload, UploadStatuses
  <2> QED BY <1>6, <2>1, SenderTypes DEF SkipUpload, TypeOK
<1>7. CASE PrepareAttempt(s)
  <2>1. upload' \in [Uploaders -> Upload]
    <3>1. [upload["biliup"] EXCEPT !.status = "preparing", !.owner = s] \in Upload
      BY DEF TypeOK, Uploaders, Upload, UploadStatuses
    <3> QED BY <1>7, <3>1 DEF PrepareAttempt, TypeOK
  <2>2. attempts' \in Seq(Attempt) /\ Len(attempts) \in Nat
    <3>1. [status |-> "prepared", worker |-> s, remote |-> Null, aged |-> FALSE] \in Attempt
      BY DEF Attempt, AttemptStatuses
    <3> QED BY <1>7, <3>1, AttemptsShape DEF PrepareAttempt, TypeOK
  <2>3. sender' \in [Senders -> Sender]
    <3>1. \A n \in Nat : [sender[s] EXCEPT !.at = "execute", !.attempt = n] \in Sender
      BY <1>1 DEF Sender, Places
    <3>2. Len(attempts) + 1 \in Nat
      BY <2>2
    <3> QED BY <1>1, <1>7, <3>1, <3>2 DEF PrepareAttempt
  <2> QED BY <1>7, <2>1, <2>2, <2>3 DEF PrepareAttempt, TypeOK
<1> QED BY <1>2, <1>3, <1>4, <1>5, <1>6, <1>7

LEMMA TypeExecute ==
  ASSUME TypeOK, NEW s \in Senders, sender[s].at \in WithAttempt => sender[s].attempt \in Attempts,
         \/ FindAttemptClosed(s) \/ RefuseToSend(s) \/ MarkSent(s)
         \/ StartCommand(s) \/ LoseOwnership(s) \/ Renew(s)
  PROVE  TypeOK'
<1> USE DEF world, bounds, db, proc
<1> DEFINE a == sender[s].attempt
<1>1. sender[s] \in Sender /\ sender \in [Senders -> Sender]
  BY SenderTypes DEF TypeOK
<1>2. attempts \in [Attempts -> Attempt] /\ upload["biliup"] \in Upload
  BY AttemptsShape DEF Attempts, TypeOK, Uploaders
<1>3. sender[s].at \in {"execute", "sending", "uploading", "answered", "journal_failed"} => a \in Attempts
  BY DEF WithAttempt
<1>4. [attempts EXCEPT ![a].aged = FALSE] \in [Attempts -> Attempt]
  BY <1>2 DEF Attempt
<1>5. [attempts EXCEPT ![a].aged = FALSE] \in Seq(Attempt)
  BY <1>4, SameLength DEF TypeOK
<1>6. CASE FindAttemptClosed(s)
  BY <1>6, SenderTypes DEF FindAttemptClosed, TypeOK
<1>7. CASE RefuseToSend(s)
  <2>1. attempts' \in Seq(Attempt)
    BY <1>3, <1>7, ClosedFacts DEF RefuseToSend, TypeOK, AttemptStatuses
  <2>2. upload' \in [Uploaders -> Upload]
    BY <1>2, <1>7, SetUploadFacts DEF RefuseToSend, TypeOK, Uploaders, UploadStatuses, Upload
  <2> QED BY <1>7, <2>1, <2>2, SenderTypes DEF RefuseToSend, TypeOK
<1>8. CASE MarkSent(s)
  <2>1. [attempts EXCEPT ![a].status = "in_progress", ![a].aged = FALSE] \in [Attempts -> Attempt]
    BY <1>2 DEF Attempt, AttemptStatuses
  <2>2. attempts' \in Seq(Attempt)
    BY <1>8, <2>1, SameLength DEF MarkSent, TypeOK
  <2>3. upload' \in [Uploaders -> Upload]
    BY <1>8 DEF MarkSent, TypeOK, Uploaders, Upload, UploadStatuses
  <2>4. sender' \in [Senders -> Sender]
    BY <1>8, SenderTypes DEF MarkSent, Places
  <2> QED BY <1>8, <2>2, <2>3, <2>4 DEF MarkSent, TypeOK
<1>9. CASE StartCommand(s)
  <2>1. sender' \in [Senders -> Sender]
    BY <1>9, SenderTypes DEF StartCommand, Places
  <2>2. commands' \subseteq Nat
    BY <1>1, <1>9 DEF StartCommand, TypeOK, Sender
  <2> QED BY <1>5, <1>9, <2>1, <2>2 DEF StartCommand, TypeOK
<1>10. CASE LoseOwnership(s)
  <2>1. [sender[s] EXCEPT !.at = "commit", !.outcome = "failed_permanent"] \in Sender
    BY <1>1 DEF Sender, Places, Outcomes
  <2>2. sender' \in [Senders -> Sender]
    BY <1>1, <1>10, <2>1 DEF LoseOwnership
  <2> QED BY <1>10, <2>2 DEF LoseOwnership, TypeOK
<1>11. CASE Renew(s)
  BY <1>5, <1>11 DEF Renew, TypeOK
<1> QED BY <1>6, <1>7, <1>8, <1>9, <1>10, <1>11

LEMMA ReceiptType ==
  ASSUME NEW a \in Nat, NEW remote \in RemoteIds \cup {Null}
  PROVE  Receipt(a, remote) \in [attempt : Nat, remote : RemoteIds \cup {Null}]
BY DEF Receipt

\* A transaction that records the end of an attempt.
LEMMA RecordsTypes ==
  ASSUME TypeOK, NEW a \in Attempts, NEW status \in AttemptStatuses \ {"prepared", "in_progress"},
         NEW remote \in RemoteIds \cup {Null}, Records(a, status, remote)
  PROVE  /\ attempts' \in Seq(Attempt)
         /\ upload' \in [Uploaders -> Upload]
         /\ clip' \in {"ready", "rejected", "published"}
         /\ automatic' \in BOOLEAN
<1>1. attempts' \in Seq(Attempt)
  BY ClosedFacts DEF Records, TypeOK
<1>2. upload' \in [Uploaders -> Upload]
  BY StatusFacts, SetUploadFacts DEF Records, TypeOK, Uploaders
<1> QED BY <1>1, <1>2 DEF Records, TypeOK

LEMMA AfterCommitTypes ==
  ASSUME TypeOK, NEW s \in Senders, AfterCommit(s)
  PROVE  sender' \in [Senders -> Sender]
<1>1. sender[s] \in Sender /\ sender \in [Senders -> Sender] /\ NoRun \in Sender
  BY SenderTypes DEF TypeOK
<1>2. \A n \in Nat : [sender[s] EXCEPT !.at = "prepare", !.tries = n, !.attempt = 0, !.outcome = Null] \in Sender
  BY <1>1 DEF Sender, Places
<1>3. sender[s].tries + 1 \in Nat
  BY <1>1 DEF Sender
<1>4. Continues(s) => sender' \in [Senders -> Sender]
  <2> DEFINE next == [sender[s] EXCEPT !.at = "prepare", !.tries = sender[s].tries + 1,
                                       !.attempt = 0, !.outcome = Null]
  <2>1. next \in Sender
    BY <1>2, <1>3
  <2>2. Continues(s) => sender' = [sender EXCEPT ![s] =
          IF s \in PageSenders /\ sender[s].outcome = "failed_retryable" /\ sender[s].tries < MaxTries
          THEN next ELSE NoRun]
    BY <1>1 DEF Continues
  <2> HIDE DEF next
  <2> QED BY <1>1, <2>1, <2>2
<1>5. GoesTo(s, "commit") => sender' \in [Senders -> Sender]
  BY SenderTypes DEF Places
<1> QED BY <1>4, <1>5 DEF AfterCommit

LEMMA TypeCommit ==
  ASSUME TypeOK, NEW s \in Senders,
         sender[s].at \in WithAttempt => sender[s].attempt \in Attempts,
         sender[s].at \in {"journal_failed", "commit"} => sender[s].outcome \in Outcomes,
         \/ (\E outcome \in Outcomes : Return(s, outcome)) \/ WriteReceipt(s)
         \/ CommitResult(s) \/ CommitFails(s) \/ Raise(s) \/ Revoke(s)
  PROVE  TypeOK'
<1> USE DEF world, bounds, db, proc
<1> DEFINE a == sender[s].attempt
           remote == sender[s].remote
           outcome == sender[s].outcome
<1>1. sender[s] \in Sender /\ sender \in [Senders -> Sender]
  BY SenderTypes DEF TypeOK
<1>2. a \in Nat /\ remote \in RemoteIds \cup {Null}
  BY <1>1 DEF Sender
<1>3. sender[s].at \in {"journal_failed", "commit"} =>
        /\ a \in Attempts
        /\ RemoteAfter(a, remote) \in RemoteIds \cup {Null}
        /\ Target(a, outcome) \in AttemptStatuses \ {"prepared", "in_progress"}
  <2>1. sender[s].at \in {"journal_failed", "commit"} => a \in Attempts
    BY DEF WithAttempt
  <2>2. a \in Attempts => RemoteAfter(a, remote) \in RemoteIds \cup {Null}
    BY <1>2, AttemptsShape DEF RemoteAfter, Attempts, TypeOK, Attempt
  <2>3. outcome \in Outcomes => Target(a, outcome) \in AttemptStatuses \ {"prepared", "in_progress"}
    BY StatusFacts DEF AttemptStatuses, Refusals
  <2> QED BY <2>1, <2>2, <2>3
<1>4. ASSUME NEW o \in Outcomes, Return(s, o) PROVE TypeOK'
  <2>1. [sender[s] EXCEPT !.at = IF o = "success" THEN "answered" ELSE "commit",
                          !.outcome = o,
                          !.remote = IF o = "success" THEN "parsed" ELSE Null] \in Sender
    BY <1>1 DEF Sender, Places, RemoteIds
  <2>2. sender' \in [Senders -> Sender]
    BY <1>1, <1>4, <2>1 DEF Return
  <2>3. commands' \subseteq Nat
    BY <1>4 DEF Return, TypeOK
  <2> QED BY <1>4, <2>2, <2>3 DEF Return, TypeOK
<1>5. CASE WriteReceipt(s)
  <2>1. sender' \in [Senders -> Sender]
    BY <1>5, SenderTypes DEF WriteReceipt, Places
  <2>2. journal' \subseteq [attempt : Nat, remote : RemoteIds \cup {Null}]
    BY <1>2, <1>5, ReceiptType DEF WriteReceipt, TypeOK
  <2> QED BY <1>5, <2>1, <2>2 DEF WriteReceipt, TypeOK, Broken
<1>6. CASE CommitResult(s)
  <2>1. sender' \in [Senders -> Sender]
    BY <1>6, AfterCommitTypes DEF CommitResult
  <2>2. CASE Ignored(a, outcome, remote)
    BY <1>6, <2>1, <2>2 DEF CommitResult, TypeOK
  <2>3. CASE ~Ignored(a, outcome, remote)
    <3>1. Records(a, Target(a, outcome), RemoteAfter(a, remote))
      BY <1>6, <2>3 DEF CommitResult
    <3>2. sender[s].at \in {"journal_failed", "commit"} /\ journal' \subseteq journal
      BY <1>6, <2>3 DEF CommitResult, Forgets
    <3>3. /\ attempts' \in Seq(Attempt)
          /\ upload' \in [Uploaders -> Upload]
          /\ clip' \in {"ready", "rejected", "published"}
          /\ automatic' \in BOOLEAN
      BY <1>3, <3>1, <3>2, RecordsTypes
    <3> QED BY <1>6, <2>1, <3>2, <3>3 DEF CommitResult, TypeOK
  <2> QED BY <2>2, <2>3
<1>7. CASE CommitFails(s)
  <2>1. sender' \in [Senders -> Sender]
    BY <1>7, AfterCommitTypes, SenderTypes DEF CommitFails
  <2>2. journal' \subseteq [attempt : Nat, remote : RemoteIds \cup {Null}]
    BY <1>2, <1>3, <1>7, ReceiptType DEF CommitFails, TypeOK
  <2> QED BY <1>7, <2>1, <2>2 DEF CommitFails, TypeOK, Broken
<1>8. CASE Raise(s)
  BY <1>8, SenderTypes DEF Raise, TypeOK, Broken
<1>9. CASE Revoke(s)
  <2>1. [sender[s] EXCEPT !.permitted = FALSE] \in Sender
    BY <1>1 DEF Sender
  <2>2. sender' \in [Senders -> Sender]
    BY <1>1, <1>9, <2>1 DEF Revoke
  <2> QED BY <1>9, <2>2 DEF Revoke, TypeOK, Asked
<1> QED BY <1>4, <1>5, <1>6, <1>7, <1>8, <1>9

-----------------------------------------------------------------------------
(* what recovery does,                                                     *)

LEMMA TypeRecovery ==
  ASSUME TypeOK, \A receipt \in journal : receipt.attempt \in Attempts,
         \/ (\E receipt \in journal : ReplayReceipt(receipt))
         \/ (\E a \in Attempts : RecoverStaleAttempt(a) \/ Age(a) \/ Arrive(a))
  PROVE  TypeOK'
<1> USE DEF world, bounds, db, proc
<1>1. attempts \in [Attempts -> Attempt] /\ upload["biliup"] \in Upload /\ Attempts \subseteq Nat
  BY AttemptsShape DEF Attempts, TypeOK, Uploaders
<1>2. ASSUME NEW receipt \in journal, ReplayReceipt(receipt) PROVE TypeOK'
  <2>1. receipt.attempt \in Attempts /\ receipt.remote \in RemoteIds \cup {Null}
    BY DEF TypeOK
  <2>2. Records(receipt.attempt, "success", receipt.remote) /\ journal' \subseteq journal
    BY <1>2 DEF ReplayReceipt, Forgets
  <2>3. "success" \in AttemptStatuses \ {"prepared", "in_progress"}
    BY DEF AttemptStatuses
  <2>4. /\ attempts' \in Seq(Attempt)
        /\ upload' \in [Uploaders -> Upload]
        /\ clip' \in {"ready", "rejected", "published"}
        /\ automatic' \in BOOLEAN
    BY <2>1, <2>2, <2>3, RecordsTypes
  <2> QED BY <1>2, <2>2, <2>4 DEF ReplayReceipt, TypeOK
<1>3. ASSUME NEW a \in Attempts, RecoverStaleAttempt(a) PROVE TypeOK'
  <2>1. GivenUp(attempts[a].status) \in AttemptStatuses \cap UploadStatuses
    BY DEF GivenUp, AttemptStatuses, UploadStatuses
  <2>2. attempts[a].remote \in RemoteIds \cup {Null} /\ upload["biliup"].remote \in RemoteIds \cup {Null}
    BY <1>1 DEF Attempt, Upload
  <2>3. attempts' \in Seq(Attempt)
    BY <1>3, <2>1, <2>2, ClosedFacts DEF RecoverStaleAttempt, TypeOK
  <2>4. upload' \in [Uploaders -> Upload]
    BY <1>3, <2>1, <2>2, SetUploadFacts DEF RecoverStaleAttempt, TypeOK, Uploaders
  <2> QED BY <1>3, <2>3, <2>4 DEF RecoverStaleAttempt, TypeOK
<1>4. ASSUME NEW a \in Attempts, Age(a) PROVE TypeOK'
  <2>1. [attempts EXCEPT ![a].aged = TRUE] \in [Attempts -> Attempt]
    BY <1>1 DEF Attempt
  <2>2. attempts' \in Seq(Attempt)
    BY <1>4, <2>1, SameLength DEF Age, TypeOK
  <2> QED BY <1>4, <2>2 DEF Age, TypeOK
<1>5. ASSUME NEW a \in Attempts, Arrive(a) PROVE TypeOK'
  BY <1>1, <1>5 DEF Arrive, TypeOK
<1> QED BY <1>2, <1>3, <1>4, <1>5

\* What the tick looks at is the last attempt.
LEMMA EvidenceIsLast ==
  ASSUME attempts \in Seq(Attempt), OnlyLastOpen, attempts # <<>>
  PROVE  Evidence = Len(attempts) /\ Len(attempts) \in Attempts
<1>1. Len(attempts) \in Attempts
  BY AttemptsShape DEF Attempts
<1> DEFINE successes == {a \in Attempts : attempts[a].status = "success"}
<1>2. CASE successes = {}
  BY <1>1, <1>2 DEF Evidence
<1>3. CASE successes # {}
  <2>1. successes = {Len(attempts)}
    BY <1>3 DEF OnlyLastOpen
  <2>2. Len(attempts) <= Len(attempts)
    BY AttemptsShape
  <2>3. \E a \in successes : \A b \in successes : a <= b
    BY <2>1, <2>2
  <2>4. (CHOOSE a \in successes : \A b \in successes : a <= b) \in successes
    BY <2>3
  <2> QED BY <1>1, <1>3, <2>1, <2>4 DEF Evidence
<1> QED BY <1>2, <1>3

\* A row that takes some columns of another one is a row.
LEMMA SyncWritten ==
  ASSUME NEW row \in Upload, NEW before \in Upload, NEW after \in Upload
  PROVE  LET written == [c \in DOMAIN row |-> IF after[c] # before[c] THEN after[c] ELSE row[c]] IN
         /\ written \in Upload
         /\ written.status \in {after.status, row.status}
         /\ written.owner \in {after.owner, row.owner}
<1> DEFINE written == [c \in DOMAIN row |-> IF after[c] # before[c] THEN after[c] ELSE row[c]]
<1>1. DOMAIN row = {"status", "owner", "remote"}
  BY DEF Upload
<1>2. written = [status |-> IF after.status # before.status THEN after.status ELSE row.status,
                 owner  |-> IF after.owner # before.owner THEN after.owner ELSE row.owner,
                 remote |-> IF after.remote # before.remote THEN after.remote ELSE row.remote]
  BY <1>1
<1> HIDE DEF written
<1> QED BY <1>2 DEF Upload

LEMMA TypeSync ==
  ASSUME TypeOK, SyncSound, attempts # <<>> => Evidence \in Attempts, SyncRead \/ SyncLoad \/ SyncWrite
  PROVE  TypeOK'
<1> USE DEF world, db
<1>1. attempts \in [Attempts -> Attempt] /\ upload["biliup"] \in Upload /\ sync \in Sync
  BY AttemptsShape DEF Attempts, TypeOK, Uploaders
<1>2. CASE SyncRead
  <2>2. Evidence \in Nat /\ attempts[Evidence] \in Attempt
    BY <1>1, <1>2, AttemptsShape DEF SyncRead, Attempts, TypeOK
  <2>3. \A a \in Nat : \A st \in AttemptStatuses : \A r \in RemoteIds \cup {Null} :
          [sync EXCEPT !.at = "read", !.attempt = a, !.status = st, !.remote = r] \in Sync
    BY <1>1 DEF Sync
  <2>4. sync' \in Sync
    BY <1>2, <2>2, <2>3 DEF SyncRead, Attempt
  <2> QED BY <1>2, <2>4 DEF SyncRead, TypeOK, bounds
<1> NoSync \in Sync
  BY DEF NoSync, Sync, NoUpload, Upload, UploadStatuses
<1>3. CASE SyncLoad
  <2>1. sync.status \in UploadStatuses /\ sync.remote \in RemoteIds \cup {Null}
    BY <1>1, <1>3, StatusFacts DEF SyncLoad, SyncSound, Sync
  <2>2. SyncedUpload(upload["biliup"]) \in Upload
    BY <1>1, <2>1 DEF SyncedUpload, Upload
  <2>3. \A row \in Upload : \A after \in Upload : \A mark \in BOOLEAN :
          [sync EXCEPT !.at = "loaded", !.before = row, !.after = after, !.mark = mark] \in Sync
    BY <1>1 DEF Sync
  <2>4. sync' \in Sync
    BY <1>1, <1>3, <2>2, <2>3 DEF SyncLoad
  <2> QED BY <1>3, <2>4 DEF SyncLoad, TypeOK, bounds
<1>4. CASE SyncWrite
  <2>1. sync.before \in Upload /\ sync.after \in Upload
    BY <1>1 DEF Sync
  <2> DEFINE written == [c \in DOMAIN upload["biliup"] |->
                           IF sync.after[c] # sync.before[c] THEN sync.after[c] ELSE upload["biliup"][c]]
  <2>2. written \in Upload
    BY <1>1, <2>1, SyncWritten
  <2>3. upload' = [upload EXCEPT !["biliup"] = written]
    BY <1>4 DEF SyncWrite
  <2> HIDE DEF written
  <2>4. upload' \in [Uploaders -> Upload]
    BY <2>2, <2>3 DEF TypeOK
  <2> QED BY <1>4, <2>4 DEF SyncWrite, TypeOK, bounds
<1> QED BY <1>2, <1>3, <1>4

-----------------------------------------------------------------------------
(* and what people and the machine do.                                     *)

LEMMA TypeOther ==
  ASSUME TypeOK,
         \/ \E id \in {Null, "typed"} : Confirm(id)
         \/ \E status \in {"ready", "rejected"} : Decide(status)
         \/ Toggle \/ Crash
  PROVE  TypeOK'
<1> USE DEF world, proc, db
<1>1. attempts \in [Attempts -> Attempt] /\ upload \in [Uploaders -> Upload]
  BY AttemptsShape DEF Attempts, TypeOK
<1>2. ASSUME NEW id \in {Null, "typed"}, Confirm(id) PROVE TypeOK'
  <2>1. attempts' \in [Attempts -> Attempt]
    BY <1>1, <1>2 DEF Confirm, Attempt, AttemptStatuses, RemoteIds
  <2>2. attempts' \in Seq(Attempt)
    BY <2>1, SameLength DEF TypeOK
  <2>3. upload' \in [Uploaders -> Upload]
    BY <1>1, <1>2 DEF Confirm, Upload, UploadStatuses, RemoteIds
  <2>4. /\ clip' = "published" /\ confirmed' = TRUE /\ Asked
        /\ UNCHANGED <<automatic, journal, sender, sync, commands, accepted>>
    BY <1>2, Zenon DEF Confirm
  <2> QED BY <2>2, <2>3, <2>4 DEF Asked, TypeOK
<1>3. ASSUME NEW status \in {"ready", "rejected"}, Decide(status) PROVE TypeOK'
  BY <1>3 DEF Decide, Asked, TypeOK
<1>4. CASE Toggle
  BY <1>4 DEF Toggle, Asked, TypeOK
<1>5. CASE Crash
  <2>1. NoSync \in Sync
    BY DEF NoSync, Sync, NoUpload, Upload, UploadStatuses
  <2>2. NoRun \in Sender
    BY DEF NoRun, Sender, Places, Uploaders
  <2> QED BY <1>5, <2>1, <2>2 DEF Crash, Broken, TypeOK
<1> QED BY <1>2, <1>3, <1>4, <1>5

\* What the invariant says of the attempts that steps refer to.
LEMMA Indices ==
  ASSUME IInv
  PROVE  /\ \A s \in Senders : sender[s].at \in WithAttempt => sender[s].attempt \in Attempts
         /\ \A s \in Senders : sender[s].at \in {"journal_failed", "commit"} => sender[s].outcome \in Outcomes
         /\ \A receipt \in journal : receipt.attempt \in Attempts
         /\ attempts # <<>> => Evidence = Len(attempts) /\ Len(attempts) \in Attempts
<1>1. ASSUME NEW s \in Senders
      PROVE  /\ sender[s].at \in WithAttempt => sender[s].attempt \in Attempts
             /\ sender[s].at \in {"journal_failed", "commit"} => sender[s].outcome \in Outcomes
  BY DEF IInv, SendersSound, SenderSound, WithAttempt, Outcomes
<1>2. \A receipt \in journal : receipt.attempt \in Attempts
  BY DEF IInv, JournalSound, Proven, SentStaysOpen
<1>3. attempts # <<>> => Evidence = Len(attempts) /\ Len(attempts) \in Attempts
  BY EvidenceIsLast DEF IInv, TypeOK
<1> QED BY <1>1, <1>2, <1>3

LEMMA TypeStep == IInv /\ [Next]_vars => TypeOK'
<1> SUFFICES ASSUME IInv, [Next]_vars PROVE TypeOK'
  OBVIOUS
<1>1. TypeOK /\ OnlyLastOpen /\ SyncSound
  BY DEF IInv
<1>2. ASSUME NEW s \in Senders,
             \/ StartTask(s) \/ StartPage(s) \/ (\E u \in Uploaders : RetryPage(s, u))
             \/ SenderStep(s) \/ Renew(s) \/ CommitFails(s) \/ Raise(s) \/ Revoke(s)
      PROVE  TypeOK'
  <2>1. /\ sender[s].at \in WithAttempt => sender[s].attempt \in Attempts
        /\ sender[s].at \in {"journal_failed", "commit"} => sender[s].outcome \in Outcomes
    BY Indices
  <2> QED BY <1>1, <1>2, <2>1, TypeStart, TypePrepare, TypeExecute, TypeCommit DEF SenderStep
<1>3. CASE Recovery \/ \E a \in Attempts : Age(a) \/ Arrive(a)
  BY <1>1, <1>3, Indices, TypeRecovery, TypeSync DEF Recovery
<1>4. ASSUME \/ \E id \in {Null, "typed"} : Confirm(id)
             \/ \E status \in {"ready", "rejected"} : Decide(status)
             \/ Toggle \/ Crash
      PROVE  TypeOK'
  BY <1>1, <1>4, TypeOther
<1>5. CASE UNCHANGED vars
  BY <1>1, <1>5 DEF TypeOK, vars, db, proc, world, bounds
<1> QED BY <1>2, <1>3, <1>4, <1>5 DEF Next

-----------------------------------------------------------------------------
(* What steps do to attempts.  Most leave them as they are; the others     *)
(* settle the last one, add one, or are a person's confirmation.           *)

\* What becomes of an attempt that is not over.
Moves(a, status) ==
  \/ attempts[a].status = "prepared" /\ status \in {"in_progress"} \cup Refusals
  \/ attempts[a].status = "in_progress"
  \/ attempts[a].status = "reconciliation_required" /\ status \in PassedOn
  \/ attempts[a].status = "success" /\ status = "success"

\* The step gives the last attempt a status, and the upload follows.
Settling(a, status) ==
  /\ a \in Attempts /\ a = Len(attempts)
  /\ Len(attempts') = Len(attempts) /\ DOMAIN attempts' = DOMAIN attempts
  /\ attempts'[a].status = status
  /\ \A b \in Attempts : attempts'[b].worker = attempts[b].worker
  /\ \A b \in Attempts \ {a} : attempts'[b] = attempts[b]
  /\ status \in AttemptStatuses \ {"prepared"}
  /\ Moves(a, status)
  /\ a \in commands \cup accepted => status \in Sent
  /\ status = "success" => Proven(a)
  /\ upload'["biliup"].status = IF status = "in_progress" THEN "uploading" ELSE status
  /\ upload'["biliup"].owner = IF status = "in_progress" THEN attempts[a].worker ELSE Null
  /\ journal' \subseteq journal
  /\ \A receipt \in journal \ journal' : receipt.attempt = a /\ status = "success"
  /\ UNCHANGED <<commands, accepted, confirmed, sync>>

LEMMA SettlingKeeps ==
  ASSUME IInv, TypeOK', NEW a, NEW status, Settling(a, status)
  PROVE  /\ OnlyLastOpen' /\ SentStaysOpen' /\ JournalSound' /\ AttemptsGrounded'
         /\ ClaimMatchesAttempt' /\ UploadFollows' /\ SuccessIsGrounded'
         /\ SyncSound'
         /\ Kept
<1>1. attempts # <<>> /\ attempts' # <<>> /\ a = Len(attempts) /\ a = Len(attempts') /\ Attempts' = Attempts
  BY AttemptsShape DEF Settling, IInv, TypeOK, Attempts
<1>2. /\ attempts'[a].status = status /\ attempts'[a].worker = attempts[a].worker
      /\ \A b \in Attempts \ {a} : attempts'[b].status = attempts[b].status
      /\ \A b \in Attempts : attempts'[b].worker = attempts[b].worker
      /\ a \in Attempts
  BY DEF Settling
<1>3. /\ attempts[a].status = "success" => status = "success"
      /\ attempts[a].status \in PassedOn => status \in PassedOn
      /\ status = "success" => accepted # {} \/ confirmed
  BY <1>2 DEF Settling, Moves, PassedOn, Proven, IInv, AttemptsGrounded
<1>4. Kept
  BY <1>1, <1>2, <1>3 DEF Kept, Settling
<1>5. OnlyLastOpen'
  BY <1>1, <1>2 DEF OnlyLastOpen, IInv
<1>6. SentStaysOpen'
  BY <1>1, <1>2 DEF SentStaysOpen, IInv, Settling
<1>7. JournalSound'
  BY <1>1, <1>2, <1>3 DEF JournalSound, Proven, IInv, Settling
<1>8. AttemptsGrounded'
  BY <1>1, <1>2, <1>3 DEF AttemptsGrounded, IInv, Settling
<1>9. ClaimMatchesAttempt'
  BY <1>1, <1>2 DEF ClaimMatchesAttempt, Settling, AttemptStatuses
<1>10. UploadFollows'
  BY <1>1, <1>2 DEF UploadFollows, Settling, PassedOn
<1>11. SuccessIsGrounded'
  BY <1>1, <1>2, <1>3 DEF SuccessIsGrounded, Settling
<1>12. SyncSound'
  BY <1>1, <1>2, <1>3 DEF SyncSound, IInv, Settling
<1> QED BY <1>4, <1>5, <1>6, <1>7, <1>8, <1>9, <1>10, <1>11, <1>12

\* An attempt that may still change is the last one.
LEMMA OpenIsLast ==
  ASSUME IInv, NEW a \in Attempts, attempts[a].status # "failed_retryable"
  PROVE  /\ a = Len(attempts) /\ attempts # <<>> /\ Current(a)
         /\ attempts[a].status = "prepared" => upload["biliup"].owner = attempts[a].worker
         /\ attempts[a].status = "in_progress" => upload["biliup"].owner = attempts[a].worker
<1>1. a = Len(attempts)
  BY DEF IInv, OnlyLastOpen
<1>2. attempts # <<>>
  BY <1>1, AttemptsShape DEF IInv, TypeOK, Attempts
<1> QED BY <1>1, <1>2 DEF Current, IInv, ClaimMatchesAttempt

\* A transaction that records the end of the last attempt settles it.
LEMMA RecordsSettles ==
  ASSUME IInv, NEW a \in Attempts, NEW status \in {"success", "reconciliation_required"} \cup Refusals,
         NEW remote \in RemoteIds \cup {Null}, Records(a, status, remote),
         Moves(a, status),
         a \in commands \cup accepted => status \in Sent,
         status = "success" => Proven(a),
         journal' \subseteq journal,
         \A receipt \in journal \ journal' : receipt.attempt = a /\ status = "success",
         UNCHANGED <<commands, accepted, confirmed, sync>>
  PROVE  Settling(a, status)
<1>1. status \in AttemptStatuses \ {"prepared", "in_progress"} /\ status \in UploadStatuses
  BY DEF AttemptStatuses, UploadStatuses, Refusals
<1>2. a = Len(attempts) /\ Current(a)
  BY OpenIsLast DEF Moves
<1>3. attempts \in Seq(Attempt) /\ upload \in [Uploaders -> Upload] /\ "biliup" \in Uploaders
  BY DEF IInv, TypeOK, Uploaders
<1>4. attempts' = Closed(a, status, remote) /\ upload' = SetUpload("biliup", status, remote)
  BY <1>2 DEF Records
<1>5. /\ Len(attempts') = Len(attempts) /\ DOMAIN attempts' = Attempts
      /\ attempts'[a].status = status
      /\ \A b \in Attempts : attempts'[b].worker = attempts[b].worker
      /\ \A b \in Attempts \ {a} : attempts'[b] = attempts[b]
  BY <1>1, <1>3, <1>4, ClosedFacts
<1>6. upload'["biliup"].status = status /\ upload'["biliup"].owner = Null
  BY <1>1, <1>3, <1>4, SetUploadFacts
<1> QED BY <1>1, <1>2, <1>5, <1>6 DEF Settling, Attempts

LEMMA CommitSettles ==
  ASSUME IInv, NEW s \in Senders, CommitResult(s),
         ~Ignored(sender[s].attempt, sender[s].outcome, sender[s].remote)
  PROVE  Settling(sender[s].attempt, Target(sender[s].attempt, sender[s].outcome))
<1> DEFINE a == sender[s].attempt
           outcome == sender[s].outcome
           remote == sender[s].remote
<1>1. sender[s].at \in {"journal_failed", "commit"}
  BY DEF CommitResult
<1>2. a \in Attempts /\ outcome \in Outcomes
  BY <1>1, Indices DEF WithAttempt
<1>3. /\ outcome = "success" => Proven(a)
      /\ outcome \in Refusals => a \notin commands \cup accepted
  BY <1>1 DEF IInv, SendersSound, SenderSound, WithAttempt
<1>4. attempts[a].status = "success" \/ ValidTransition(attempts[a].status, outcome)
  BY DEF Ignored
<1>5. attempts[a].status \in AttemptStatuses /\ attempts[a].remote \in RemoteIds \cup {Null}
  BY <1>2, AttemptsShape DEF IInv, TypeOK, Attempt, Attempts
<1>7. Target(a, outcome) \in {"success", "reconciliation_required"} \cup Refusals
  BY <1>2, StatusFacts
<1>8. attempts[a].status = "success" => Target(a, outcome) = "success"
  BY DEF Target
<1>9. attempts[a].status # "success" =>
        Target(a, outcome) = IF outcome = "remote_result_unknown" THEN "reconciliation_required" ELSE outcome
  BY DEF Target
<1>10. Moves(a, Target(a, outcome))
  BY <1>4, <1>8, <1>9 DEF Moves, PassedOn, Refusals, ValidTransition
<1>11. a \in commands \cup accepted => Target(a, outcome) \in Sent
  BY <1>2, <1>3, <1>8, <1>9 DEF Sent, Refusals, Outcomes
<1>12. Target(a, outcome) = "success" => Proven(a)
  BY <1>2, <1>3, <1>9 DEF Proven
<1>13. sender[s] \in Sender
  BY DEF IInv, TypeOK
<1>14. RemoteAfter(a, remote) \in RemoteIds \cup {Null}
  BY <1>5, <1>13 DEF RemoteAfter, Sender
<1>15. /\ Records(a, Target(a, outcome), RemoteAfter(a, remote))
       /\ journal' \in {journal, journal \ {Receipt(a, remote)}}
       /\ outcome # "success" => journal' = journal
       /\ UNCHANGED <<commands, accepted, confirmed, sync>>
  BY DEF CommitResult, Forgets, world
<1>16. outcome = "success" => Target(a, outcome) = "success"
  BY <1>8, <1>9
<1>17. Receipt(a, remote).attempt = a
  BY DEF Receipt
<1>18. \A receipt \in journal \ journal' : receipt.attempt = a /\ Target(a, outcome) = "success"
  BY <1>15, <1>16, <1>17
<1> HIDE DEF a, outcome, remote
<1> QED BY <1>2, <1>7, <1>10, <1>11, <1>12, <1>14, <1>15, <1>18, RecordsSettles DEF a, outcome, remote

LEMMA ReplaySettles ==
  ASSUME IInv, NEW receipt \in journal, ReplayReceipt(receipt)
  PROVE  Settling(receipt.attempt, "success")
<1> DEFINE a == receipt.attempt
<1>1. a \in Attempts /\ receipt.remote \in RemoteIds \cup {Null}
  BY Indices DEF IInv, TypeOK
<1>2. Proven(a)
  BY DEF IInv, JournalSound
<1>3. attempts[a].status \in Sent
  BY <1>2 DEF Proven, Sent, IInv, SentStaysOpen
<1>5. /\ Records(a, "success", receipt.remote)
      /\ journal' \in {journal, journal \ {receipt}}
      /\ UNCHANGED <<commands, accepted, confirmed, sync>>
  BY DEF ReplayReceipt, Forgets, world, proc
<1>6. Moves(a, "success") /\ "success" \in Sent
  BY <1>3 DEF Moves, Sent, PassedOn
<1> QED BY <1>1, <1>2, <1>5, <1>6, RecordsSettles

LEMMA RecoverySettles ==
  ASSUME IInv, NEW a \in Attempts, RecoverStaleAttempt(a)
  PROVE  Settling(a, GivenUp(attempts[a].status))
<1> DEFINE status == GivenUp(attempts[a].status)
<1>1. attempts[a].status \in {"prepared", "in_progress"}
  BY DEF RecoverStaleAttempt, Abandoned
<1>2. a = Len(attempts) /\ Current(a)
  BY <1>1, OpenIsLast
<1>3. attempts \in Seq(Attempt) /\ upload \in [Uploaders -> Upload] /\ "biliup" \in Uploaders
  BY DEF IInv, TypeOK, Uploaders
<1>4. attempts[a].remote \in RemoteIds \cup {Null} /\ upload["biliup"].remote \in RemoteIds \cup {Null}
  BY <1>3, AttemptsShape DEF Attempt, Upload, Attempts
<1>5. /\ status \in {"failed_retryable", "reconciliation_required"}
      /\ status \in AttemptStatuses /\ status \in UploadStatuses
      /\ attempts[a].status = "prepared" => status = "failed_retryable"
      /\ attempts[a].status = "in_progress" => status = "reconciliation_required"
  BY <1>1 DEF GivenUp, AttemptStatuses, UploadStatuses
<1>6. attempts' = Closed(a, status, attempts[a].remote) /\ upload' = SetUpload("biliup", status, upload["biliup"].remote)
  BY <1>2 DEF RecoverStaleAttempt
<1>7. /\ Len(attempts') = Len(attempts) /\ DOMAIN attempts' = Attempts
      /\ attempts'[a].status = status
      /\ \A b \in Attempts : attempts'[b].worker = attempts[b].worker
      /\ \A b \in Attempts \ {a} : attempts'[b] = attempts[b]
  BY <1>3, <1>4, <1>5, <1>6, ClosedFacts
<1>8. upload'["biliup"].status = status /\ upload'["biliup"].owner = Null
  BY <1>3, <1>4, <1>5, <1>6, SetUploadFacts
<1>9. a \in commands \cup accepted => status \in Sent
  BY <1>1, <1>5 DEF IInv, SentStaysOpen, Sent
<1>10. UNCHANGED <<journal, commands, accepted, confirmed, sync>>
  BY DEF RecoverStaleAttempt, world, proc
<1> HIDE DEF status
<1>11. Settling(a, status)
  BY <1>1, <1>2, <1>5, <1>7, <1>8, <1>9, <1>10 DEF Settling, Moves, Refusals, Attempts
<1> QED BY <1>11 DEF status

LEMMA RefusalSettles ==
  ASSUME IInv, NEW s \in Senders, RefuseToSend(s)
  PROVE  Settling(sender[s].attempt, "failed_permanent")
<1> DEFINE a == sender[s].attempt
<1>1. /\ a \in Attempts
      /\ attempts[a].status = "prepared"
      /\ attempts[a].worker = s
      /\ a \notin commands \cup accepted
  BY DEF RefuseToSend, IInv, SendersSound, SenderSound, WithAttempt
<1>2. a = Len(attempts) /\ Matches(s, a)
  BY <1>1, OpenIsLast DEF Matches
<1>3. /\ attempts \in Seq(Attempt) /\ upload \in [Uploaders -> Upload] /\ "biliup" \in Uploaders
      /\ "failed_permanent" \in AttemptStatuses \cap UploadStatuses
  BY DEF IInv, TypeOK, Uploaders, AttemptStatuses, UploadStatuses
<1>4. upload["biliup"].remote \in RemoteIds \cup {Null}
  BY <1>3 DEF Upload
<1>5. /\ attempts' = Closed(a, "failed_permanent", Null)
      /\ upload' = SetUpload("biliup", "failed_permanent", upload["biliup"].remote)
  BY <1>2 DEF RefuseToSend
<1>6. /\ Len(attempts') = Len(attempts) /\ DOMAIN attempts' = Attempts
      /\ attempts'[a].status = "failed_permanent"
      /\ \A b \in Attempts : attempts'[b].worker = attempts[b].worker
      /\ \A b \in Attempts \ {a} : attempts'[b] = attempts[b]
  BY <1>1, <1>3, <1>5, ClosedFacts
<1>7. upload'["biliup"].status = "failed_permanent" /\ upload'["biliup"].owner = Null
  BY <1>3, <1>4, <1>5, SetUploadFacts
<1>8. UNCHANGED <<journal, commands, accepted, confirmed, sync>>
  BY DEF RefuseToSend, world
<1> QED BY <1>1, <1>2, <1>3, <1>6, <1>7, <1>8 DEF Settling, Moves, Refusals, Attempts

LEMMA SendingSettles ==
  ASSUME IInv, NEW s \in Senders, MarkSent(s)
  PROVE  Settling(sender[s].attempt, "in_progress")
<1> DEFINE a == sender[s].attempt
<1>1. /\ a \in Attempts
      /\ attempts[a].status = "prepared"
      /\ attempts[a].worker = s
      /\ a \notin commands \cup accepted
  BY DEF MarkSent, IInv, SendersSound, SenderSound, WithAttempt
<1>2. a = Len(attempts) /\ upload["biliup"].owner = attempts[a].worker
  BY <1>1, OpenIsLast
<1>3. attempts \in [Attempts -> Attempt] /\ upload \in [Uploaders -> Upload] /\ "biliup" \in Uploaders
  BY AttemptsShape DEF IInv, TypeOK, Uploaders, Attempts
<1>4. attempts' = [attempts EXCEPT ![a].status = "in_progress", ![a].aged = FALSE]
  BY DEF MarkSent
<1>5. attempts' \in [Attempts -> Attempt]
  BY <1>3, <1>4 DEF Attempt, AttemptStatuses
<1>6. Len(attempts') = Len(attempts) /\ DOMAIN attempts' = Attempts
  BY <1>5, SameLength DEF IInv, TypeOK
<1>7. /\ attempts'[a].status = "in_progress"
      /\ \A b \in Attempts : attempts'[b].worker = attempts[b].worker
      /\ \A b \in Attempts \ {a} : attempts'[b] = attempts[b]
  BY <1>1, <1>3, <1>4 DEF Attempt
<1>8. upload'["biliup"].status = "uploading" /\ upload'["biliup"].owner = upload["biliup"].owner
  BY <1>3 DEF MarkSent, Upload
<1>9. UNCHANGED <<journal, commands, accepted, confirmed, sync>>
  BY DEF MarkSent, world
<1> QED BY <1>1, <1>2, <1>6, <1>7, <1>8, <1>9 DEF Settling, Moves, Attempts, AttemptStatuses

-----------------------------------------------------------------------------
(* What a step does that settles nothing.                                  *)

Requeued ==
  /\ upload["biliup"].status \notin {"preparing", "uploading"} \cup PassedOn
  /\ upload'["biliup"].status \in {"queued", "skipped"}
  /\ upload'["biliup"].owner = upload["biliup"].owner

\* The attempts stay; the upload is queued again at most; each of the other
\* variables changes in one of the few ways the invariants know.
Quiet ==
  /\ SameAttempts /\ UNCHANGED confirmed
  /\ upload'["biliup"] = upload["biliup"] \/ Requeued \/ SyncWrite
  /\ UNCHANGED sync \/ SyncRead \/ SyncLoad \/ sync' = NoSync
  /\ \/ UNCHANGED <<journal, commands, accepted>>
     \/ \E s \in Senders : \/ StartCommand(s) \/ WriteReceipt(s) \/ CommitFails(s)
                           \/ \E outcome \in Outcomes : Return(s, outcome)
     \/ \E a \in Attempts : Arrive(a)

LEMMA UnchangedIsSame ==
  ASSUME UNCHANGED attempts PROVE SameAttempts
BY DEF SameAttempts

LEMMA AgedIsSame ==
  ASSUME TypeOK, NEW a \in Attempts, NEW aged \in BOOLEAN,
         attempts' = [attempts EXCEPT ![a].aged = aged]
  PROVE  SameAttempts
<1>1. attempts \in [Attempts -> Attempt]
  BY AttemptsShape DEF TypeOK, Attempts
<1>2. [attempts EXCEPT ![a].aged = aged] \in [Attempts -> Attempt]
  BY <1>1 DEF Attempt
<1>3. Len(attempts') = Len(attempts) /\ DOMAIN attempts' = Attempts
  BY <1>2, SameLength DEF TypeOK
<1>4. \A b \in Attempts : attempts'[b].status = attempts[b].status /\ attempts'[b].worker = attempts[b].worker
  BY <1>1 DEF Attempt
<1> QED BY <1>3, <1>4 DEF SameAttempts, Attempts

\* Queueing an upload again.
LEMMA QueuedIsRequeued ==
  ASSUME TypeOK, NEW u \in Uploaders, upload' \in Queued(u) \/ upload' \in Resumed(u)
  PROVE  upload'["biliup"] = upload["biliup"] \/ Requeued
<1>1. upload \in [Uploaders -> Upload] /\ "biliup" \in Uploaders
  BY DEF TypeOK, Uploaders
<1>2. CASE UNCHANGED upload
  BY <1>2
<1>3. CASE upload[u].status \in {"absent", "skipped"} /\ \E st \in {"queued", "skipped"} : upload' = [upload EXCEPT ![u].status = st]
  <2>1. CASE u = "biliup"
    BY <1>1, <1>3, <2>1 DEF Requeued, PassedOn, Upload
  <2>2. CASE u # "biliup"
    BY <1>1, <1>3, <2>2
  <2> QED BY <2>1, <2>2
<1> QED BY <1>2, <1>3 DEF Queued, Resumed

LEMMA SkipIsRequeued ==
  ASSUME TypeOK, NEW s \in Senders, SkipUpload(s)
  PROVE  Requeued
<1>1. upload["biliup"].status \in {"queued", "failed_retryable"}
  BY DEF SkipUpload, Refused, Claimable
<1>2. upload' = [upload EXCEPT !["biliup"].status = "skipped"] /\ upload["biliup"] \in Upload /\ upload \in [Uploaders -> Upload] /\ "biliup" \in Uploaders
  BY DEF SkipUpload, TypeOK, Uploaders
<1> QED BY <1>1, <1>2 DEF Requeued, PassedOn, Upload

\* Every step is one of these.
LEMMA StepKinds ==
  ASSUME IInv, [Next]_vars
  PROVE  \/ Quiet
         \/ \E a, status : Settling(a, status)
         \/ \E s \in Senders : PrepareAttempt(s)
         \/ \E id \in {Null, "typed"} : Confirm(id)
<1> USE UnchangedIsSame DEF db, proc, world, bounds
<1> DEFINE Kinds == \/ Quiet
                    \/ \E a, status : Settling(a, status)
                    \/ \E s \in Senders : PrepareAttempt(s)
                    \/ \E id \in {Null, "typed"} : Confirm(id)
<1>0. TypeOK
  BY DEF IInv
<1>a. "biliup" \in Uploaders /\ "manual" \in Uploaders /\ "biliup" # "manual"
  BY DEF Uploaders
<1>1. ASSUME NEW s \in Senders, StartTask(s) PROVE Quiet
  BY <1>0, <1>1, <1>a, QueuedIsRequeued DEF StartTask, Starts, Quiet
<1>2. ASSUME NEW s \in Senders, StartPage(s) PROVE Quiet
  BY <1>0, <1>2, <1>a, QueuedIsRequeued DEF StartPage, Starts, Quiet, Uploader
<1>3. ASSUME NEW s \in Senders, NEW u \in Uploaders, RetryPage(s, u) PROVE Quiet
  BY <1>3 DEF RetryPage, Starts, Quiet
<1>4. ASSUME NEW s \in Senders, Process(s) PROVE Quiet
  <2>1. sender[s].uploader \in Uploaders
    BY <1>0, SenderTypes DEF Sender
  <2> QED BY <1>0, <1>4, <2>1, QueuedIsRequeued DEF Process, Quiet
<1>5. ASSUME NEW s \in Senders, ExportManually(s) PROVE Quiet
  <2>1. upload'["biliup"] = upload["biliup"]
    BY <1>0, <1>5, <1>a DEF ExportManually, SetUpload, TypeOK
  <2> QED BY <1>5, <2>1 DEF ExportManually, Quiet
<1>6. ASSUME NEW s \in Senders, FindReceipt(s) \/ RefuseToPrepare(s) \/ FindAttemptClosed(s) PROVE Quiet
  BY <1>6 DEF FindReceipt, RefuseToPrepare, FindAttemptClosed, Quiet
<1>7. ASSUME NEW s \in Senders, SkipUpload(s) PROVE Quiet
  <2>1. Requeued
    BY <1>0, <1>7, SkipIsRequeued
  <2> QED BY <1>7, <2>1 DEF SkipUpload, Quiet
<1>8. ASSUME NEW s \in Senders, RefuseToSend(s) \/ MarkSent(s) PROVE Kinds
  BY <1>8, RefusalSettles, SendingSettles
<1>9. ASSUME NEW s \in Senders, StartCommand(s) PROVE Quiet
  <2>1. sender[s].attempt \in Attempts
    BY <1>9, Indices DEF StartCommand, WithAttempt
  <2>2. SameAttempts
    BY <1>0, <1>9, <2>1, AgedIsSame DEF StartCommand
  <2> QED BY <1>9, <2>2 DEF StartCommand, Quiet
<1>10. ASSUME NEW s \in Senders, LoseOwnership(s) \/ Raise(s) \/ Revoke(s) PROVE Quiet
  BY <1>10 DEF LoseOwnership, Raise, Revoke, Quiet
<1>11. ASSUME NEW s \in Senders, Renew(s) PROVE Quiet
  <2>1. sender[s].attempt \in Attempts
    BY <1>11, Indices DEF Renew, WithAttempt
  <2>2. SameAttempts
    BY <1>0, <1>11, <2>1, AgedIsSame DEF Renew
  <2> QED BY <1>11, <2>2 DEF Renew, Quiet
<1>12. ASSUME NEW s \in Senders, NEW outcome \in Outcomes, Return(s, outcome) PROVE Quiet
  BY <1>12 DEF Return, Quiet
<1>13. ASSUME NEW s \in Senders, WriteReceipt(s) PROVE Quiet
  BY <1>13 DEF WriteReceipt, Quiet
<1>14. ASSUME NEW s \in Senders, CommitResult(s) PROVE Kinds
  <2>1. CASE Ignored(sender[s].attempt, sender[s].outcome, sender[s].remote)
    BY <1>14, <2>1 DEF CommitResult, Quiet
  <2>2. CASE ~Ignored(sender[s].attempt, sender[s].outcome, sender[s].remote)
    BY <1>14, <2>2, CommitSettles
  <2> QED BY <2>1, <2>2
<1>15. ASSUME NEW s \in Senders, CommitFails(s) PROVE Quiet
  BY <1>15 DEF CommitFails, Quiet
<1>16. ASSUME NEW receipt \in journal, ReplayReceipt(receipt) PROVE Kinds
  BY <1>16, ReplaySettles
<1>17. ASSUME NEW a \in Attempts, RecoverStaleAttempt(a) PROVE Kinds
  BY <1>17, RecoverySettles
<1>18. ASSUME NEW a \in Attempts, Age(a) PROVE Quiet
  <2>1. SameAttempts
    BY <1>0, <1>18, AgedIsSame DEF Age
  <2> QED BY <1>18, <2>1 DEF Age, Quiet
<1>19. ASSUME NEW a \in Attempts, Arrive(a) PROVE Quiet
  BY <1>19 DEF Arrive, Quiet
<1>20. ASSUME SyncRead \/ SyncLoad PROVE Quiet
  BY <1>20 DEF SyncRead, SyncLoad, Quiet
<1>21. ASSUME SyncWrite PROVE Quiet
  <2>1. sync' = NoSync /\ UNCHANGED <<attempts, journal, commands, accepted, confirmed>>
    BY <1>21 DEF SyncWrite
  <2> QED BY <1>21, <2>1 DEF Quiet
<1>22. ASSUME NEW status \in {"ready", "rejected"}, Decide(status) PROVE Quiet
  BY <1>22 DEF Decide, Quiet
<1>23. ASSUME Toggle \/ Crash PROVE Quiet
  BY <1>23 DEF Toggle, Crash, Quiet
<1>24. ASSUME UNCHANGED vars PROVE Quiet
  BY <1>24 DEF vars, Quiet
<1> HIDE DEF Kinds
<1>25. ASSUME NEW s \in Senders, SenderStep(s) PROVE Kinds
  <2>1. Quiet => Kinds
    BY DEF Kinds
  <2>2. (\E t \in Senders : PrepareAttempt(t)) => Kinds
    BY DEF Kinds
  <2> QED BY <1>4, <1>5, <1>6, <1>7, <1>8, <1>9, <1>10, <1>12, <1>13, <1>14, <1>25, <2>1, <2>2 DEF SenderStep
<1>26. ASSUME Next PROVE Kinds
  <2>1. Quiet => Kinds
    BY DEF Kinds
  <2>2. (\E id \in {Null, "typed"} : Confirm(id)) => Kinds
    BY DEF Kinds
  <2>3. Recovery => Kinds
    BY <1>16, <1>17, <1>20, <1>21, <2>1 DEF Recovery
  <2> QED BY <1>1, <1>2, <1>3, <1>10, <1>11, <1>15, <1>18, <1>19, <1>22, <1>23, <1>25, <1>26, <2>1, <2>2, <2>3 DEF Next
<1>27. Kinds
  BY <1>24, <1>26 DEF Kinds
<1> QED BY <1>27 DEF Kinds

-----------------------------------------------------------------------------
(* Quiet steps keep the invariants of attempts, uploads and the tick.      *)

\* What a sender with an answer knows is true of its attempt.
LEMMA AnswerIsProven ==
  ASSUME IInv, NEW s \in Senders
  PROVE  /\ sender[s].at \in {"answered", "journal_failed"} => Proven(sender[s].attempt)
         /\ sender[s].at \in {"journal_failed", "commit"}
              /\ Target(sender[s].attempt, sender[s].outcome) = "success" => Proven(sender[s].attempt)
<1>1. sender[s].at \in {"answered", "journal_failed"} => Proven(sender[s].attempt)
  BY DEF IInv, SendersSound, SenderSound, WithAttempt
<1>2. ASSUME sender[s].at \in {"journal_failed", "commit"},
             Target(sender[s].attempt, sender[s].outcome) = "success"
      PROVE  Proven(sender[s].attempt)
  <2>1. sender[s].attempt \in Attempts /\ sender[s].outcome \in Outcomes
    BY <1>2, Indices DEF WithAttempt
  <2>2. attempts[sender[s].attempt].status = "success" \/ sender[s].outcome = "success"
    BY <1>2, <2>1 DEF Target
  <2>3. sender[s].outcome = "success" => Proven(sender[s].attempt)
    BY <1>2 DEF IInv, SendersSound, SenderSound, WithAttempt
  <2> QED BY <2>1, <2>2, <2>3 DEF Proven
<1> QED BY <1>1, <1>2

LEMMA QuietAttempts ==
  ASSUME IInv, Quiet
  PROVE  OnlyLastOpen' /\ SentStaysOpen' /\ JournalSound' /\ AttemptsGrounded' /\ Kept
<1>1. /\ Len(attempts') = Len(attempts) /\ Attempts' = Attempts /\ confirmed' = confirmed
      /\ \A a \in Attempts : attempts'[a].status = attempts[a].status
                          /\ attempts'[a].worker = attempts[a].worker
  BY DEF Quiet, SameAttempts, Attempts
<1>2. OnlyLastOpen'
  BY <1>1 DEF IInv, OnlyLastOpen
<1> DEFINE Rest == SentStaysOpen' /\ JournalSound' /\ accepted \subseteq accepted'
<1>3. ASSUME UNCHANGED <<journal, commands, accepted>> PROVE Rest
  BY <1>1, <1>3 DEF IInv, SentStaysOpen, JournalSound, Proven
<1>4. ASSUME NEW s \in Senders, StartCommand(s) PROVE Rest
  <2>1. /\ sender[s].attempt \in Attempts
        /\ attempts[sender[s].attempt].status \in Sent
        /\ sender[s].attempt \notin accepted
    BY <1>4, Indices DEF StartCommand, Renewable, Sent, IInv, SendersSound, SenderSound, WithAttempt
  <2>2. commands' = commands \cup {sender[s].attempt} /\ UNCHANGED <<journal, accepted>>
    BY <1>4 DEF StartCommand
  <2> QED BY <1>1, <2>1, <2>2 DEF IInv, SentStaysOpen, JournalSound, Proven
<1>5. ASSUME NEW s \in Senders, WriteReceipt(s) PROVE Rest
  <2>1. /\ journal' \subseteq journal \cup {Receipt(sender[s].attempt, sender[s].remote)}
        /\ UNCHANGED <<commands, accepted>>
        /\ Proven(sender[s].attempt)
    BY <1>5, AnswerIsProven DEF WriteReceipt, world
  <2>2. Receipt(sender[s].attempt, sender[s].remote).attempt = sender[s].attempt
    BY DEF Receipt
  <2> QED BY <1>1, <2>1, <2>2 DEF IInv, SentStaysOpen, JournalSound, Proven
<1>6. ASSUME NEW s \in Senders, CommitFails(s) PROVE Rest
  <2> DEFINE receipt == Receipt(sender[s].attempt, RemoteAfter(sender[s].attempt, sender[s].remote))
  <2>1. /\ UNCHANGED <<commands, accepted>>
        /\ journal' = journal \/ (journal' = journal \cup {receipt} /\ Proven(sender[s].attempt))
    BY <1>6, AnswerIsProven DEF CommitFails, world
  <2>2. receipt.attempt = sender[s].attempt
    BY DEF Receipt
  <2> HIDE DEF receipt
  <2> QED BY <1>1, <2>1, <2>2 DEF IInv, SentStaysOpen, JournalSound, Proven
<1>7. ASSUME NEW s \in Senders, NEW outcome \in Outcomes, Return(s, outcome) PROVE Rest
  <2>1. commands' \subseteq commands /\ UNCHANGED <<journal, accepted>>
    BY <1>7 DEF Return
  <2> QED BY <1>1, <2>1 DEF IInv, SentStaysOpen, JournalSound, Proven
<1>8. ASSUME NEW a \in Attempts, Arrive(a) PROVE Rest
  <2>1. a \in commands /\ commands' = commands \ {a} /\ accepted' = accepted \cup {a} /\ UNCHANGED journal
    BY <1>8 DEF Arrive
  <2> QED BY <1>1, <2>1 DEF IInv, SentStaysOpen, JournalSound, Proven
<1>9. Rest
  BY <1>3, <1>4, <1>5, <1>6, <1>7, <1>8 DEF Quiet
<1>10. AttemptsGrounded'
  BY <1>1, <1>9 DEF IInv, AttemptsGrounded
<1>11. Kept
  BY <1>1, <1>9 DEF Kept
<1> QED BY <1>2, <1>9, <1>10, <1>11

LEMMA QuietUpload ==
  ASSUME IInv, TypeOK', Quiet, accepted \subseteq accepted'
  PROVE  ClaimMatchesAttempt' /\ UploadFollows' /\ SuccessIsGrounded'
<1>1. /\ attempts \in Seq(Attempt) /\ attempts' \in Seq(Attempt)
      /\ Len(attempts') = Len(attempts)
      /\ attempts' = <<>> <=> attempts = <<>>
      /\ confirmed' = confirmed
  BY AttemptsShape DEF IInv, TypeOK, Quiet, SameAttempts
<1>2. attempts # <<>> =>
        /\ Len(attempts) \in Attempts
        /\ attempts'[Len(attempts)].status = attempts[Len(attempts)].status
        /\ attempts'[Len(attempts)].worker = attempts[Len(attempts)].worker
  BY <1>1, AttemptsShape DEF Quiet, SameAttempts, Attempts
<1>3. ClaimMatchesAttempt /\ UploadFollows /\ SuccessIsGrounded
  BY DEF IInv
<1>4. CASE upload'["biliup"] = upload["biliup"]
  BY <1>1, <1>3, <1>4, UploadFrame DEF Quiet
<1>5. CASE Requeued
  <2>1. upload["biliup"].owner = Null
    BY <1>3, <1>5 DEF Requeued, ClaimMatchesAttempt
  <2>2. attempts # <<>> => attempts[Len(attempts)].status \notin {"prepared", "in_progress"} \cup PassedOn
    BY <1>3, <1>5 DEF Requeued, ClaimMatchesAttempt, UploadFollows
  <2>3. ClaimMatchesAttempt'
    BY <1>1, <1>2, <1>5, <2>1, <2>2 DEF Requeued, ClaimMatchesAttempt
  <2>4. UploadFollows'
    BY <1>1, <1>2, <2>2 DEF UploadFollows
  <2>5. SuccessIsGrounded'
    BY <1>5 DEF Requeued, SuccessIsGrounded
  <2> QED BY <2>3, <2>4, <2>5
<1>6. CASE SyncWrite
  <2> DEFINE row == upload["biliup"]
             written == [c \in DOMAIN row |-> IF sync.after[c] # sync.before[c] THEN sync.after[c] ELSE row[c]]
  <2>1. /\ attempts # <<>> /\ attempts[Len(attempts)].status \in PassedOn
        /\ sync.status \in PassedOn
        /\ sync.status = "success" => attempts[Len(attempts)].status = "success"
        /\ sync.after.status = sync.status /\ sync.after.owner = Null
    BY <1>6 DEF SyncWrite, IInv, SyncSound
  <2>2. row.status \in PassedOn /\ row.owner = Null
    BY <1>3, <2>1 DEF UploadFollows, ClaimMatchesAttempt, PassedOn
  <2>3. row \in Upload /\ sync.before \in Upload /\ sync.after \in Upload /\ upload \in [Uploaders -> Upload] /\ "biliup" \in Uploaders
    BY DEF IInv, TypeOK, Uploaders, Sync
  <2>4. upload'["biliup"] = written
    BY <1>6, <2>3 DEF SyncWrite
  <2>5. written.status \in {sync.after.status, row.status} /\ written.owner \in {sync.after.owner, row.owner}
    BY <2>3, SyncWritten
  <2> HIDE DEF written, row
  <2>6. upload'["biliup"].status \in PassedOn /\ upload'["biliup"].owner = Null
    BY <2>1, <2>2, <2>4, <2>5
  <2>7. ClaimMatchesAttempt'
    BY <1>1, <1>2, <2>1, <2>6 DEF ClaimMatchesAttempt, PassedOn
  <2>8. UploadFollows'
    BY <2>6 DEF UploadFollows
  <2>9. upload'["biliup"].status = "success" => accepted # {} \/ confirmed
    <3>1. attempts[Len(attempts)].status = "success" => accepted # {} \/ confirmed
      BY <1>2, <2>1 DEF IInv, AttemptsGrounded
    <3>2. row.status = "success" => accepted # {} \/ confirmed
      BY <1>3 DEF SuccessIsGrounded, row
    <3> QED BY <2>1, <2>4, <2>5, <3>1, <3>2
  <2> QED BY <1>1, <2>7, <2>8, <2>9 DEF SuccessIsGrounded
<1> QED BY <1>4, <1>5, <1>6 DEF Quiet

LEMMA QuietSync ==
  ASSUME IInv, TypeOK', Quiet
  PROVE  SyncSound'
<1>1. attempts \in Seq(Attempt) /\ attempts' \in Seq(Attempt) /\ SyncSound /\ SameAttempts /\ sync \in Sync
  BY DEF IInv, TypeOK, Quiet
<1>2. CASE UNCHANGED sync
  BY <1>1, <1>2, SyncFrame
<1>3. CASE sync' = NoSync
  BY <1>3 DEF SyncSound, NoSync
<1>4. CASE SyncRead
  <2>1. attempts # <<>> /\ Evidence = Len(attempts) /\ UNCHANGED attempts
    BY <1>4, Indices DEF SyncRead, db
  <2>2. /\ sync'.at = "read" /\ sync'.attempt = Len(attempts)
        /\ sync'.status = attempts[Len(attempts)].status
        /\ attempts[Len(attempts)].status \in PassedOn
    BY <1>1, <1>4, <2>1 DEF SyncRead, Sync
  <2> QED BY <2>1, <2>2 DEF SyncSound
<1>5. CASE SyncLoad
  <2>1. sync.at = "read" /\ UNCHANGED attempts
    BY <1>5 DEF SyncLoad, db
  <2>2. SyncedUpload(upload["biliup"]) = [status |-> sync.status, owner |-> Null, remote |-> sync.remote]
    BY <1>1, <2>1 DEF SyncedUpload, SyncSound, Current
  <2>3. \/ sync' = NoSync
        \/ /\ sync'.attempt = sync.attempt /\ sync'.status = sync.status /\ sync'.remote = sync.remote
           /\ sync'.after = SyncedUpload(upload["biliup"])
    BY <1>1, <1>5 DEF SyncLoad, Sync
  <2> QED BY <1>1, <1>3, <2>1, <2>2, <2>3 DEF SyncSound
<1> QED BY <1>2, <1>3, <1>4, <1>5 DEF Quiet

-----------------------------------------------------------------------------
(* So do a new attempt and a confirmation.                                 *)

\* An upload is claimed only when no attempt of it can have arrived.
LEMMA ClaimableMeansOver ==
  ASSUME IInv, Claimable("biliup")
  PROVE  /\ \A a \in Attempts : attempts[a].status = "failed_retryable"
         /\ sync.at = "idle"
<1>1. upload["biliup"].status \in {"queued", "failed_retryable"}
  BY DEF Claimable
<1>2. attempts # <<>> => attempts[Len(attempts)].status \notin {"prepared", "in_progress"} \cup PassedOn
  BY <1>1 DEF IInv, ClaimMatchesAttempt, UploadFollows, PassedOn
<1>3. \A a \in Attempts : attempts[a].status \in AttemptStatuses
  BY AttemptsShape DEF IInv, TypeOK, Attempt, Attempts
<1>4. ASSUME NEW a \in Attempts PROVE attempts[a].status = "failed_retryable"
  <2>1. CASE a = Len(attempts)
    BY <1>2, <1>3, <2>1, AttemptsShape DEF IInv, TypeOK, AttemptStatuses, PassedOn, Attempts
  <2>2. CASE a # Len(attempts)
    BY <2>2 DEF IInv, OnlyLastOpen
  <2> QED BY <2>1, <2>2
<1>5. sync.at = "idle"
  BY <1>2 DEF IInv, SyncSound
<1> QED BY <1>4, <1>5

LEMMA PrepareKeeps ==
  ASSUME IInv, TypeOK', NEW s \in Senders, PrepareAttempt(s)
  PROVE  /\ OnlyLastOpen' /\ SentStaysOpen' /\ JournalSound' /\ AttemptsGrounded'
         /\ ClaimMatchesAttempt' /\ UploadFollows' /\ SuccessIsGrounded'
         /\ SyncSound'
         /\ Kept
<1> DEFINE new == [status |-> "prepared", worker |-> s, remote |-> Null, aged |-> FALSE]
           n == Len(attempts)
<1>1. new \in Attempt /\ new.status = "prepared" /\ new.worker = s
  BY DEF Attempt, AttemptStatuses
<1>2. attempts \in Seq(Attempt) /\ attempts' = Append(attempts, new) /\ n \in Nat /\ Attempts = 1 .. n
  BY AttemptsShape DEF IInv, TypeOK, PrepareAttempt, Attempts
<1> HIDE DEF new
<1>3. /\ Len(attempts') = n + 1 /\ attempts' # <<>>
      /\ \A a \in 1 .. n : attempts'[a] = attempts[a]
      /\ attempts'[n + 1] = new
  BY <1>1, <1>2, AppendProperties
<1>4. Attempts' = 1 .. (n + 1)
  BY <1>3, AttemptsShape DEF TypeOK, Attempts
<1>5. /\ \A a \in Attempts : attempts[a].status = "failed_retryable"
      /\ sync.at = "idle"
  BY ClaimableMeansOver DEF PrepareAttempt, Refused
<1>6. UNCHANGED <<journal, commands, accepted, confirmed, sync>>
  BY DEF PrepareAttempt, world
<1>7. upload'["biliup"].status = "preparing" /\ upload'["biliup"].owner = s
  <2>1. upload \in [Uploaders -> Upload] /\ "biliup" \in Uploaders
    BY DEF IInv, TypeOK, Uploaders
  <2>2. upload' = [upload EXCEPT !["biliup"] = [upload["biliup"] EXCEPT !.status = "preparing", !.owner = s]]
    BY DEF PrepareAttempt
  <2>3. upload["biliup"] \in Upload
    BY <2>1
  <2>4. upload'["biliup"] = [upload["biliup"] EXCEPT !.status = "preparing", !.owner = s]
    BY <2>1, <2>2
  <2> QED BY <2>3, <2>4 DEF Upload
<1>8. OnlyLastOpen'
  BY <1>2, <1>3, <1>4, <1>5 DEF OnlyLastOpen
<1>9. SentStaysOpen'
  BY <1>2, <1>3, <1>4, <1>6 DEF SentStaysOpen, IInv
<1>10. JournalSound'
  BY <1>2, <1>3, <1>4, <1>6 DEF JournalSound, Proven, IInv
<1>11. AttemptsGrounded'
  BY <1>1, <1>2, <1>3, <1>4, <1>6 DEF AttemptsGrounded, IInv
<1>12. ClaimMatchesAttempt'
  BY <1>1, <1>3, <1>7 DEF ClaimMatchesAttempt
<1>13. UploadFollows'
  BY <1>1, <1>3 DEF UploadFollows, PassedOn
<1>14. SuccessIsGrounded'
  BY <1>7 DEF SuccessIsGrounded
<1>15. SyncSound'
  BY <1>5, <1>6 DEF SyncSound
<1>16. Kept
  BY <1>2, <1>3, <1>4, <1>6 DEF Kept
<1> QED BY <1>8, <1>9, <1>10, <1>11, <1>12, <1>13, <1>14, <1>15, <1>16

\* A confirmation settles the attempts that have to be looked into.
LEMMA ConfirmAttempts ==
  ASSUME IInv, TypeOK', NEW id \in {Null, "typed"}, Confirm(id)
  PROVE  /\ Attempts' = Attempts
         /\ Len(attempts') = Len(attempts) /\ (attempts' = <<>> <=> attempts = <<>>)
         /\ \A a \in Attempts :
              /\ attempts'[a].status = IF attempts[a].status = "reconciliation_required"
                                       THEN "success" ELSE attempts[a].status
              /\ attempts'[a].worker = attempts[a].worker
<1>1. attempts \in Seq(Attempt) /\ attempts' \in Seq(Attempt) /\ attempts \in [Attempts -> Attempt]
  BY AttemptsShape DEF IInv, TypeOK, Attempts
<1>2. /\ Attempts' = Attempts
      /\ \A a \in Attempts :
           /\ attempts'[a].status = IF attempts[a].status = "reconciliation_required"
                                    THEN "success" ELSE attempts[a].status
           /\ attempts'[a].worker = attempts[a].worker
  BY <1>1 DEF Confirm, Attempt, Attempts
<1>3. attempts' \in [Attempts -> Attempt]
  BY <1>1, <1>2, AttemptsShape DEF Attempts
<1>4. Len(attempts') = Len(attempts)
  BY <1>3, SameLength DEF IInv, TypeOK
<1> QED BY <1>1, <1>2, <1>4, AttemptsShape

LEMMA ConfirmKeeps ==
  ASSUME IInv, TypeOK', NEW id \in {Null, "typed"}, Confirm(id)
  PROVE  /\ OnlyLastOpen' /\ SentStaysOpen' /\ JournalSound' /\ AttemptsGrounded'
         /\ ClaimMatchesAttempt' /\ UploadFollows' /\ SuccessIsGrounded'
         /\ SyncSound'
         /\ Kept
<1> DEFINE Settled(status) == IF status = "reconciliation_required" THEN "success" ELSE status
<1>1. /\ confirmed' = TRUE
      /\ UNCHANGED <<journal, sync, commands, accepted>>
  BY Zenon DEF Confirm, proc
<1>2. attempts \in Seq(Attempt)
  BY DEF IInv, TypeOK
<1>3. /\ Attempts' = Attempts
      /\ \A a \in Attempts : /\ attempts'[a].status = Settled(attempts[a].status)
                             /\ attempts'[a].worker = attempts[a].worker
  BY ConfirmAttempts
<1>4. Len(attempts') = Len(attempts) /\ (attempts' = <<>> <=> attempts = <<>>)
  BY ConfirmAttempts
<1>5. /\ upload'["biliup"].status = Settled(upload["biliup"].status)
      /\ upload'["biliup"].owner = IF upload["biliup"].status = "reconciliation_required"
                                   THEN Null ELSE upload["biliup"].owner
  <2>1. "biliup" \in Uploaders
    BY DEF Uploaders
  <2> QED BY <2>1 DEF Confirm
<1>6. attempts # <<>> => Len(attempts) \in Attempts
  BY <1>2, AttemptsShape DEF Attempts
<1>7. OnlyLastOpen'
  BY <1>3, <1>4 DEF OnlyLastOpen, IInv
<1>8. SentStaysOpen'
  BY <1>1, <1>3 DEF SentStaysOpen, IInv, Sent
<1>9. JournalSound'
  BY <1>1, <1>3 DEF JournalSound, Proven, IInv
<1>10. AttemptsGrounded' /\ SuccessIsGrounded'
  BY <1>1 DEF AttemptsGrounded, SuccessIsGrounded
<1>11. ClaimMatchesAttempt'
  <2>1. ClaimMatchesAttempt
    BY DEF IInv
  <2> QED BY <1>3, <1>4, <1>5, <1>6, <2>1 DEF ClaimMatchesAttempt
<1>12. UploadFollows'
  BY <1>3, <1>4, <1>5, <1>6 DEF UploadFollows, IInv, PassedOn
<1>13. SyncSound'
  BY <1>1, <1>3, <1>4, <1>6 DEF SyncSound, IInv, PassedOn
<1>14. Kept
  BY <1>1, <1>3 DEF Kept
<1> QED BY <1>7, <1>8, <1>9, <1>10, <1>11, <1>12, <1>13, <1>14

-----------------------------------------------------------------------------
(* All steps together: everything but what senders know.                   *)

LEMMA StepKeeps ==
  ASSUME IInv, [Next]_vars
  PROVE  /\ OnlyLastOpen' /\ SentStaysOpen' /\ JournalSound' /\ AttemptsGrounded'
         /\ ClaimMatchesAttempt' /\ UploadFollows' /\ SuccessIsGrounded'
         /\ SyncSound'
         /\ Kept
<1>1. TypeOK'
  BY TypeStep
<1>2. CASE Quiet
  <2>1. OnlyLastOpen' /\ SentStaysOpen' /\ JournalSound' /\ AttemptsGrounded' /\ Kept
    BY <1>2, QuietAttempts
  <2>2. ClaimMatchesAttempt' /\ UploadFollows' /\ SuccessIsGrounded'
    BY <1>1, <1>2, <2>1, QuietUpload DEF Kept
  <2>3. SyncSound'
    BY <1>1, <1>2, QuietSync
  <2> QED BY <2>1, <2>2, <2>3
<1>3. ASSUME NEW a, NEW status, Settling(a, status)
      PROVE  /\ OnlyLastOpen' /\ SentStaysOpen' /\ JournalSound' /\ AttemptsGrounded'
             /\ ClaimMatchesAttempt' /\ UploadFollows' /\ SuccessIsGrounded'
             /\ SyncSound'
             /\ Kept
  BY <1>1, <1>3, SettlingKeeps
<1>4. ASSUME NEW s \in Senders, PrepareAttempt(s)
      PROVE  /\ OnlyLastOpen' /\ SentStaysOpen' /\ JournalSound' /\ AttemptsGrounded'
             /\ ClaimMatchesAttempt' /\ UploadFollows' /\ SuccessIsGrounded'
             /\ SyncSound'
             /\ Kept
  BY <1>1, <1>4, PrepareKeeps
<1>5. ASSUME NEW id \in {Null, "typed"}, Confirm(id)
      PROVE  /\ OnlyLastOpen' /\ SentStaysOpen' /\ JournalSound' /\ AttemptsGrounded'
             /\ ClaimMatchesAttempt' /\ UploadFollows' /\ SuccessIsGrounded'
             /\ SyncSound'
             /\ Kept
  BY <1>1, <1>5, ConfirmKeeps
<1> QED BY <1>2, <1>3, <1>4, <1>5, StepKinds

\* A success that is recorded stays recorded.
LEMMA RecordedKept ==
  ASSUME IInv, [Next]_vars, NEW a \in Attempts, Recorded(a)
  PROVE  Recorded(a)'
<1>1. Kept
  BY StepKeeps
<1>2. CASE Quiet
  <2>1. ASSUME NEW s \in Senders, StartCommand(s) \/ WriteReceipt(s) \/ CommitFails(s)
        PROVE  journal \subseteq journal'
    BY <2>1 DEF StartCommand, WriteReceipt, CommitFails
  <2>2. ASSUME NEW s \in Senders, NEW outcome \in Outcomes, Return(s, outcome)
        PROVE  journal \subseteq journal'
    BY <2>2 DEF Return
  <2>3. ASSUME NEW b \in Attempts, Arrive(b)
        PROVE  journal \subseteq journal'
    BY <2>3 DEF Arrive
  <2>4. journal \subseteq journal'
    BY <1>2, <2>1, <2>2, <2>3 DEF Quiet
  <2> QED BY <1>1, <2>4, ReceiptFrame
<1>3. ASSUME NEW b, NEW status, Settling(b, status) PROVE Recorded(a)'
  <2>1. CASE journal \subseteq journal'
    BY <1>1, <2>1, ReceiptFrame
  <2>2. CASE ~(journal \subseteq journal')
    <3>1. status = "success" /\ attempts'[b].status = "success"
      BY <1>3, <2>2 DEF Settling
    <3>2. CASE a = b
      BY <3>1, <3>2 DEF Recorded
    <3>3. CASE a # b
      BY <1>3, <3>3 DEF Settling, Recorded
    <3> QED BY <3>2, <3>3
  <2> QED BY <2>1, <2>2
<1>4. ASSUME NEW s \in Senders, PrepareAttempt(s) PROVE Recorded(a)'
  <2>1. UNCHANGED journal
    BY <1>4 DEF PrepareAttempt
  <2> QED BY <1>1, <2>1, ReceiptFrame
<1>5. ASSUME NEW id \in {Null, "typed"}, Confirm(id) PROVE Recorded(a)'
  <2>1. UNCHANGED journal
    BY <1>5, Zenon DEF Confirm
  <2> QED BY <1>1, <2>1, ReceiptFrame
<1> QED BY <1>2, <1>3, <1>4, <1>5, StepKinds

-----------------------------------------------------------------------------
(* What senders know.                                                      *)

\* A sender's knowledge is sound, and a success it commits is recorded.
SenderFine(s) ==
  /\ SenderSound(s)
  /\ sender[s].at = "commit" /\ sender[s].outcome = "success" => Recorded(sender[s].attempt)

LEMMA SendersAreFine ==
  SendersSound /\ ReceiptBeforeCommit <=> \A s \in Senders : SenderFine(s)
BY DEF SendersSound, ReceiptBeforeCommit, SenderFine

\* The senders a step does not move.
LEMMA FineKept ==
  ASSUME IInv, [Next]_vars, NEW s \in Senders, sender'[s] = sender[s],
         sender[s].attempt \in Attempts /\ attempts[sender[s].attempt].worker = s
           /\ sender[s].attempt \notin commands \cup accepted
           => sender[s].attempt \notin commands' \cup accepted'
  PROVE  SenderFine(s)'
<1>1. SenderFine(s)
  BY SendersAreFine DEF IInv
<1>2. Kept
  BY StepKeeps
<1>3. SenderSound(s)'
  BY <1>1, <1>2, SenderKept DEF SenderFine
<1>4. ASSUME sender'[s].at = "commit", sender'[s].outcome = "success"
      PROVE  Recorded(sender[s].attempt)'
  <2>1. sender[s].attempt \in Attempts /\ Recorded(sender[s].attempt)
    BY <1>1, <1>4, Indices DEF SenderFine, WithAttempt
  <2>2. ASSUME NEW a \in Attempts, Recorded(a) PROVE Recorded(a)'
    BY <2>2, RecordedKept
  <2> QED BY <2>1, <2>2
<1> QED BY <1>3, <1>4 DEF SenderFine

\* The sender that moves: back to where it holds no attempt,
LEMMA FineWithout ==
  ASSUME NEW s \in Senders, sender'[s].at \notin WithAttempt
  PROVE  SenderFine(s)'
BY DEF SenderFine, SenderSound, WithAttempt

LEMMA MovesWithout ==
  ASSUME TypeOK, NEW s \in Senders,
         \/ StartTask(s) \/ StartPage(s) \/ (\E u \in Uploaders : RetryPage(s, u))
         \/ Process(s) \/ ExportManually(s) \/ RefuseToPrepare(s) \/ SkipUpload(s)
         \/ FindAttemptClosed(s) \/ RefuseToSend(s) \/ Raise(s)
  PROVE  sender'[s].at \notin WithAttempt
<1>1. sender \in [Senders -> Sender] /\ NoRun.at = "idle"
  BY DEF TypeOK, NoRun
<1>2. Stops(s) => sender'[s].at \notin WithAttempt
  BY <1>1 DEF Stops, WithAttempt
<1>3. GoesTo(s, "prepare") => sender'[s].at \notin WithAttempt
  BY <1>1 DEF GoesTo, WithAttempt, Sender
<1>4. ASSUME NEW place \in {"prepare", "process"}, NEW u, Starts(s, place, u)
      PROVE  sender'[s].at \notin WithAttempt
  <2>1. sender'[s] = [NoRun EXCEPT !.at = place, !.uploader = u, !.permitted = TRUE, !.tries = 1]
    BY <1>1, <1>4 DEF Starts
  <2> QED BY <2>1 DEF NoRun, WithAttempt
<1> QED BY <1>2, <1>3, <1>4
        DEF StartTask, StartPage, RetryPage, Process, ExportManually, RefuseToPrepare, SkipUpload,
            FindAttemptClosed, RefuseToSend, Raise

\* to an attempt,
LEMMA FineFindReceipt ==
  ASSUME IInv, NEW s \in Senders, FindReceipt(s)
  PROVE  SenderFine(s)'
<1>1. PICK a \in Receipts :
        sender' = [sender EXCEPT ![s] = [@ EXCEPT
          !.at = "commit", !.attempt = a, !.outcome = "success", !.remote = attempts[a].remote]]
  BY DEF FindReceipt
<1>2. sender \in [Senders -> Sender] /\ sender[s] \in Sender
  BY DEF IInv, TypeOK
<1>3. sender'[s].at = "commit" /\ sender'[s].attempt = a /\ sender'[s].outcome = "success"
  BY <1>1, <1>2 DEF Sender
<1>4. a \in Attempts /\ attempts[a].status = "success" /\ UNCHANGED attempts
  BY DEF Receipts, FindReceipt, db
<1>5. a \in Attempts' /\ attempts'[a].status = "success"
  BY <1>4 DEF Attempts
<1> QED BY <1>3, <1>5 DEF SenderFine, SenderSound, Proven, Recorded, Outcomes, Refusals

LEMMA FinePrepareAttempt ==
  ASSUME IInv, NEW s \in Senders, PrepareAttempt(s)
  PROVE  SenderFine(s)'
<1> DEFINE new == [status |-> "prepared", worker |-> s, remote |-> Null, aged |-> FALSE]
           n == Len(attempts)
<1>1. new \in Attempt /\ new.worker = s
  BY DEF Attempt, AttemptStatuses
<1>2. attempts \in Seq(Attempt) /\ attempts' = Append(attempts, new) /\ n \in Nat /\ Attempts = 1 .. n
  BY AttemptsShape DEF IInv, TypeOK, PrepareAttempt, Attempts
<1> HIDE DEF new
<1>3. attempts' \in Seq(Attempt) /\ Len(attempts') = n + 1 /\ attempts'[n + 1] = new
  BY <1>1, <1>2, AppendProperties
<1>4. n + 1 \in Attempts'
  BY <1>2, <1>3, AttemptsShape DEF Attempts
<1>5. sender'[s].at = "execute" /\ sender'[s].attempt = n + 1
  <2>1. sender \in [Senders -> Sender] /\ sender[s] \in Sender
    BY DEF IInv, TypeOK
  <2>2. sender' = [sender EXCEPT ![s] = [sender[s] EXCEPT !.at = "execute", !.attempt = n + 1]]
    BY DEF PrepareAttempt
  <2>3. sender'[s] = [sender[s] EXCEPT !.at = "execute", !.attempt = n + 1]
    BY <2>1, <2>2
  <2> QED BY <2>1, <2>3 DEF Sender
<1>6. n + 1 \notin commands' \cup accepted'
  <2>1. n + 1 \notin Attempts
    BY <1>2
  <2> QED BY <2>1 DEF PrepareAttempt, world, IInv, SentStaysOpen
<1> QED BY <1>1, <1>3, <1>4, <1>5, <1>6 DEF SenderFine, SenderSound

\* and on from one step with its attempt to the next.
LEMMA FineMoves ==
  ASSUME IInv, [Next]_vars, NEW s \in Senders, sender[s].at \in WithAttempt,
         sender'[s].at = "commit" => attempts[sender[s].attempt].worker = s \/ attempts[sender[s].attempt].status = "success",
         sender'[s].at \in WithAttempt \ {"commit"} => attempts[sender[s].attempt].worker = s,
         sender'[s].attempt = sender[s].attempt,
         sender'[s].at = "sending" => sender[s].attempt \notin commands' \cup accepted',
         sender'[s].at # "execute",
         sender'[s].at \in {"answered", "journal_failed"} => sender'[s].outcome = "success",
         sender'[s].at = "commit" => sender'[s].outcome \in Outcomes,
         sender'[s].at \in {"answered", "journal_failed", "commit"} =>
           /\ sender'[s].outcome = "success" => Proven(sender[s].attempt)
           /\ sender'[s].outcome \in Refusals => sender[s].attempt \notin commands' \cup accepted',
         sender'[s].at = "commit" /\ sender'[s].outcome = "success" => Recorded(sender[s].attempt)',
         sender'[s].at = "commit" /\ attempts[sender[s].attempt].worker # s => sender'[s].outcome = "success"
  PROVE  SenderFine(s)'
<1> DEFINE a == sender[s].attempt
<1>1. Kept
  BY StepKeeps
<1>2. a \in Attempts
  BY Indices
<1>3. /\ a \in Attempts' /\ attempts'[a].worker = attempts[a].worker
      /\ attempts[a].status = "success" => attempts'[a].status = "success"
      /\ Proven(a) => Proven(a)'
  BY <1>1, <1>2 DEF Kept, Proven
<1> QED BY <1>3 DEF SenderFine, SenderSound, WithAttempt

\* What a sender with an attempt knows, in the form the next lemmas use it.
LEMMA KnowsItsAttempt ==
  ASSUME IInv, NEW s \in Senders, sender[s].at \in WithAttempt
  PROVE  LET a == sender[s].attempt IN
         /\ a \in Attempts
         /\ sender[s].at # "commit" => attempts[a].worker = s
         /\ sender[s].at \in {"execute", "sending"} => a \notin commands \cup accepted
         /\ sender[s].at \in {"answered", "journal_failed"} => sender[s].outcome = "success" /\ Proven(a)
         /\ sender[s] \in Sender /\ sender \in [Senders -> Sender]
<1>1. sender[s] \in Sender /\ sender \in [Senders -> Sender]
  BY DEF IInv, TypeOK
<1>2. SenderSound(s)
  BY DEF IInv, SendersSound
<1> QED BY <1>1, <1>2 DEF SenderSound

LEMMA FineSending ==
  ASSUME IInv, [Next]_vars, NEW s \in Senders, MarkSent(s) \/ StartCommand(s) \/ LoseOwnership(s)
  PROVE  SenderFine(s)'
<1> USE DEF world
<1>1. sender[s].at \in {"execute", "sending"} /\ sender[s].at \in WithAttempt
  BY DEF MarkSent, StartCommand, LoseOwnership, WithAttempt
<1>2. /\ attempts[sender[s].attempt].worker = s
      /\ sender[s].attempt \notin commands \cup accepted
      /\ sender[s] \in Sender /\ sender \in [Senders -> Sender]
  BY <1>1, KnowsItsAttempt
<1>3. CASE MarkSent(s)
  <2>1. sender'[s].at = "sending" /\ sender'[s].attempt = sender[s].attempt
    BY <1>2, <1>3 DEF MarkSent, GoesTo, Sender
  <2>2. UNCHANGED <<commands, accepted>>
    BY <1>3 DEF MarkSent
  <2> QED BY <1>1, <1>2, <2>1, <2>2, FineMoves
<1>4. CASE StartCommand(s)
  <2>1. sender'[s].at = "uploading" /\ sender'[s].attempt = sender[s].attempt
    BY <1>2, <1>4 DEF StartCommand, GoesTo, Sender
  <2> QED BY <1>1, <1>2, <2>1, FineMoves
<1>5. CASE LoseOwnership(s)
  <2>1. /\ sender'[s].at = "commit" /\ sender'[s].attempt = sender[s].attempt
        /\ sender'[s].outcome = "failed_permanent"
    BY <1>2, <1>5 DEF LoseOwnership, Sender
  <2>2. UNCHANGED <<commands, accepted>>
    BY <1>5 DEF LoseOwnership
  <2>3. "failed_permanent" \in Outcomes
    BY DEF Outcomes
  <2> QED BY <1>1, <1>2, <2>1, <2>2, <2>3, FineMoves
<1> QED BY <1>3, <1>4, <1>5

LEMMA FineReturn ==
  ASSUME IInv, [Next]_vars, NEW s \in Senders, NEW outcome \in Outcomes, Return(s, outcome)
  PROVE  SenderFine(s)'
<1> DEFINE a == sender[s].attempt
<1>1. sender[s].at = "uploading" /\ sender[s].at \in WithAttempt
  BY DEF Return, WithAttempt
<1>2. attempts[a].worker = s /\ a \in Attempts /\ sender[s] \in Sender /\ sender \in [Senders -> Sender]
  BY <1>1, KnowsItsAttempt
<1>3. /\ sender'[s].at = IF outcome = "success" THEN "answered" ELSE "commit"
      /\ sender'[s].outcome = outcome /\ sender'[s].attempt = a
  BY <1>2 DEF Return, Sender
<1>4. outcome = "success" => a \in accepted
  BY DEF Return
<1>5. outcome \in Refusals => a \notin accepted /\ commands' = commands \ {a} /\ accepted' = accepted
  BY DEF Return, Refusals
<1> QED BY <1>1, <1>2, <1>3, <1>4, <1>5, FineMoves DEF Proven, Refusals

\* A written receipt records its attempt.
LEMMA ReceiptRecords ==
  ASSUME NEW a, NEW remote, Receipt(a, remote) \in journal'
  PROVE  Recorded(a)'
<1>1. Receipt(a, remote).attempt = a
  BY DEF Receipt
<1>2. \E receipt \in journal' : receipt.attempt = a
  BY <1>1
<1> QED BY <1>2 DEF Recorded

LEMMA FineReceipt ==
  ASSUME IInv, [Next]_vars, NEW s \in Senders, WriteReceipt(s)
  PROVE  SenderFine(s)'
<1> DEFINE a == sender[s].attempt
<1>1. sender[s].at = "answered" /\ sender[s].at \in WithAttempt
  BY DEF WriteReceipt, WithAttempt
<1>2. /\ attempts[a].worker = s /\ a \in Attempts /\ Proven(a) /\ sender[s].outcome = "success"
      /\ sender[s] \in Sender /\ sender \in [Senders -> Sender]
  BY <1>1, KnowsItsAttempt
<1>3. ASSUME NEW place, GoesTo(s, place)
      PROVE  sender'[s].at = place /\ sender'[s].attempt = a /\ sender'[s].outcome = "success"
  BY <1>2, <1>3 DEF GoesTo, Sender
<1>4. \/ /\ sender'[s].at = "commit"
         /\ journal' = journal \cup {Receipt(a, sender[s].remote)}
      \/ sender'[s].at = "journal_failed"
  BY <1>3 DEF WriteReceipt
<1>5. sender'[s].attempt = a /\ sender'[s].outcome = "success"
  BY <1>3 DEF WriteReceipt
<1>6. sender'[s].at = "commit" => Recorded(a)'
  <2>1. PICK b, remote : b = a /\ remote = sender[s].remote
    OBVIOUS
  <2>2. sender'[s].at = "commit" => Receipt(b, remote) \in journal'
    BY <1>4, <2>1
  <2>3. sender'[s].at = "commit" => Recorded(b)'
    BY <2>2, ReceiptRecords
  <2> QED BY <1>5, <2>1, <2>3
<1>7. "success" \in Outcomes /\ "success" \notin Refusals
  BY DEF Outcomes, Refusals
<1> QED BY <1>1, <1>2, <1>4, <1>5, <1>6, <1>7, FineMoves

\* A commit that follows a journal that could not be written is done again.
LEMMA FineAfterCommit ==
  ASSUME IInv, [Next]_vars, NEW s \in Senders, AfterCommit(s), sender[s].at \in {"journal_failed", "commit"},
         NEW a, a = sender[s].attempt,
         sender[s].at = "journal_failed" => Recorded(a)'
  PROVE  SenderFine(s)'
<1>1. sender[s].at \in WithAttempt
  BY DEF WithAttempt
<1>2. sender[s] \in Sender /\ sender \in [Senders -> Sender]
  BY <1>1, KnowsItsAttempt
<1>3. CASE sender[s].at = "journal_failed"
  <2>1. attempts[a].worker = s /\ Proven(a) /\ sender[s].outcome = "success"
    BY <1>1, <1>3, KnowsItsAttempt
  <2>2. sender'[s].at = "commit" /\ sender'[s].attempt = a /\ sender'[s].outcome = "success"
    BY <1>2, <1>3, <2>1 DEF AfterCommit, GoesTo, Sender
  <2>3. "success" \in Outcomes /\ "success" \notin Refusals
    BY DEF Outcomes, Refusals
  <2> QED BY <1>1, <1>3, <2>1, <2>2, <2>3, FineMoves
<1>4. CASE sender[s].at = "commit"
  <2> DEFINE next == [sender[s] EXCEPT !.at = "prepare", !.tries = sender[s].tries + 1,
                                       !.attempt = 0, !.outcome = Null]
  <2>1. next.at = "prepare" /\ NoRun.at = "idle"
    BY <1>2 DEF NoRun, Sender
  <2>2. sender' = [sender EXCEPT ![s] =
          IF s \in PageSenders /\ sender[s].outcome = "failed_retryable" /\ sender[s].tries < MaxTries
          THEN next ELSE NoRun]
    BY <1>4 DEF AfterCommit, Continues
  <2> HIDE DEF next
  <2>3. sender'[s] \in {next, NoRun}
    BY <1>2, <2>2
  <2>4. sender'[s].at \notin WithAttempt
    BY <2>1, <2>3 DEF WithAttempt
  <2> QED BY <2>4, FineWithout
<1> QED BY <1>3, <1>4

LEMMA FineCommit ==
  ASSUME IInv, [Next]_vars, NEW s \in Senders, CommitResult(s)
  PROVE  SenderFine(s)'
<1>0. PICK a : a = sender[s].attempt
  OBVIOUS
<1> DEFINE outcome == sender[s].outcome
           remote == sender[s].remote
<1>1. sender[s].at \in {"journal_failed", "commit"} /\ AfterCommit(s)
  BY DEF CommitResult
<1>2. ASSUME sender[s].at = "journal_failed" PROVE Recorded(a)'
  <2>1. a \in Attempts /\ outcome = "success" /\ Proven(a)
    BY <1>0, <1>2, KnowsItsAttempt DEF WithAttempt
  <2>2. CASE Ignored(a, outcome, remote)
    <3>1. attempts[a].status \in Sent
      BY <2>1 DEF Proven, Sent, IInv, SentStaysOpen
    <3>2. attempts[a].status = "success"
      BY <2>1, <2>2, <3>1 DEF Ignored, Conflicts, ValidTransition, Sent
    <3> QED BY <2>1, <3>2, RecordedKept DEF Recorded
  <2>3. CASE ~Ignored(a, outcome, remote)
    <3>1. Settling(a, Target(a, outcome))
      BY <1>0, <2>3, CommitSettles
    <3>2. Target(a, outcome) = "success"
      BY <2>1 DEF Target
    <3> QED BY <3>1, <3>2 DEF Settling, Recorded
  <2> QED BY <2>2, <2>3
<1> QED BY <1>0, <1>1, <1>2, FineAfterCommit

LEMMA FineCommitFails ==
  ASSUME IInv, [Next]_vars, NEW s \in Senders, CommitFails(s)
  PROVE  SenderFine(s)'
<1>1. CASE Stops(s)
  <2>1. sender'[s].at = "idle"
    BY <1>1 DEF Stops, NoRun, IInv, TypeOK
  <2> QED BY <2>1, FineWithout DEF WithAttempt
<1>2. CASE /\ AfterCommit(s)
           /\ journal' = journal \cup {Receipt(sender[s].attempt, RemoteAfter(sender[s].attempt, sender[s].remote))}
  <2>1. PICK a : a = sender[s].attempt
    OBVIOUS
  <2>2. PICK remote : remote = RemoteAfter(a, sender[s].remote)
    OBVIOUS
  <2>3. Receipt(a, remote) \in journal'
    BY <1>2, <2>1, <2>2
  <2>4. Recorded(a)'
    BY <2>3, ReceiptRecords
  <2> QED BY <1>2, <2>1, <2>4, FineAfterCommit DEF CommitFails
<1> QED BY <1>1, <1>2 DEF CommitFails

LEMMA FineRevoke ==
  ASSUME IInv, [Next]_vars, NEW s \in Senders, Revoke(s)
  PROVE  SenderFine(s)'
<1>1. sender[s] \in Sender /\ sender \in [Senders -> Sender]
  BY DEF IInv, TypeOK
<1>2. /\ sender'[s].at = sender[s].at /\ sender'[s].attempt = sender[s].attempt
      /\ sender'[s].outcome = sender[s].outcome
      /\ UNCHANGED <<attempts, journal, commands, accepted>>
  BY <1>1 DEF Revoke, Sender, db, world
<1>3. SenderFine(s)
  BY SendersAreFine DEF IInv
<1> QED BY <1>2, <1>3 DEF SenderFine, SenderSound, Proven, Recorded, Attempts

-----------------------------------------------------------------------------
(* Every step keeps what senders know, and so the invariant.               *)

LEMMA SenderStepFine ==
  ASSUME IInv, [Next]_vars, NEW s \in Senders,
         \/ StartTask(s) \/ StartPage(s) \/ (\E u \in Uploaders : RetryPage(s, u))
         \/ SenderStep(s) \/ CommitFails(s) \/ Raise(s) \/ Revoke(s)
  PROVE  SenderFine(s)'
<1>1. TypeOK
  BY DEF IInv
<1>2. ASSUME \/ StartTask(s) \/ StartPage(s) \/ (\E u \in Uploaders : RetryPage(s, u))
             \/ Process(s) \/ ExportManually(s) \/ RefuseToPrepare(s) \/ SkipUpload(s)
             \/ FindAttemptClosed(s) \/ RefuseToSend(s) \/ Raise(s)
      PROVE  SenderFine(s)'
  BY <1>1, <1>2, MovesWithout, FineWithout
<1> QED BY <1>2, FineFindReceipt, FinePrepareAttempt, FineSending, FineReturn, FineReceipt,
           FineCommit, FineCommitFails, FineRevoke DEF SenderStep

\* A step of one sender moves no other, and sends at most that sender's attempt.
LEMMA OthersUntouched ==
  ASSUME IInv, NEW s \in Senders, NEW t \in Senders \ {s},
         \/ StartTask(s) \/ StartPage(s) \/ (\E u \in Uploaders : RetryPage(s, u))
         \/ SenderStep(s) \/ CommitFails(s) \/ Raise(s) \/ Revoke(s)
  PROVE  /\ sender'[t] = sender[t]
         /\ sender[t].attempt \in Attempts /\ attempts[sender[t].attempt].worker = t
              /\ sender[t].attempt \notin commands \cup accepted
              => sender[t].attempt \notin commands' \cup accepted'
<1> USE DEF world
<1>1. sender \in [Senders -> Sender]
  BY DEF IInv, TypeOK
<1>2. \A place : GoesTo(s, place) => sender'[t] = sender[t]
  BY <1>1 DEF GoesTo
<1>3. Stops(s) => sender'[t] = sender[t]
  BY <1>1 DEF Stops
<1>4. AfterCommit(s) => sender'[t] = sender[t]
  BY <1>1, <1>2 DEF AfterCommit, Continues
<1>5. CASE StartTask(s) \/ StartPage(s) \/ \E u \in Uploaders : RetryPage(s, u)
  BY <1>1, <1>5 DEF StartTask, StartPage, RetryPage, Starts
<1>6. CASE Process(s) \/ ExportManually(s) \/ RefuseToPrepare(s) \/ SkipUpload(s)
  BY <1>2, <1>3, <1>6 DEF Process, ExportManually, RefuseToPrepare, SkipUpload
<1>7. CASE FindReceipt(s)
  BY <1>1, <1>7 DEF FindReceipt
<1>8. CASE PrepareAttempt(s)
  BY <1>1, <1>8 DEF PrepareAttempt
<1>9. CASE FindAttemptClosed(s) \/ RefuseToSend(s) \/ MarkSent(s)
  BY <1>2, <1>3, <1>9 DEF FindAttemptClosed, RefuseToSend, MarkSent
<1>10. CASE StartCommand(s)
  <2>1. sender[s].attempt \in Attempts /\ attempts[sender[s].attempt].worker = s
    BY <1>10, KnowsItsAttempt DEF StartCommand, WithAttempt
  <2>2. commands' = commands \cup {sender[s].attempt} /\ accepted' = accepted
    BY <1>10 DEF StartCommand
  <2>3. sender'[t] = sender[t]
    BY <1>2, <1>10 DEF StartCommand
  <2>4. ASSUME sender[t].attempt \in Attempts, attempts[sender[t].attempt].worker = t,
               sender[t].attempt \notin commands \cup accepted
        PROVE  sender[t].attempt \notin commands' \cup accepted'
    <3>1. sender[t].attempt # sender[s].attempt
      BY <2>1, <2>4
    <3> QED BY <2>2, <2>4, <3>1
  <2> QED BY <2>3, <2>4
<1>11. CASE LoseOwnership(s) \/ Revoke(s)
  BY <1>1, <1>11 DEF LoseOwnership, Revoke
<1>12. ASSUME NEW outcome \in Outcomes, Return(s, outcome)
       PROVE  sender'[t] = sender[t] /\ (commands' \cup accepted') \subseteq commands \cup accepted
  BY <1>1, <1>12 DEF Return
<1>13. CASE WriteReceipt(s)
  BY <1>2, <1>13 DEF WriteReceipt
<1>14. CASE CommitResult(s)
  BY <1>4, <1>14 DEF CommitResult
<1>15. CASE CommitFails(s)
  BY <1>3, <1>4, <1>15 DEF CommitFails
<1>16. CASE Raise(s)
  BY <1>3, <1>16 DEF Raise
<1> QED BY <1>5, <1>6, <1>7, <1>8, <1>9, <1>10, <1>11, <1>12, <1>13, <1>14, <1>15, <1>16 DEF SenderStep

LEMMA SendersKeep ==
  ASSUME IInv, [Next]_vars
  PROVE  SendersSound' /\ ReceiptBeforeCommit'
<1> USE DEF world, proc
<1>1. ASSUME NEW s \in Senders, NEW t \in Senders,
             \/ StartTask(s) \/ StartPage(s) \/ (\E u \in Uploaders : RetryPage(s, u))
             \/ SenderStep(s) \/ CommitFails(s) \/ Raise(s) \/ Revoke(s)
      PROVE  SenderFine(t)'
  <2>1. CASE s = t
    BY <1>1, <2>1, SenderStepFine
  <2>2. CASE s # t
    BY <1>1, <2>2, OthersUntouched, FineKept
  <2> QED BY <2>1, <2>2
<1>2. ASSUME NEW t \in Senders, UNCHANGED sender,
             (commands' \cup accepted') \subseteq commands \cup accepted
      PROVE  SenderFine(t)'
  BY <1>2, FineKept
<1>3. ASSUME NEW s \in Senders, Renew(s)
      PROVE  UNCHANGED sender /\ (commands' \cup accepted') \subseteq commands \cup accepted
  BY <1>3 DEF Renew
<1>4. ASSUME NEW receipt \in journal, ReplayReceipt(receipt)
      PROVE  UNCHANGED sender /\ (commands' \cup accepted') \subseteq commands \cup accepted
  BY <1>4 DEF ReplayReceipt
<1>5. ASSUME NEW a \in Attempts, RecoverStaleAttempt(a) \/ Age(a) \/ Arrive(a)
      PROVE  UNCHANGED sender /\ (commands' \cup accepted') \subseteq commands \cup accepted
  BY <1>5 DEF RecoverStaleAttempt, Age, Arrive
<1>6. ASSUME SyncRead \/ SyncLoad \/ SyncWrite \/ Toggle
      PROVE  UNCHANGED sender /\ (commands' \cup accepted') \subseteq commands \cup accepted
  BY <1>6 DEF SyncRead, SyncLoad, SyncWrite, Toggle
<1>7. ASSUME NEW id \in {Null, "typed"}, Confirm(id)
      PROVE  UNCHANGED sender /\ (commands' \cup accepted') \subseteq commands \cup accepted
  <2>1. UNCHANGED <<sender, commands, accepted>>
    BY <1>7, Zenon DEF Confirm
  <2> QED BY <2>1
<1>8. ASSUME NEW status \in {"ready", "rejected"}, Decide(status)
      PROVE  UNCHANGED sender /\ (commands' \cup accepted') \subseteq commands \cup accepted
  BY <1>8 DEF Decide
<1>9. ASSUME NEW t \in Senders, Crash PROVE SenderFine(t)'
  <2>1. sender'[t].at = "idle"
    BY <1>9 DEF Crash, NoRun
  <2> QED BY <2>1, FineWithout DEF WithAttempt
<1>10. ASSUME UNCHANGED vars
       PROVE  UNCHANGED sender /\ (commands' \cup accepted') \subseteq commands \cup accepted
  BY <1>10 DEF vars
<1>11. ASSUME NEW t \in Senders PROVE SenderFine(t)'
  BY <1>1, <1>2, <1>3, <1>4, <1>5, <1>6, <1>7, <1>8, <1>9, <1>10 DEF Next, Recovery
<1>12. (SendersSound /\ ReceiptBeforeCommit <=> \A s \in Senders : SenderFine(s))'
  BY SendersAreFine DEF SendersSound, ReceiptBeforeCommit, SenderFine
<1> QED BY <1>11, <1>12

-----------------------------------------------------------------------------
(* The inductive invariant, and what follows from it.                      *)

LEMMA InitHolds == Init => IInv
<1> SUFFICES ASSUME Init PROVE IInv
  OBVIOUS
<1>1. attempts = <<>> /\ Attempts = {} /\ attempts \in Seq(Attempt)
  BY EmptySeq DEF Init, Attempts
<1>2. NoUpload \in Upload /\ NoRun \in Sender /\ NoSync \in Sync
  BY DEF NoUpload, NoRun, NoSync, Upload, Sender, Sync, UploadStatuses, Places, Uploaders
<1>3. TypeOK
  BY <1>1, <1>2 DEF Init, TypeOK
<1>4. \A s \in Senders : sender[s].at = "idle"
  BY DEF Init, NoRun
<1>5. SendersSound /\ ReceiptBeforeCommit
  BY <1>4 DEF SendersSound, SenderSound, WithAttempt, ReceiptBeforeCommit
<1>6. upload["biliup"].status = "absent" /\ upload["biliup"].owner = Null
  BY DEF Init, NoUpload, Uploaders
<1>7. ClaimMatchesAttempt /\ UploadFollows /\ SuccessIsGrounded
  BY <1>1, <1>6 DEF ClaimMatchesAttempt, UploadFollows, SuccessIsGrounded
<1>8. OnlyLastOpen /\ SentStaysOpen /\ JournalSound /\ AttemptsGrounded
  BY <1>1 DEF Init, OnlyLastOpen, SentStaysOpen, JournalSound, AttemptsGrounded
<1>9. SyncSound
  BY DEF Init, NoSync, SyncSound
<1> QED BY <1>3, <1>5, <1>7, <1>8, <1>9 DEF IInv

LEMMA StepKeepsInv == IInv /\ [Next]_vars => IInv'
<1> SUFFICES ASSUME IInv, [Next]_vars PROVE IInv'
  OBVIOUS
<1> QED BY TypeStep, StepKeeps, SendersKeep DEF IInv

\* The inductive invariant holds in every reachable state, whatever the senders,
\* recovery, people and the platform do, and in whatever order.
THEOREM InductiveInvariant == Spec => []IInv
BY InitHolds, StepKeepsInv, PTL DEF Spec

\* Every variable stays in its type.
THEOREM TypeCorrect == Spec => []TypeOK
<1>1. IInv => TypeOK
  BY DEF IInv
<1> QED BY <1>1, InductiveInvariant, PTL

\* The claim of upload_tasks and the attempt it was made for agree in every
\* reachable state: no claim is left without an attempt that recovery can find.
THEOREM ClaimsMatch == Spec => []ClaimMatchesAttempt
<1>1. IInv => ClaimMatchesAttempt
  BY DEF IInv
<1> QED BY <1>1, InductiveInvariant, PTL

\* A sender that was told of a success commits it only after the success is in the
\* journal or in the database.
THEOREM ReceiptsPrecedeCommits == Spec => []ReceiptBeforeCommit
<1>1. IInv => ReceiptBeforeCommit
  BY DEF IInv
<1> QED BY <1>1, InductiveInvariant, PTL

\* An upload counts as a success only if the platform accepted a copy or a person
\* said so.
THEOREM SuccessesAreGrounded == Spec => []SuccessIsGrounded
<1>1. IInv => SuccessIsGrounded
  BY DEF IInv
<1> QED BY <1>1, InductiveInvariant, PTL

\* A success that is recorded, in the journal or in the database, stays recorded.
THEOREM ReceiptsStay == Spec => ReceiptsAreKept
<1>1. IInv /\ [Next]_vars => [\A a \in Attempts : Recorded(a) => Recorded(a)']_vars
  BY RecordedKept
<1> QED BY <1>1, InductiveInvariant, PTL DEF Spec, ReceiptsAreKept

-----------------------------------------------------------------------------
(* The ledger.                                                             *)

\* What the status of the last attempt tells.
Tells(status) ==
  CASE status = "in_progress"             -> "in_progress"
    [] status = "reconciliation_required" -> "reconciliation"
    [] status = "success"                 -> "success"
    [] status = "failed_permanent"        -> "failed"
    [] OTHER                              -> "none"

LEMMA ToldIsLast == Told = IF attempts = <<>> THEN "none" ELSE Tells(attempts[Len(attempts)].status)
BY DEF Told, Tells

LEMMA TellsFacts ==
  /\ Tells("in_progress") = "in_progress"
  /\ Tells("reconciliation_required") = "reconciliation"
  /\ Tells("success") = "success"
  /\ Tells("failed_permanent") = "failed"
  /\ Tells("failed_retryable") = "none"
  /\ Tells("prepared") = "none"
BY DEF Tells

\* Only the last attempt can have been accepted, and then it counts as sent.
LEMMA CopiesFacts ==
  ASSUME IInv
  PROVE  /\ \A a \in commands \cup accepted : /\ a = Len(attempts) /\ attempts # <<>>
                                               /\ attempts[a].status \in Sent
         /\ accepted = {} \/ accepted = {Len(attempts)}
         /\ accepted = {} <=> Cardinality(accepted) = 0
         /\ accepted # {} <=> Cardinality(accepted) = 1
<1>1. \A a \in commands \cup accepted : /\ a = Len(attempts) /\ attempts # <<>>
                                        /\ attempts[a].status \in Sent
  BY OpenIsLast DEF IInv, SentStaysOpen, Sent
<1>2. accepted = {} \/ accepted = {Len(attempts)}
  BY <1>1
<1> QED BY <1>1, <1>2, FS_EmptySet, FS_Singleton

LEMMA QuietLedger ==
  ASSUME IInv, TypeOK', Quiet
  PROVE  [Ledger!Next]_(Ledger!vars)
<1>1. Told' = Told
  <2>1. Len(attempts') = Len(attempts) /\ (attempts' = <<>> <=> attempts = <<>>)
    BY AttemptsShape DEF IInv, TypeOK, Quiet, SameAttempts
  <2>2. attempts # <<>> => attempts'[Len(attempts')].status = attempts[Len(attempts)].status
    BY <2>1, Indices DEF Attempts, Quiet, SameAttempts
  <2>3. Told' = IF attempts' = <<>> THEN "none" ELSE Tells(attempts'[Len(attempts')].status)
    BY DEF Told, Tells
  <2> QED BY <2>1, <2>2, <2>3, ToldIsLast
<1>2. CASE UNCHANGED accepted
  BY <1>1, <1>2 DEF Ledger!vars
<1>3. ASSUME NEW a \in Attempts, Arrive(a) PROVE Ledger!Accept
  <2>1. a \in commands /\ a \notin accepted /\ accepted' = accepted \cup {a}
    BY <1>3 DEF Arrive, IInv, SentStaysOpen
  <2>2. accepted = {} /\ accepted' = {a}
    BY <2>1, CopiesFacts
  <2>3. Cardinality(accepted) = 0 /\ Cardinality(accepted') = 1
    BY <2>2, FS_EmptySet, FS_Singleton
  <2>4. Told \in {"in_progress", "reconciliation", "success"}
    BY <2>1, CopiesFacts, ToldIsLast, TellsFacts DEF Sent
  <2> QED BY <1>1, <2>3, <2>4 DEF Ledger!Accept
<1>4. ASSUME NEW s \in Senders, StartCommand(s) \/ WriteReceipt(s) \/ CommitFails(s)
      PROVE  UNCHANGED accepted
  BY <1>4 DEF StartCommand, WriteReceipt, CommitFails, world
<1>5. ASSUME NEW s \in Senders, NEW outcome \in Outcomes, Return(s, outcome)
      PROVE  UNCHANGED accepted
  BY <1>5 DEF Return
<1> QED BY <1>2, <1>3, <1>4, <1>5 DEF Quiet, Ledger!Next

LEMMA SettlingLedger ==
  ASSUME IInv, TypeOK', NEW a, NEW status, Settling(a, status)
  PROVE  [Ledger!Next]_(Ledger!vars)
<1>1. a \in Attempts /\ a = Len(attempts) /\ a = Len(attempts') /\ attempts # <<>> /\ attempts' # <<>>
  BY AttemptsShape DEF Settling, IInv, TypeOK, Attempts
<1>2. Told = Tells(attempts[a].status)
  BY <1>1, ToldIsLast
<1>3. Told' = Tells(status)
  BY <1>1 DEF Told, Tells, Settling
<1>4. UNCHANGED Cardinality(accepted)
  BY DEF Settling
<1>5. /\ accepted = {} <=> Cardinality(accepted) = 0
      /\ a \in accepted <=> Cardinality(accepted) = 1
  BY <1>1, CopiesFacts
<1>6. /\ status = "success" /\ attempts[a].status # "success" => a \in accepted
      /\ status \in Refusals => accepted = {}
  BY <1>1, CopiesFacts DEF Settling, Proven, Sent, Refusals
<1>7. CASE attempts[a].status = "prepared"
  <2>1. status \in {"in_progress", "failed_retryable", "failed_permanent"}
    BY <1>7 DEF Settling, Moves, Refusals
  <2>2. Told = "none"
    BY <1>2, <1>7, TellsFacts
  <2> QED BY <1>3, <1>4, <2>1, <2>2, TellsFacts DEF Ledger!Next, Ledger!Send, Ledger!Refuse, Ledger!vars
<1>8. CASE attempts[a].status = "in_progress"
  <2>1. status \in {"in_progress", "success", "reconciliation_required"} \cup Refusals
    BY DEF Settling, AttemptStatuses, Refusals
  <2>2. Told = "in_progress"
    BY <1>2, <1>8, TellsFacts
  <2> QED BY <1>3, <1>4, <1>5, <1>6, <1>8, <2>1, <2>2, TellsFacts DEF Ledger!Next, Ledger!Answer, Ledger!vars, Refusals
<1>9. CASE attempts[a].status = "reconciliation_required"
  <2>1. status \in PassedOn
    BY <1>9 DEF Settling, Moves
  <2>2. Told = "reconciliation"
    BY <1>2, <1>9, TellsFacts
  <2> QED BY <1>3, <1>4, <1>5, <1>6, <1>9, <2>1, <2>2, TellsFacts
          DEF Ledger!Next, Ledger!Settle, Ledger!vars, PassedOn, Refusals
<1>10. CASE attempts[a].status = "success"
  <2>1. status = "success"
    BY <1>10 DEF Settling, Moves
  <2> QED BY <1>2, <1>3, <1>4, <1>10, <2>1 DEF Ledger!vars
<1> QED BY <1>7, <1>8, <1>9, <1>10 DEF Settling, Moves

LEMMA PrepareLedger ==
  ASSUME IInv, NEW s \in Senders, PrepareAttempt(s)
  PROVE  UNCHANGED Ledger!vars
<1> DEFINE new == [status |-> "prepared", worker |-> s, remote |-> Null, aged |-> FALSE]
<1>1. new \in Attempt /\ new.status = "prepared"
  BY DEF Attempt, AttemptStatuses
<1>2. attempts \in Seq(Attempt) /\ attempts' = Append(attempts, new)
  BY DEF IInv, TypeOK, PrepareAttempt
<1> HIDE DEF new
<1>3. attempts' # <<>> /\ attempts'[Len(attempts')].status = "prepared"
  BY <1>1, <1>2, AppendProperties
<1>4. Told' = "none"
  BY <1>3 DEF Told
<1>5. Told = "none"
  <2>1. \A a \in Attempts : attempts[a].status = "failed_retryable"
    BY ClaimableMeansOver DEF PrepareAttempt, Refused
  <2>2. attempts # <<>> => Len(attempts) \in Attempts
    BY Indices
  <2> QED BY <2>1, <2>2, ToldIsLast, TellsFacts
<1>6. UNCHANGED accepted
  BY DEF PrepareAttempt, world
<1> QED BY <1>4, <1>5, <1>6 DEF Ledger!vars

LEMMA ConfirmLedger ==
  ASSUME IInv, TypeOK', NEW id \in {Null, "typed"}, Confirm(id)
  PROVE  [Ledger!Next]_(Ledger!vars)
<1>1. UNCHANGED accepted
  BY Zenon DEF Confirm
<1>2. /\ Len(attempts') = Len(attempts) /\ (attempts' = <<>> <=> attempts = <<>>)
      /\ \A a \in Attempts :
           attempts'[a].status = IF attempts[a].status = "reconciliation_required"
                                 THEN "success" ELSE attempts[a].status
  BY ConfirmAttempts
<1>3. attempts # <<>> => Len(attempts) \in Attempts
  BY Indices
<1>4. Told' = IF attempts' = <<>> THEN "none" ELSE Tells(attempts'[Len(attempts')].status)
  BY DEF Told, Tells
<1>5. Told' = IF Told = "reconciliation" THEN "success" ELSE Told
  BY <1>2, <1>3, <1>4, ToldIsLast DEF Tells
<1> QED BY <1>1, <1>5 DEF Ledger!Next, Ledger!Settle, Ledger!vars

LEMMA LedgerStep ==
  ASSUME IInv, [Next]_vars
  PROVE  [Ledger!Next]_(Ledger!vars)
<1>1. TypeOK'
  BY TypeStep
<1> QED BY <1>1, StepKinds, QuietLedger, SettlingLedger, PrepareLedger, ConfirmLedger

\* The publication of a clip implements its ledger: a request is sent only while
\* nothing sent before is open, the platform accepts one copy at most, an answer is
\* recorded only if it is true, and an unknown outcome is never sent again.
THEOREM PublishingImplementsLedger == Spec => ImplementsLedger
<1>1. Init => Ledger!Init
  BY FS_EmptySet DEF Init, Ledger!Init, Told
<1>2. IInv /\ [Next]_vars => [Ledger!Next]_(Ledger!vars)
  BY LedgerStep
<1> QED BY <1>1, <1>2, InductiveInvariant, PTL DEF Spec, ImplementsLedger, Ledger!Spec
===============================================================================
