------------------------ MODULE PublishingProperties ------------------------
(***************************************************************************)
(* What the publication of a clip guarantees.                              *)
(***************************************************************************)
EXTENDS Publishing

\* Every variable stays in its type.
TypeOK ==
  /\ upload \in [Uploaders -> Upload]
  /\ attempts \in Seq(Attempt)
  /\ journal \subseteq [attempt : Nat, remote : RemoteIds \cup {Null}]
  /\ clip \in {"ready", "rejected", "published"}
  /\ automatic \in BOOLEAN /\ confirmed \in BOOLEAN
  /\ sender \in [Senders -> Sender]
  /\ sync \in Sync
  /\ commands \subseteq Nat /\ accepted \subseteq Nat
  /\ requests \in Nat /\ faults \in Nat

\* What a clip's last attempt tells: it is the only one that may not be settled.
Told ==
  IF attempts = <<>> THEN "none"
  ELSE CASE attempts[Len(attempts)].status = "in_progress"             -> "in_progress"
         [] attempts[Len(attempts)].status = "reconciliation_required" -> "reconciliation"
         [] attempts[Len(attempts)].status = "success"                 -> "success"
         [] attempts[Len(attempts)].status = "failed_permanent"        -> "failed"
         [] OTHER                                                      -> "none"

Ledger == INSTANCE UploadLedger WITH ledger <- Told, copies <- Cardinality(accepted)

\* The senders, recovery and people together implement the ledger of one clip:
\* the platform never accepts a second copy, an outcome that is unknown is never
\* sent again, and nothing is recorded that did not happen
\* (prepare_upload_attempt, execute_remote_upload, commit_publish_result).
ImplementsLedger == Ledger!Spec

\* The claim in upload_tasks and the attempt it was made for say the same: an
\* upload is preparing or uploading for its owner exactly while its attempt is
\* prepared or in progress.  A claim without its attempt would never be released,
\* as recovery looks for attempts (recover_stale_upload_attempts).
ClaimMatchesAttempt ==
  LET row == upload["biliup"] IN
  /\ row.status = "preparing" <=>
       attempts # <<>> /\ attempts[Len(attempts)].status = "prepared"
  /\ row.status = "uploading" <=>
       attempts # <<>> /\ attempts[Len(attempts)].status = "in_progress"
  /\ row.owner = IF row.status \in {"preparing", "uploading"}
                 THEN attempts[Len(attempts)].worker ELSE Null

Recorded(a) == attempts[a].status = "success" \/ \E receipt \in journal : receipt.attempt = a

\* A sender that was told of a success goes on to its commit only once the success
\* is in the journal or in the database: an exit from there on loses nothing
\* (execute_remote_upload writes the receipt before it returns).
ReceiptBeforeCommit ==
  \A s \in Senders :
    sender[s].at = "commit" /\ sender[s].outcome = "success" => Recorded(sender[s].attempt)

\* What is recorded as a success stays so, whatever result, receipt, recovery or
\* decision comes later, and in whatever order (commit_publish_result,
\* mark_replayed, recover_stale_upload_attempts).
ReceiptsAreKept == [][\A a \in Attempts : Recorded(a) => Recorded(a)']_vars

\* An upload counts as a success only if the platform accepted it or a person
\* said so: no path turns an unknown outcome into a publication.
SuccessIsGrounded == upload["biliup"].status = "success" => accepted # {} \/ confirmed

StatusOf(a) == IF a \in Attempts THEN attempts[a].status ELSE "none"

\* A prepared or started attempt is settled, or handed to people, even if its
\* sender is gone: the clip is not blocked for good.
AttemptsEnd ==
  \A a \in 1 .. MaxAttempts :
    (StatusOf(a) \in {"prepared", "in_progress"}) ~> (StatusOf(a) \notin {"prepared", "in_progress"})

\* A receipt in the journal becomes a success in the database.
ReceiptsReplayed ==
  \A a \in 1 .. MaxAttempts :
    (\E receipt \in journal : receipt.attempt = a) ~> (StatusOf(a) = "success")

\* A success of an attempt reaches the upload and stays there, although the tick
\* may overwrite it once with what it had read before.
SuccessPrevails ==
  \A a \in 1 .. MaxAttempts :
    (StatusOf(a) = "success") ~> [](upload["biliup"].status = "success")

\* docs/development/reliability-v01203.md:241: a success is not covered by a late
\* failure.  Said of the upload, which pages and the next claim look at.
SuccessIsNotOverwritten ==
  [][upload["biliup"].status = "success" => upload'["biliup"].status = "success"]_vars
===============================================================================
