------------------------------- MODULE JobRow -------------------------------
(***************************************************************************)
(* One record of app/db/job_store.py (a row of app_settings named          *)
(* web_job:<id>), as its functions rewrite it.  What is shown to people    *)
(* (label, progress, message, error, times) is left out; the attempt is    *)
(* what ties a write to the execution it comes from.                       *)
(***************************************************************************)
EXTENDS Naturals

Active   == {"queued", "running", "cancelling"}
Terminal == {"succeeded", "failed", "cancelled"}

\* "absent": no such record yet.
Row == [status : {"absent"} \cup Active \cup Terminal, attempt : Nat]

NoRow    == [status |-> "absent", attempt |-> 0]
FirstRow == [status |-> "queued", attempt |-> 1]

-----------------------------------------------------------------------------
\* Faulty: only the status is compared, not the attempt.
IsInAnyAttempt(row, n, states) == row.status \in states

\* _require: the row is still that attempt's and in one of these states.
IsIn(row, n, states) == row.attempt = n /\ row.status \in states

Ended(row, status) == [row EXCEPT !.status = status]

NextAttempt(row) == [row EXCEPT !.status = "queued", !.attempt = @ + 1]

\* cancel: the checks before it writes.
MayCancel(row, cancellable) ==
  /\ row.status \in Active
  /\ row.status = "queued" \/ cancellable

\* Faulty: a status that no reader knows.
CancelledMisspelt(row) == Ended(row, IF row.status = "queued" THEN "canceled" ELSE "cancelling")

Cancelled(row) == Ended(row, IF row.status = "queued" THEN "cancelled" ELSE "cancelling")

MayRetry(row) == row.status \in {"failed", "cancelled"}

\* Faulty: a late failure replaces the result that was published.
FailedAnyway(row, n, isCancelled) ==
  IF row.attempt # n THEN row
  ELSE Ended(row, IF row.status = "cancelling" \/ isCancelled THEN "cancelled" ELSE "failed")

\* fail: an intent to cancel goes first, what has ended stays as it is.
Failed(row, n, isCancelled) ==
  IF row.attempt # n \/ row.status \in Terminal THEN row
  ELSE Ended(row, IF row.status = "cancelling" \/ isCancelled THEN "cancelled" ELSE "failed")

\* Faulty: an interrupted upload is taken up again like any other job.
RecoveredAgain(row, cancellable, confirmed) ==
  CASE row.status = "cancelling" -> Ended(row, "cancelled")
    [] row.status = "running"    -> NextAttempt(row)
    [] OTHER                     -> row

\* recover, with the resolver of upload jobs: they are the ones that cannot be
\* cancelled while they run.
Recovered(row, cancellable, confirmed) ==
  CASE row.status = "cancelling"                -> Ended(row, "cancelled")
    [] row.status = "running" /\ cancellable    -> NextAttempt(row)
    [] row.status = "running" /\ ~cancellable   -> Ended(row, IF confirmed THEN "succeeded" ELSE "failed")
    [] OTHER                                    -> row
=============================================================================
