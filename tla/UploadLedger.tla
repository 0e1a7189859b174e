----------------------------- MODULE UploadLedger -----------------------------
(***************************************************************************)
(* What publishing promises about one clip, without saying how: a request  *)
(* is sent only while nothing is known to have been sent before, the       *)
(* platform accepts at most one copy, an answer is believed only if it is  *)
(* true, and a request whose outcome is unknown is never repeated.         *)
(*                                                                         *)
(*   none            nothing was sent, or it is known not to have arrived, *)
(*   in_progress     a request may be under way,                           *)
(*   reconciliation  nobody knows what the request did,                    *)
(*   success         the clip is published,                                *)
(*   failed          it is not, and will not be sent again by itself.      *)
(***************************************************************************)
EXTENDS Naturals

VARIABLES
  ledger,   \* what the service knows
  copies    \* what the platform accepted from the service

vars == <<ledger, copies>>

LedgerStates == {"none", "in_progress", "reconciliation", "success", "failed"}

TypeOK == ledger \in LedgerStates /\ copies \in Nat

Init == ledger = "none" /\ copies = 0

Send == ledger = "none" /\ ledger' = "in_progress" /\ UNCHANGED copies

\* A request found to be invalid just before it would have been sent.
Refuse == ledger = "none" /\ ledger' = "failed" /\ UNCHANGED copies

\* A command may outlive the process that started it, and a person may have
\* confirmed the publication in the meantime.
Accept ==
  /\ ledger \in {"in_progress", "reconciliation", "success"}
  /\ copies = 0
  /\ copies' = 1
  /\ UNCHANGED ledger

Answer ==
  /\ ledger = "in_progress"
  /\ \/ ledger' = "success" /\ copies = 1
     \/ ledger' \in {"none", "failed"} /\ copies = 0
     \/ ledger' = "reconciliation"
  /\ UNCHANGED copies

\* A late answer, a replayed receipt, or a person who looked.
Settle ==
  /\ ledger = "reconciliation"
  /\ \/ ledger' = "success"
     \/ ledger' = "failed" /\ copies = 0
  /\ UNCHANGED copies

Next == Send \/ Refuse \/ Accept \/ Answer \/ Settle

Spec == Init /\ [][Next]_vars
===============================================================================
