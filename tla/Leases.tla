-------------------------------- MODULE Leases --------------------------------
(***************************************************************************)
(* What the task queue promises about leases, without owners, heartbeats,  *)
(* stages and transactions.  A lease may be taken away or replaced at any  *)
(* time, by recovery, people, a shutdown or a late write, and whoever      *)
(* works under it works on.  What holds is that                            *)
(*   a lease is granted under a token that nothing remembers,              *)
(*   what ends writes only if it holds the lease and was not asked to stop,*)
(*   except for executions that looked at their lease first and write      *)
(*   later: what these write takes the lease there is by then away,        *)
(*   a cancellation is reported only when nothing works under its lease,   *)
(*   the work of a lease starts once, and model processes only in it.      *)
(***************************************************************************)

CONSTANTS
  Tasks,
  Tokens,
  NoToken

VARIABLES
  row,      \* what is stored about every task
  lease,    \* the token it is worked on under, or NoToken
  cancel,   \* "no", "asked" of the holder of the lease, or reported as "done"
  granted,  \* <<task, token>> of the leases whose execution has not started
  threads,  \* <<task, token>> of the executions at work
  decided,  \* those of them that will write without looking again
  models    \* <<task, token>> of the model processes at work

work == <<granted, threads, decided, models>>
vars == <<row, lease, cancel, work>>

\* Nothing remembers token k.
Fresh(k) ==
  /\ \A t \in Tasks : lease[t] # k
  /\ \A p \in granted \cup threads \cup models : p[2] # k

AtWork(t, k) == <<t, k>> \in threads \cup models

\* What is stored about the other tasks stays.
OnlyTask(t) ==
  \A u \in Tasks \ {t} : row'[u] = row[u] /\ lease'[u] = lease[u] /\ cancel'[u] = cancel[u]

Init ==
  /\ \A t \in Tasks : lease[t] = NoToken /\ cancel[t] = "no"
  /\ granted = {} /\ threads = {} /\ decided = {} /\ models = {}

\* A claim, which may replace a lease that somebody works under.
Grant(t, k) ==
  /\ Fresh(k)
  /\ lease'[t] = k /\ cancel'[t] = "no"
  /\ OnlyTask(t)
  /\ granted' = granted \cup {<<t, k>>}
  /\ UNCHANGED <<threads, decided, models>>

\* The execution starts, also when the lease is gone; then without a model.
Begin(t, k) ==
  /\ <<t, k>> \in granted
  /\ granted' = granted \ {<<t, k>>}
  /\ threads' = threads \cup {<<t, k>>}
  /\ models' = models \/ (lease[t] = k /\ models' = models \cup {<<t, k>>})
  /\ UNCHANGED <<row, lease, cancel, decided>>

\* It will not start.  The lease is taken back if it is still there.
Withdraw(t, k) ==
  /\ <<t, k>> \in granted
  /\ granted' = granted \ {<<t, k>>}
  /\ \/ UNCHANGED <<row, lease, cancel>>
     \/ /\ lease[t] = k /\ lease'[t] = NoToken
        /\ UNCHANGED cancel /\ OnlyTask(t)
  /\ UNCHANGED <<threads, decided, models>>

\* The execution ends; its model process may be left behind.  Its result, or
\* its wish to be cancelled, is stored only by the holder of the lease.
End(t, k) ==
  /\ <<t, k>> \in threads \ decided
  /\ threads' = threads \ {<<t, k>>}
  /\ models' \in {models, models \ {<<t, k>>}}
  /\ \/ UNCHANGED <<row, lease, cancel>>
     \/ /\ lease[t] = k /\ cancel[t] = "no"
        /\ lease'[t] \in {k, NoToken}
        /\ cancel'[t] = "no" \/ (cancel'[t] = "asked" /\ lease'[t] = k)
        /\ OnlyTask(t)
  /\ UNCHANGED <<granted, decided>>

\* It finds its lease in place and not asked to stop, and will write later.
Decide(t, k) ==
  /\ <<t, k>> \in threads \ decided
  /\ lease[t] = k /\ cancel[t] = "no"
  /\ decided' = decided \cup {<<t, k>>}
  /\ UNCHANGED <<row, lease, cancel, granted, threads, models>>

\* It writes, whoever holds the lease by then, and leaves the task without
\* a lease and without a cancellation.
EndLate(t, k) ==
  /\ <<t, k>> \in decided
  /\ threads' = threads \ {<<t, k>>} /\ decided' = decided \ {<<t, k>>}
  /\ lease'[t] = NoToken /\ cancel'[t] = "no"
  /\ OnlyTask(t)
  /\ UNCHANGED <<granted, models>>

\* A model process that was left behind is gone.
Reap(t, k) ==
  /\ <<t, k>> \in models \ threads
  /\ models' = models \ {<<t, k>>}
  /\ UNCHANGED <<row, lease, cancel, granted, threads, decided>>

\* People, recovery and the scheduler write what they like, and take leases
\* away; they give none, and report no cancellation before its work has ended.
Manage ==
  /\ UNCHANGED work
  /\ \A t \in Tasks :
       /\ lease'[t] \in {lease[t], NoToken}
       /\ cancel'[t] = "asked" => lease'[t] # NoToken
       /\ cancel[t] = "asked" /\ cancel'[t] = "done" => ~AtWork(t, lease[t])

\* The process is lost with all its work; what is stored stays.
Lose ==
  /\ granted' = {} /\ threads' = {} /\ decided' = {} /\ models' = {}
  /\ UNCHANGED <<row, lease, cancel>>

Next ==
  \/ Manage \/ Lose
  \/ \E t \in Tasks, k \in Tokens :
       \/ Grant(t, k) \/ Begin(t, k) \/ Withdraw(t, k) \/ Reap(t, k)
       \/ End(t, k) \/ Decide(t, k) \/ EndLate(t, k)

Spec == Init /\ [][Next]_vars
===============================================================================
