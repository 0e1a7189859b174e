------------------------------- MODULE AsrPool -------------------------------
(***************************************************************************)
(* The pool of speech recognition processes (analysis/transcription/       *)
(* process_pool.py) under the executions that use it (isolated.py) and the *)
(* clean-ups an execution keeps until its resources are gone               *)
(* (core/execution.py).  Everything a thread does while it holds the       *)
(* condition of the pool is one step; between two steps processes die,     *)
(* leases are lost, the scheduler cleans up and the worker stops.          *)
(***************************************************************************)
EXTENDS Naturals, FiniteSets

CONSTANTS
  Requests,     \* executions that ask for recognition, each under its lease
  NoRequest,    \* no execution
  TaskOf,       \* the task of each request
  Roles,        \* models with a limit of their own
  RolesOf,      \* the models each request reserves
  MaxSlots,     \* asr_task_max_concurrency
  RoleLimit,    \* asr_<role>_max_concurrency
  MaxProcesses, \* bound: processes started
  MaxFaults,    \* bound: terminations and starts that fail
  MaxStops      \* bound: stops of the worker

ASSUME PoolAssumption ==
  /\ NoRequest \notin Requests
  /\ RolesOf \in [Requests -> SUBSET Roles]
  /\ DOMAIN TaskOf = Requests
  /\ MaxSlots \in Nat \ {0} /\ RoleLimit \in Nat \ {0}
  /\ MaxProcesses \in Nat /\ MaxFaults \in Nat /\ MaxStops \in Nat

Processes == 1 .. MaxProcesses

VARIABLES
  slot,     \* _slots and _starting, and whether each process is alive
  child,    \* the request a process works on
  roles,    \* _roles: reservations of each model
  request,  \* where each execution is, and the process it waits for
  pool,     \* open, closing, or the way the last shutdown ended
  faults, stops

vars == <<slot, child, roles, request, pool, faults, stops>>

Places == {"unused", "starting", "listed", "gone"}
Phases == {"idle", "waiting", "loading", "working", "ending", "cleaning", "left"}

Slot == [place : Places, alive : BOOLEAN, ready : BOOLEAN, busy : BOOLEAN,
         quarantined : BOOLEAN, cut : BOOLEAN,
         user : Requests \cup {NoRequest}, roles : SUBSET Roles]

Absent(place) == [place |-> place, alive |-> FALSE, ready |-> FALSE, busy |-> FALSE,
                  quarantined |-> FALSE, cut |-> FALSE, user |-> NoRequest, roles |-> {}]

Init ==
  /\ slot = [p \in Processes |-> Absent("unused")]
  /\ child = [p \in Processes |-> NoRequest]
  /\ roles = [x \in Roles |-> 0]
  /\ request = [r \in Requests |-> [phase |-> "idle", of |-> 0]]
  /\ pool = "open"
  /\ faults = 0 /\ stops = 0

-----------------------------------------------------------------------------
(* State functions                                                           *)

Listed   == {p \in Processes : slot[p].place = "listed"}
Starting == {p \in Processes : slot[p].place = "starting"}
Busy     == {p \in Listed : slot[p].busy}
Idle     == Listed \ Busy
Unused   == {p \in Processes : slot[p].place = "unused"}
Least(S) == CHOOSE p \in S : \A q \in S : p <= q

\* operation: an execution registers before it decodes audio, and leaves when
\* recognition has returned or raised.
Operations == {r \in Requests : request[r].phase \in {"waiting", "loading", "working", "ending"}}

\* has_active_task
HasActiveTask(r) == r \in Operations \/ \E p \in Busy : slot[p].user = r

Fault == faults < MaxFaults /\ faults' = faults + 1

Goes(r, phase)      == request' = [request EXCEPT ![r].phase = phase]
GoesWith(r, phase, p) == request' = [request EXCEPT ![r] = [phase |-> phase, of |-> p]]

\* _release_roles
RolesReturned(p) == [x \in Roles |-> IF x \in slot[p].roles THEN roles[x] - 1 ELSE roles[x]]

\* _kill_slot: a quarantined slot gives its models back with its process.
RolesAfterKillKept(p) == roles
RolesAfterKill(p) == RolesReturned(p)

Killed(p) ==
  /\ slot' = [slot EXCEPT ![p] = Absent("gone")]
  /\ child' = [child EXCEPT ![p] = NoRequest]
  /\ roles' = RolesAfterKill(p)

\* _kill_slot raises: the process or the thread that talks to it is still
\* there.  The thread has been told to stop.
Survives(p, s) ==
  /\ Fault
  /\ \E alive \in {FALSE, slot[p].alive} :
       /\ slot' = [slot EXCEPT ![p] = [s EXCEPT !.cut = TRUE, !.alive = alive]]
       /\ child' = [child EXCEPT ![p] = IF alive THEN @ ELSE NoRequest]
  /\ UNCHANGED roles

-----------------------------------------------------------------------------
(* execute, to the slot it is given                                          *)

\* Once the pool is closed, nobody enters.
Ask(r) ==
  /\ request[r].phase = "idle"
  /\ Goes(r, IF pool = "open" THEN "waiting" ELSE "left")
  /\ UNCHANGED <<slot, child, roles, pool, faults, stops>>

\* Cancelled, overtaken, out of time, or told that the pool is closing.
GiveUp(r) ==
  /\ request[r].phase = "waiting"
  /\ Goes(r, "left")
  /\ UNCHANGED <<slot, child, roles, pool, faults, stops>>

\* A second execution of a task waits for the process of the first.
SameRequestActive(r) == \E p \in Busy : slot[p].user = r
SameTaskActive(r) ==
  \E p \in Busy : slot[p].user # NoRequest /\ TaskOf[slot[p].user] = TaskOf[r]

\* What is stuck still counts.
InUseHealthy == Cardinality({p \in Busy : ~slot[p].quarantined})
InUse == Cardinality(Busy) + Cardinality(Starting)

Admissible(r) ==
  /\ request[r].phase = "waiting"
  /\ pool = "open"
  /\ ~SameTaskActive(r)
  /\ InUse < MaxSlots
  /\ \A x \in RolesOf[r] : roles[x] < RoleLimit

\* The idle processes that have died are retired first.
Dead == {p \in Idle : ~slot[p].alive}

Assigned(s, r) == [s EXCEPT !.busy = TRUE, !.user = r, !.roles = RolesOf[r]]
Reserved(r)    == [x \in Roles |-> IF x \in RolesOf[r] THEN roles[x] + 1 ELSE roles[x]]

\* The first idle process, or a new one.  A request reaches the process
\* unless its thread was told to stop.
Admit(r) ==
  LET free == Idle \ Dead
      p    == IF free # {} THEN Least(free) ELSE Least(Unused)
      s    == IF free # {} THEN slot[p]
              ELSE [Absent("listed") EXCEPT !.alive = TRUE]
  IN
  /\ Admissible(r)
  /\ free # {} \/ Unused # {}
  /\ slot' = [q \in Processes |-> IF q \in Dead THEN Absent("gone")
                                  ELSE IF q = p THEN Assigned(s, r) ELSE slot[q]]
  /\ child' = [child EXCEPT ![p] = IF s.ready /\ ~s.cut THEN r ELSE @]
  /\ roles' = Reserved(r)
  /\ GoesWith(r, IF s.ready THEN "working" ELSE "loading", p)
  /\ UNCHANGED <<pool, faults, stops>>

\* A dead process cannot be retired: the request fails.
RetireFails(r) ==
  /\ Admissible(r)
  /\ \E p \in Dead : Survives(p, slot[p])
  /\ Goes(r, "left")
  /\ UNCHANGED <<pool, stops>>

\* The process does not start, or cannot be owned and is reaped at once.
SpawnFails(r) ==
  /\ Admissible(r)
  /\ Idle = {}
  /\ Fault
  /\ Goes(r, "left")
  /\ UNCHANGED <<slot, child, roles, pool, stops>>

\* It can neither be owned nor reaped (_starting), or it has no thread to talk
\* to it and cannot be killed: the execution keeps its clean-up.
SpawnIsStuck(r) ==
  LET p == Least(Unused) IN
  /\ Admissible(r)
  /\ Idle = {} /\ Unused # {}
  /\ Fault
  /\ \E listed \in BOOLEAN :
       slot' = [slot EXCEPT ![p] =
         [Absent(IF listed THEN "listed" ELSE "starting") EXCEPT
            !.alive = TRUE, !.busy = listed, !.quarantined = listed, !.cut = listed]]
  /\ GoesWith(r, "cleaning", p)
  /\ UNCHANGED <<child, roles, pool, stops>>

-----------------------------------------------------------------------------
(* execute, with its slot                                                    *)

\* The handshake of a new process, and the request it then gets.
BecomesReady(r) ==
  LET p == request[r].of IN
  /\ request[r].phase = "loading"
  /\ slot[p].alive
  /\ slot' = [slot EXCEPT ![p].ready = TRUE]
  /\ child' = [child EXCEPT ![p] = r]
  /\ Goes(r, "working")
  /\ UNCHANGED <<roles, pool, faults, stops>>

ProcessDies(p) ==
  /\ slot[p].alive
  /\ slot' = [slot EXCEPT ![p].alive = FALSE]
  /\ child' = [child EXCEPT ![p] = NoRequest]
  /\ UNCHANGED <<roles, request, pool, faults, stops>>

\* A result is accepted: the process is idle again.
Finish(r) ==
  LET p == request[r].of IN
  /\ request[r].phase = "working"
  /\ child[p] = r
  /\ slot' = [slot EXCEPT ![p].busy = FALSE, ![p].roles = {}]
  /\ child' = [child EXCEPT ![p] = NoRequest]
  /\ roles' = RolesReturned(p)
  /\ Goes(r, "left")
  /\ UNCHANGED <<pool, faults, stops>>

\* Cancelled, overtaken, out of time, stopped, refused by the model, or left
\* alone by a process that has died.
Break(r) ==
  /\ request[r].phase \in {"loading", "working"}
  /\ Goes(r, "ending")
  /\ UNCHANGED <<slot, child, roles, pool, faults, stops>>

\* The finally of execute: the slot is quarantined, then killed.
QuarantinedIdle(p) == [slot[p] EXCEPT !.quarantined = TRUE, !.busy = FALSE]
Quarantined(p) == [slot[p] EXCEPT !.quarantined = TRUE]

Terminate(r) ==
  LET p == request[r].of IN
  /\ request[r].phase = "ending"
  /\ \/ Killed(p) /\ Goes(r, "left") /\ UNCHANGED faults
     \/ Survives(p, Quarantined(p)) /\ Goes(r, "cleaning")
  /\ UNCHANGED <<pool, stops>>

\* resource_scope tries again until the process is gone, whoever ended it.
Reap(r) ==
  LET p == request[r].of IN
  /\ request[r].phase = "cleaning"
  /\ \/ /\ p \in Listed \cup Starting
        /\ Killed(p)
     \/ /\ p \notin Listed \cup Starting
        /\ UNCHANGED <<slot, child, roles>>
  /\ Goes(r, "left")
  /\ UNCHANGED <<pool, faults, stops>>

-----------------------------------------------------------------------------
(* The scheduler and the worker                                              *)

\* cleanup_idle for one process: what is stuck is killed, what is idle and
\* dead, outdated or too old is retired.  An error ends the tick.
CleanUp(p) ==
  /\ pool = "open"
  /\ p \in Starting \cup Idle \/ slot[p].quarantined
  /\ \/ Killed(p) /\ UNCHANGED faults
     \/ Survives(p, slot[p])
  /\ UNCHANGED <<request, pool, stops>>

\* TaskWorker.stop closes the pool; it may be asked to stop again.
Shutdown ==
  /\ \/ pool = "open" /\ stops < MaxStops /\ stops' = stops + 1
     \/ pool = "failed" /\ UNCHANGED stops
  /\ pool' = "closing"
  /\ UNCHANGED <<slot, child, roles, request, faults>>

Quiet == Busy = {} /\ Operations = {}

\* _shutdown kills what is stuck while it waits, and retires the rest at its
\* end; an error or the end of its time ends it.
ShutdownKills(p) ==
  /\ pool = "closing"
  /\ p \in Starting \/ slot[p].quarantined \/ (Quiet /\ p \in Idle)
  /\ \/ Killed(p) /\ UNCHANGED <<pool, faults>>
     \/ Survives(p, slot[p]) /\ pool' = "failed"
  /\ UNCHANGED <<request, stops>>

ShutdownEnds ==
  /\ pool = "closing"
  /\ IF Quiet THEN Listed \cup Starting = {} /\ pool' = "closed"
              ELSE pool' = "failed"
  /\ UNCHANGED <<slot, child, roles, request, faults, stops>>

\* reset_process_pool, once all executions of the worker are done.
Restart ==
  /\ pool \in {"closed", "failed"}
  /\ \A r \in Requests : request[r].phase \in {"idle", "left"}
  /\ Listed \cup Starting = {}
  /\ pool' = "open"
  /\ UNCHANGED <<slot, child, roles, request, faults, stops>>

-----------------------------------------------------------------------------

Next ==
  \/ \E r \in Requests :
       \/ Ask(r) \/ GiveUp(r) \/ Admit(r) \/ RetireFails(r) \/ SpawnFails(r)
       \/ SpawnIsStuck(r) \/ BecomesReady(r) \/ Finish(r) \/ Break(r)
       \/ Terminate(r) \/ Reap(r)
  \/ \E p \in Processes : ProcessDies(p) \/ CleanUp(p) \/ ShutdownKills(p)
  \/ Shutdown \/ ShutdownEnds \/ Restart

Spec == Init /\ [][Next]_vars

(***************************************************************************)
(* Fairness.  A thread that waits looks at the pool five times a second; a *)
(* request that has a process ends at its deadline at the latest; clean-up *)
(* is tried again until it works.  Nothing makes a request that waits give *)
(* up while the pool is open.                                              *)
(***************************************************************************)
Fairness ==
  \A r \in Requests :
    /\ SF_vars(Admit(r))
    /\ WF_vars(pool # "open" /\ GiveUp(r))
    /\ WF_vars(BecomesReady(r) \/ Finish(r) \/ Break(r))
    /\ WF_vars(Terminate(r)) /\ WF_vars(Reap(r))

LiveSpec == Spec /\ Fairness
=============================================================================
