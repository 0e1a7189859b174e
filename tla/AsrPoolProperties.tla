--------------------------- MODULE AsrPoolProperties ---------------------------
(***************************************************************************)
(* What the pool of recognition processes promises.                        *)
(***************************************************************************)
EXTENDS AsrPool

\* The processes that live, and the models they may have loaded for a request,
\* never exceed the limits, however often processes cannot be started, owned
\* or killed (execute).
QuotasAreKept ==
  /\ Cardinality({p \in Processes : slot[p].alive}) <= MaxSlots
  /\ \A x \in Roles : Cardinality({p \in Processes : x \in slot[p].roles}) <= RoleLimit

\* A model is counted once for each slot that reserves it: the execution, the
\* scheduler and the shutdown all clean up a slot, and one of them returns its
\* models (_release_roles).
RolesAreCounted ==
  \A x \in Roles : roles[x] = Cardinality({p \in Processes : x \in slot[p].roles})

\* Two processes never work for one task, also when the first belongs to a
\* lease that was lost and cannot be killed (execute).
OneProcessPerTask ==
  \A p, q \in Processes :
    child[p] # NoRequest /\ child[q] # NoRequest /\ TaskOf[child[p]] = TaskOf[child[q]]
      => p = q

\* While a process works for a request, has_active_task says so: a
\* cancellation is not settled and a lease not taken over before.
WorkIsVisible ==
  \A p \in Processes : child[p] # NoRequest => HasActiveTask(child[p])

\* Every execution that asks for recognition gets on: no process that could
\* not be killed, no lost reservation and no shutdown keeps it waiting for ever.
RequestsLeave ==
  \A r \in Requests : request[r].phase # "idle" ~> request[r].phase = "left"
=============================================================================
