---------------------------- MODULE AsrPoolProofs ----------------------------
(***************************************************************************)
(* The safety properties of the recognition pool, for every set of         *)
(* requests, tasks and models, and every limit and bound.                  *)
(***************************************************************************)
EXTENDS AsrPoolProperties, FiniteSetTheorems, TLAPS

Pools == {"open", "closing", "closed", "failed"}

TypeOK ==
  /\ slot \in [Processes -> Slot]
  /\ child \in [Processes -> Requests \cup {NoRequest}]
  /\ roles \in [Roles -> Nat]
  /\ request \in [Requests -> [phase : Phases, of : Processes \cup {0}]]
  /\ pool \in Pools
  /\ faults \in Nat /\ stops \in Nat

\* Only a slot that is listed is lent, only one that is lent reserves models or
\* is in quarantine, and a process that lives has a slot.
SlotSound(p) ==
  /\ slot[p].busy => slot[p].place = "listed"
  /\ slot[p].roles # {} => slot[p].busy
  /\ slot[p].quarantined => slot[p].busy
  /\ slot[p].alive => slot[p].place \in {"listed", "starting"}

\* A process works for the request its slot is lent to.
ChildSound(p) == child[p] # NoRequest => slot[p].busy /\ slot[p].user = child[p]

\* An execution has its slot to itself until it gives it to a clean-up; what it
\* must clean up later is stuck, or gone.
RequestSound(r) ==
  LET p == request[r].of IN
  /\ request[r].phase \in {"loading", "working", "ending"} =>
       p \in Processes /\ slot[p].busy /\ ~slot[p].quarantined /\ slot[p].user = r
  /\ request[r].phase = "cleaning" =>
       p \in Processes /\ (slot[p].place \in {"starting", "gone"} \/ slot[p].quarantined)

SlotsSound    == \A p \in Processes : SlotSound(p)
ChildrenSound == \A p \in Processes : ChildSound(p)
RequestsSound == \A r \in Requests : RequestSound(r)

\* Two slots are never lent for one task.
OneSlotPerTask ==
  \A p, q \in Processes :
    /\ slot[p].busy /\ slot[p].user # NoRequest
    /\ slot[q].busy /\ slot[q].user # NoRequest
    /\ TaskOf[slot[p].user] = TaskOf[slot[q].user]
    => p = q

\* What is listed or starting fits.
Used        == {p \in Processes : slot[p].place \in {"listed", "starting"}}
UsedFits    == Cardinality(Used) <= MaxSlots
RolesFit    == \A x \in Roles : roles[x] <= RoleLimit

IInv ==
  /\ TypeOK /\ SlotsSound /\ ChildrenSound /\ RequestsSound /\ OneSlotPerTask
  /\ UsedFits /\ RolesFit /\ RolesAreCounted
-----------------------------------------------------------------------------
\* Counting.

LEMMA ProcessesAreFinite ==
  \A S \in SUBSET Processes : IsFiniteSet(S) /\ Cardinality(S) \in Nat
PROOF
<1>1. MaxProcesses \in Int /\ 1 \in Int BY PoolAssumption
<1>2. IsFiniteSet(Processes) BY <1>1, FS_Interval DEF Processes
<1> QED BY <1>2, FS_Subset, FS_CardinalityType

LEMMA SmallerCounts ==
  ASSUME NEW S \in SUBSET Processes, NEW T \in SUBSET S
  PROVE  Cardinality(T) <= Cardinality(S)
PROOF BY ProcessesAreFinite, FS_Subset

\* A set of process numbers has a least one.
LEMMA LeastIsThere ==
  ASSUME NEW S \in SUBSET Processes, S # {}
  PROVE  Least(S) \in S
PROOF
<1>1. S \subseteq Nat BY PoolAssumption DEF Processes
<1>2. PICK p \in S : \A q \in S : ~(<<q, p>> \in OpToRel(<, Nat))
  BY <1>1, NatLessThanWellFounded, WFMin
<1>3. \A q \in S : ~(q < p) BY <1>1, <1>2 DEF OpToRel
<1>4. \A q \in S : p <= q BY <1>1, <1>3
<1> QED BY <1>4 DEF Least

\* The slots that reserve a model.
Reserving(x) == {p \in Processes : x \in slot[p].roles}

\* The models of one slot are returned, those of the others stay.
LEMMA ReturnCounts ==
  ASSUME TypeOK, RolesAreCounted, NEW p \in Processes, roles' = RolesReturned(p),
         slot'[p].roles = {}, \A q \in Processes : q # p => slot'[q].roles = slot[q].roles
  PROVE  /\ RolesAreCounted' /\ roles' \in [Roles -> Nat]
         /\ \A x \in Roles : roles'[x] <= roles[x]
PROOF
<1> SUFFICES ASSUME NEW x \in Roles
             PROVE  /\ roles'[x] = Cardinality(Reserving(x)')
                    /\ roles'[x] \in Nat /\ roles'[x] <= roles[x]
  BY DEF RolesAreCounted, RolesReturned, Reserving
<1>1. Reserving(x)' = Reserving(x) \ {p} BY DEF Reserving
<1>2. roles'[x] = IF x \in slot[p].roles THEN roles[x] - 1 ELSE roles[x] BY DEF RolesReturned
<1>3. roles[x] = Cardinality(Reserving(x)) BY DEF RolesAreCounted, Reserving
<1>4. IsFiniteSet(Reserving(x)) /\ Cardinality(Reserving(x)) \in Nat
  BY ProcessesAreFinite DEF Reserving
<1>5. Cardinality(Reserving(x)') =
        IF p \in Reserving(x) THEN Cardinality(Reserving(x)) - 1 ELSE Cardinality(Reserving(x))
  BY <1>1, <1>4, FS_RemoveElement
<1>6. p \in Reserving(x) <=> x \in slot[p].roles BY DEF Reserving
<1>7. Reserving(x)' \in SUBSET Processes BY DEF Reserving, Processes
<1>8. Cardinality(Reserving(x)') \in Nat BY <1>7, ProcessesAreFinite
<1> QED BY <1>2, <1>3, <1>4, <1>5, <1>6, <1>8

\* No slot reserves anything else than before.
LEMMA SameCounts ==
  ASSUME RolesAreCounted, UNCHANGED roles,
         \A q \in Processes : slot'[q].roles = slot[q].roles
  PROVE  RolesAreCounted'
PROOF
<1> SUFFICES ASSUME NEW x \in Roles PROVE roles'[x] = Cardinality(Reserving(x)')
  BY DEF RolesAreCounted, Reserving
<1>1. Reserving(x)' = Reserving(x) BY DEF Reserving
<1>2. roles[x] = Cardinality(Reserving(x)) BY DEF RolesAreCounted, Reserving
<1> QED BY <1>1, <1>2

\* A request reserves its models with a slot that reserved none.
LEMMA ReserveCounts ==
  ASSUME TypeOK, RolesAreCounted, NEW p \in Processes, NEW r \in Requests,
         roles' = Reserved(r), slot[p].roles = {}, slot'[p].roles = RolesOf[r],
         \A q \in Processes : q # p => slot'[q].roles = slot[q].roles
  PROVE  RolesAreCounted' /\ roles' \in [Roles -> Nat]
PROOF
<1> SUFFICES ASSUME NEW x \in Roles
             PROVE  roles'[x] = Cardinality(Reserving(x)') /\ roles'[x] \in Nat
  BY DEF RolesAreCounted, Reserved, Reserving
<1>1. roles'[x] = IF x \in RolesOf[r] THEN roles[x] + 1 ELSE roles[x] BY DEF Reserved
<1>2. roles[x] = Cardinality(Reserving(x)) /\ roles[x] \in Nat
  BY DEF RolesAreCounted, Reserving, TypeOK
<1>3. p \notin Reserving(x) BY DEF Reserving
<1>4. IsFiniteSet(Reserving(x)) BY ProcessesAreFinite DEF Reserving
<1>5. CASE x \in RolesOf[r]
  <2>1. Reserving(x)' = Reserving(x) \cup {p} BY <1>5 DEF Reserving
  <2>2. Cardinality(Reserving(x)') = Cardinality(Reserving(x)) + 1
    BY <2>1, <1>3, <1>4, FS_AddElement
  <2> QED BY <1>1, <1>2, <1>5, <2>2
<1>6. CASE x \notin RolesOf[r]
  <2>1. Reserving(x)' = Reserving(x) BY <1>3, <1>6 DEF Reserving
  <2> QED BY <1>1, <1>2, <1>6, <2>1
<1> QED BY <1>5, <1>6
-----------------------------------------------------------------------------
\* Steps.

\* Counters and the state of the pool keep their types.
LEMMA PoolTypes ==
  ASSUME TypeOK, [Next]_vars
  PROVE  pool' \in Pools /\ faults' \in Nat /\ stops' \in Nat
PROOF
<1> USE DEF TypeOK, Pools, Fault
<1>1. ASSUME NEW p \in Processes, NEW s, Survives(p, s) PROVE faults' \in Nat BY <1>1 DEF Survives
<1>2. ASSUME NEW r \in Requests,
             Ask(r) \/ GiveUp(r) \/ Admit(r) \/ BecomesReady(r) \/ Finish(r) \/ Break(r) \/ Reap(r)
      PROVE  UNCHANGED <<pool, faults, stops>>
  BY <1>2 DEF Ask, GiveUp, Admit, BecomesReady, Finish, Break, Reap
<1>3. ASSUME NEW r \in Requests, RetireFails(r) PROVE UNCHANGED <<pool, stops>> /\ faults' \in Nat
  BY <1>1, <1>3 DEF RetireFails, Dead, Idle, Listed
<1>4. ASSUME NEW r \in Requests, SpawnFails(r) \/ SpawnIsStuck(r)
      PROVE  UNCHANGED <<pool, stops>> /\ faults' \in Nat
  <2>1. CASE SpawnFails(r) BY <2>1 DEF SpawnFails
  <2>2. CASE SpawnIsStuck(r) BY <2>2 DEF SpawnIsStuck
  <2> QED BY <1>4, <2>1, <2>2
<1>5. ASSUME NEW r \in Requests, Terminate(r) PROVE UNCHANGED <<pool, stops>> /\ faults' \in Nat
  BY <1>5 DEF Terminate, Survives
<1>6. ASSUME NEW p \in Processes, ProcessDies(p) \/ CleanUp(p) \/ ShutdownKills(p)
      PROVE  UNCHANGED stops /\ faults' \in Nat /\ pool' \in {pool, "failed"}
  BY <1>6, <1>1 DEF ProcessDies, CleanUp, ShutdownKills
<1>7. ASSUME Shutdown \/ ShutdownEnds \/ Restart
      PROVE  UNCHANGED faults /\ stops' \in {stops, stops + 1} /\ pool' \in {"open", "closing", "closed", "failed"}
  BY <1>7 DEF Shutdown, ShutdownEnds, Restart
<1>8. CASE UNCHANGED vars BY <1>8 DEF vars
<1> QED BY <1>2, <1>3, <1>4, <1>5, <1>6, <1>7, <1>8 DEF Next

\* Slots stay; requests begin to wait, leave, or give their process up.
LEMMA SlotsStay ==
  ASSUME IInv, [Next]_vars, UNCHANGED <<slot, child, roles>>,
         request' \in [Requests -> [phase : Phases, of : Processes \cup {0}]],
         \A r \in Requests :
           \/ request'[r] = request[r]
           \/ request'[r].phase \in {"waiting", "left"}
           \/ /\ request'[r].phase = "ending" /\ request[r].phase \in {"loading", "working"}
              /\ request'[r].of = request[r].of
  PROVE  IInv'
PROOF
<1>1. TypeOK' BY PoolTypes DEF IInv, TypeOK
<1>2. SlotsSound' /\ ChildrenSound' /\ OneSlotPerTask'
  BY DEF IInv, SlotsSound, SlotSound, ChildrenSound, ChildSound, OneSlotPerTask
<1>3. UsedFits' /\ RolesFit' /\ RolesAreCounted'
  BY DEF IInv, UsedFits, Used, RolesFit, RolesAreCounted
<1>4. ASSUME NEW r \in Requests PROVE RequestSound(r)'
  <2>1. RequestSound(r) BY DEF IInv, RequestsSound
  <2> QED BY <2>1 DEF RequestSound
<1> QED BY <1>1, <1>2, <1>3, <1>4 DEF IInv, RequestsSound

\* A process is killed that no execution relies on.
LEMMA KillKeeps ==
  ASSUME IInv, [Next]_vars, NEW p \in Processes, Killed(p),
         request' \in [Requests -> [phase : Phases, of : Processes \cup {0}]],
         \A r \in Requests :
           /\ request'[r] = request[r] \/ request'[r].phase = "left"
           /\ request'[r].phase \in {"loading", "working", "ending"} => request'[r].of # p
  PROVE  IInv'
PROOF
<1> DEFINE gone == Absent("gone")
<1>0. gone \in Slot BY DEF Absent, Slot, Places
<1>1. /\ slot' \in [Processes -> Slot] /\ slot'[p] = gone
      /\ \A q \in Processes : q # p => slot'[q] = slot[q]
  BY <1>0 DEF IInv, TypeOK, Killed
<1>2. /\ child' \in [Processes -> Requests \cup {NoRequest}] /\ child'[p] = NoRequest
      /\ \A q \in Processes : q # p => child'[q] = child[q]
  BY DEF IInv, TypeOK, Killed
<1>3. /\ gone.place = "gone" /\ gone.roles = {} /\ ~gone.busy /\ ~gone.alive /\ ~gone.quarantined
  BY DEF Absent
<1> HIDE DEF gone
<1>4. /\ RolesAreCounted' /\ roles' \in [Roles -> Nat]
      /\ \A x \in Roles : roles'[x] <= roles[x]
  BY <1>1, <1>3, ReturnCounts DEF IInv, Killed, RolesAfterKill
<1>5. TypeOK' BY <1>1, <1>2, <1>4, PoolTypes DEF IInv, TypeOK
<1>6. SlotsSound' BY <1>1, <1>3 DEF IInv, SlotsSound, SlotSound
<1>7. ChildrenSound' BY <1>1, <1>2 DEF IInv, ChildrenSound, ChildSound
<1>8. ASSUME NEW r \in Requests PROVE RequestSound(r)'
  <2>1. RequestSound(r) BY DEF IInv, RequestsSound
  <2> QED BY <2>1, <1>1, <1>3 DEF RequestSound
<1>9. OneSlotPerTask' BY <1>1, <1>3 DEF IInv, OneSlotPerTask
<1>10. UsedFits'
  <2>1. Used' \subseteq Used BY <1>1, <1>3 DEF Used
  <2>2. Used \in SUBSET Processes BY DEF Used
  <2>3. Cardinality(Used') <= Cardinality(Used) BY <2>1, <2>2, SmallerCounts
  <2>4. Cardinality(Used') \in Nat /\ Cardinality(Used) \in Nat
    BY <2>1, <2>2, ProcessesAreFinite
  <2> QED BY <2>3, <2>4, PoolAssumption DEF IInv, UsedFits
<1>11. RolesFit' BY <1>4, PoolAssumption DEF IInv, RolesFit, TypeOK
<1> QED BY <1>4, <1>5, <1>6, <1>7, <1>8, <1>9, <1>10, <1>11 DEF IInv, RequestsSound

\* A process that should go stays: its slot stays as it was or gets into
\* quarantine, which takes it from the execution that had it.
LEMMA SurvivalKeeps ==
  ASSUME IInv, [Next]_vars, NEW p \in Processes, NEW s \in {slot[p], Quarantined(p)},
         Survives(p, s), s = slot[p] \/ slot[p].busy,
         request' \in [Requests -> [phase : Phases, of : Processes \cup {0}]],
         \A r \in Requests :
           \/ request'[r] = request[r]
           \/ request'[r].phase = "left"
           \/ request'[r].phase = "cleaning" /\ request'[r].of = p /\ s = Quarantined(p),
         \A r \in Requests :
           request'[r].phase \in {"loading", "working", "ending"} =>
             request'[r].of # p \/ s = slot[p]
  PROVE  IInv'
PROOF
<1>0. slot[p] \in Slot BY DEF IInv, TypeOK
<1>1. PICK alive \in {FALSE, slot[p].alive} :
        /\ slot' = [slot EXCEPT ![p] = [s EXCEPT !.cut = TRUE, !.alive = alive]]
        /\ child' = [child EXCEPT ![p] = IF alive THEN @ ELSE NoRequest]
  BY DEF Survives
<1> DEFINE t == [s EXCEPT !.cut = TRUE, !.alive = alive]
<1>2. s \in Slot /\ s.place = slot[p].place /\ s.busy = slot[p].busy
      /\ s.user = slot[p].user /\ s.roles = slot[p].roles
      /\ (slot[p].quarantined => s.quarantined) /\ (s = Quarantined(p) => s.quarantined)
  BY <1>0 DEF Quarantined, Slot
<1>3. alive \in BOOLEAN /\ (alive => slot[p].alive) BY <1>0 DEF Slot
<1>4. t \in Slot /\ t.place = slot[p].place /\ t.busy = slot[p].busy
      /\ t.user = slot[p].user /\ t.roles = slot[p].roles
      /\ t.quarantined = s.quarantined /\ t.alive = alive
  BY <1>2, <1>3 DEF Slot
<1>5. slot' = [slot EXCEPT ![p] = t] BY <1>1
<1> HIDE DEF t
<1>6. /\ slot' \in [Processes -> Slot] /\ slot'[p] = t
      /\ \A q \in Processes : q # p => slot'[q] = slot[q]
  BY <1>4, <1>5 DEF IInv, TypeOK
<1>7. /\ child' \in [Processes -> Requests \cup {NoRequest}]
      /\ \A q \in Processes : child'[q] \in {child[q], NoRequest}
  BY <1>1 DEF IInv, TypeOK
<1>8. UNCHANGED roles BY DEF Survives
<1>9. TypeOK' BY <1>6, <1>7, <1>8, PoolTypes DEF IInv, TypeOK
<1>10. SlotsSound'
  <2>1. SlotSound(p) BY DEF IInv, SlotsSound
  <2>2. s.quarantined => slot[p].busy BY <2>1 DEF SlotSound
  <2>3. SlotSound(p)' BY <1>3, <1>4, <1>6, <2>1, <2>2 DEF SlotSound
  <2> QED BY <1>6, <2>3 DEF IInv, SlotsSound, SlotSound
<1>11. ChildrenSound' BY <1>4, <1>6, <1>7 DEF IInv, ChildrenSound, ChildSound
<1>12. ASSUME NEW r \in Requests PROVE RequestSound(r)'
  <2>1. RequestSound(r) BY DEF IInv, RequestsSound
  <2> QED BY <2>1, <1>2, <1>4, <1>6 DEF RequestSound
<1>13. OneSlotPerTask' BY <1>4, <1>6 DEF IInv, OneSlotPerTask
<1>14. UsedFits'
  <2>1. Used' = Used BY <1>4, <1>6 DEF Used
  <2> QED BY <2>1 DEF IInv, UsedFits
<1>15. RolesAreCounted' /\ RolesFit'
  <2>1. \A q \in Processes : slot'[q].roles = slot[q].roles BY <1>4, <1>6
  <2> QED BY <2>1, <1>8, SameCounts DEF IInv, RolesFit
<1> QED BY <1>9, <1>10, <1>11, <1>12, <1>13, <1>14, <1>15 DEF IInv, RequestsSound

\* A process that is added to those that are lent or starting fits.
LEMMA NewFits ==
  ASSUME InUse < MaxSlots, NEW p \in Processes, Used' \subseteq Busy \cup Starting \cup {p}
  PROVE  UsedFits'
PROOF
<1> DEFINE S == Busy \cup Starting
<1>1. Busy \in SUBSET Processes /\ Starting \in SUBSET Processes /\ Busy \cap Starting = {}
  BY DEF Busy, Listed, Starting
<1>2. IsFiniteSet(Busy) /\ IsFiniteSet(Starting) /\ Cardinality(Busy) \in Nat
      /\ Cardinality(Starting) \in Nat
  BY <1>1, ProcessesAreFinite
<1>3. IsFiniteSet(S) /\ Cardinality(S) = InUse
  <2>1. Cardinality(Busy \cap Starting) = 0 BY <1>1, FS_EmptySet
  <2>2. /\ IsFiniteSet(Busy \cup Starting)
        /\ Cardinality(Busy \cup Starting) =
             Cardinality(Busy) + Cardinality(Starting) - Cardinality(Busy \cap Starting)
    BY <1>2, FS_Union
  <2> QED BY <1>2, <2>1, <2>2 DEF InUse
<1>4. S \in SUBSET Processes /\ S \cup {p} \in SUBSET Processes BY <1>1
<1>5. Cardinality(S \cup {p}) <= InUse + 1
  <2>1. InUse \in Nat BY <1>2 DEF InUse
  <2> HIDE DEF S
  <2> QED BY <1>3, <2>1, FS_AddElement
<1>6. Cardinality(Used') <= Cardinality(S \cup {p}) BY <1>4, SmallerCounts
<1>7. Cardinality(Used') \in Nat /\ Cardinality(S \cup {p}) \in Nat /\ InUse \in Nat
  BY <1>2, <1>4, ProcessesAreFinite DEF InUse
<1> QED BY <1>5, <1>6, <1>7, PoolAssumption DEF UsedFits

\* A request gets an idle slot or a new one.
LEMMA AdmitKeeps ==
  ASSUME IInv, [Next]_vars, NEW r \in Requests, Admit(r)
  PROVE  IInv'
PROOF
<1> DEFINE free == Idle \ Dead
           p == IF free # {} THEN Least(free) ELSE Least(Unused)
           new == [Absent("listed") EXCEPT !.alive = TRUE]
           s == IF free # {} THEN slot[p] ELSE new
           t == Assigned(s, r)
           gone == Absent("gone")
<1>1. free \in SUBSET Processes /\ Unused \in SUBSET Processes /\ Dead \in SUBSET Processes
      /\ Dead \in SUBSET Idle
  BY DEF Idle, Listed, Dead, Unused
<1>2. (free # {} /\ p \in free) \/ (free = {} /\ p \in Unused)
  BY <1>1, LeastIsThere DEF Admit
<1>3. p \in Processes /\ p \notin Dead BY <1>1, <1>2 DEF Dead, Idle, Listed, Unused
<1>4. /\ slot' = [q \in Processes |-> IF q \in Dead THEN gone ELSE IF q = p THEN t ELSE slot[q]]
      /\ child' = [child EXCEPT ![p] = IF s.ready /\ ~s.cut THEN r ELSE @]
      /\ roles' = Reserved(r)
      /\ request' = [request EXCEPT ![r] = [phase |-> IF s.ready THEN "working" ELSE "loading", of |-> p]]
      /\ Admissible(r)
  BY DEF Admit, GoesWith
<1>5. ~slot[p].busy /\ slot[p].roles = {} /\ ~slot[p].quarantined
      /\ slot[p].place \in {"listed", "unused"}
  <2>1. SlotSound(p) BY <1>3 DEF IInv, SlotsSound
  <2> QED BY <1>2, <2>1, <1>3 DEF SlotSound, Idle, Busy, Listed, Unused
<1>6. s \in Slot /\ s.place = "listed" /\ ~s.quarantined
  <2>1. CASE free # {}
    <3>1. s = slot[p] /\ p \in Listed BY <1>2, <2>1 DEF Idle
    <3>2. slot[p] \in Slot BY <1>3 DEF IInv, TypeOK
    <3>3. slot[p].place = "listed" BY <3>1 DEF Listed
    <3> HIDE DEF s, p
    <3> QED BY <3>1, <3>2, <3>3, <1>5
  <2>2. CASE free = {}
    <3>1. s = new BY <2>2
    <3>2. new \in Slot /\ new.place = "listed" /\ ~new.quarantined BY DEF Absent, Slot, Places
    <3> QED BY <3>1, <3>2
  <2> QED BY <2>1, <2>2
<1> HIDE DEF new, s, p, free
<1>7. RolesOf[r] \in SUBSET Roles BY PoolAssumption
<1>8. t \in Slot /\ t.place = "listed" /\ t.busy /\ t.user = r /\ t.roles = RolesOf[r]
      /\ ~t.quarantined
  BY <1>6, <1>7 DEF Assigned, Slot
<1>9. gone \in Slot /\ gone.place = "gone" /\ gone.roles = {} /\ ~gone.busy /\ ~gone.alive
      /\ ~gone.quarantined
  BY DEF Absent, Slot, Places
<1> HIDE DEF t, gone
<1>10. slot \in [Processes -> Slot] BY DEF IInv, TypeOK
<1>11. /\ slot' \in [Processes -> Slot] /\ slot'[p] = t
       /\ \A q \in Dead : slot'[q] = gone
       /\ \A q \in Processes : q # p /\ q \notin Dead => slot'[q] = slot[q]
  BY <1>1, <1>3, <1>4, <1>8, <1>9, <1>10
<1>12. \A q \in Dead : ~slot[q].busy /\ slot[q].roles = {} /\ child[q] = NoRequest
  <2> SUFFICES ASSUME NEW q \in Dead PROVE ~slot[q].busy /\ slot[q].roles = {} /\ child[q] = NoRequest
    OBVIOUS
  <2>1. SlotSound(q) /\ ChildSound(q) BY <1>1 DEF IInv, SlotsSound, ChildrenSound
  <2>2. ~slot[q].busy BY <1>1 DEF Dead, Idle, Listed, Busy
  <2> QED BY <2>1, <2>2 DEF SlotSound, ChildSound
<1>13. /\ child' \in [Processes -> Requests \cup {NoRequest}]
       /\ child'[p] \in {r, child[p]}
       /\ \A q \in Processes : q # p => child'[q] = child[q]
  BY <1>3, <1>4 DEF IInv, TypeOK
<1>14. /\ request' \in [Requests -> [phase : Phases, of : Processes \cup {0}]]
       /\ request'[r].of = p /\ request'[r].phase \in {"working", "loading"}
       /\ \A q \in Requests : q # r => request'[q] = request[q]
  <2> DEFINE e == [phase |-> IF s.ready THEN "working" ELSE "loading", of |-> p]
  <2>1. e \in [phase : Phases, of : Processes \cup {0}] /\ e.of = p
        /\ e.phase \in {"working", "loading"}
    BY <1>3 DEF Phases
  <2>2. request' = [request EXCEPT ![r] = e] BY <1>4
  <2> HIDE DEF e
  <2> QED BY <2>1, <2>2 DEF IInv, TypeOK
<1>15. RolesAreCounted' /\ roles' \in [Roles -> Nat]
  <2>1. \A q \in Processes : q # p => slot'[q].roles = slot[q].roles
    BY <1>9, <1>11, <1>12
  <2>2. TypeOK /\ RolesAreCounted BY DEF IInv
  <2> QED BY <2>1, <2>2, <1>3, <1>4, <1>5, <1>8, <1>11, ReserveCounts
<1>16. TypeOK' BY <1>11, <1>13, <1>14, <1>15, PoolTypes DEF IInv, TypeOK
<1>17. SlotsSound'
  <2> SUFFICES ASSUME NEW q \in Processes PROVE SlotSound(q)' BY DEF SlotsSound
  <2>1. SlotSound(q) BY DEF IInv, SlotsSound
  <2> QED BY <2>1, <1>8, <1>9, <1>11 DEF SlotSound
<1>18. ChildrenSound'
  <2> SUFFICES ASSUME NEW q \in Processes PROVE ChildSound(q)' BY DEF ChildrenSound
  <2>1. ChildSound(q) BY DEF IInv, ChildrenSound
  <2> QED BY <2>1, <1>5, <1>8, <1>11, <1>12, <1>13 DEF ChildSound
<1>19. ASSUME NEW q \in Requests PROVE RequestSound(q)'
  <2>1. RequestSound(q) BY DEF IInv, RequestsSound
  <2>2. CASE q = r BY <2>2, <1>3, <1>8, <1>11, <1>14 DEF RequestSound
  <2>3. CASE q # r BY <2>1, <2>3, <1>5, <1>9, <1>11, <1>12, <1>14 DEF RequestSound
  <2> QED BY <2>2, <2>3
<1>20. OneSlotPerTask'
  <2>1. \A q \in Processes : slot'[q].busy => q = p \/ (slot[q].busy /\ slot'[q] = slot[q])
    BY <1>9, <1>11
  <2>2. \A q \in Processes : slot[q].busy /\ slot[q].user # NoRequest => TaskOf[slot[q].user] # TaskOf[r]
    <3>1. ~SameTaskActive(r) BY <1>4 DEF Admissible
    <3>2. \A q \in Processes : slot[q].busy => q \in Busy
      BY DEF IInv, SlotsSound, SlotSound, Busy, Listed
    <3> QED BY <3>1, <3>2 DEF SameTaskActive
  <2> QED BY <2>1, <2>2, <1>8, <1>11 DEF IInv, OneSlotPerTask
<1>21. UsedFits'
  <2>1. CASE free # {}
    <3>1. p \in Used BY <1>2, <1>3, <2>1 DEF free, Idle, Listed, Used
    <3>2. Used' \subseteq Used BY <3>1, <1>9, <1>11 DEF Used
    <3>3. Used \in SUBSET Processes BY DEF Used
    <3>4. Cardinality(Used') <= Cardinality(Used) BY <3>2, <3>3, SmallerCounts
    <3>5. Cardinality(Used') \in Nat /\ Cardinality(Used) \in Nat
      BY <3>2, <3>3, ProcessesAreFinite
    <3> QED BY <3>4, <3>5, PoolAssumption DEF IInv, UsedFits
  <2>2. CASE free = {}
    <3>1. Idle \subseteq Dead BY <2>2 DEF free
    <3>2. Used' \subseteq Busy \cup Starting \cup {p}
      <4> SUFFICES ASSUME NEW q \in Used', q # p PROVE q \in Busy \cup Starting OBVIOUS
      <4>1. q \in Processes /\ slot'[q].place \in {"listed", "starting"} BY DEF Used
      <4>2. q \notin Dead /\ slot'[q] = slot[q] BY <4>1, <1>9, <1>11
      <4> QED BY <3>1, <4>1, <4>2 DEF Idle, Busy, Listed, Starting
    <3> QED BY <3>2, <1>3, <1>4, NewFits DEF Admissible
  <2> QED BY <2>1, <2>2
<1>22. RolesFit'
  <2> SUFFICES ASSUME NEW x \in Roles PROVE roles'[x] <= RoleLimit BY DEF RolesFit
  <2>1. roles[x] \in Nat /\ roles[x] <= RoleLimit BY DEF IInv, TypeOK, RolesFit
  <2>2. x \in RolesOf[r] => roles[x] < RoleLimit BY <1>4 DEF Admissible
  <2>3. roles'[x] = IF x \in RolesOf[r] THEN roles[x] + 1 ELSE roles[x] BY <1>4 DEF Reserved
  <2> QED BY <2>1, <2>2, <2>3, PoolAssumption
<1> QED BY <1>15, <1>16, <1>17, <1>18, <1>19, <1>20, <1>21, <1>22 DEF IInv, RequestsSound

\* A new process that can neither be used nor killed takes a place.
LEMMA StuckKeeps ==
  ASSUME IInv, [Next]_vars, NEW r \in Requests, SpawnIsStuck(r)
  PROVE  IInv'
PROOF
<1> DEFINE p == Least(Unused)
<1>1. p \in Unused /\ p \in Processes BY LeastIsThere DEF SpawnIsStuck, Unused
<1>2. PICK listed \in BOOLEAN :
        slot' = [slot EXCEPT ![p] =
          [Absent(IF listed THEN "listed" ELSE "starting") EXCEPT
             !.alive = TRUE, !.busy = listed, !.quarantined = listed, !.cut = listed]]
  BY DEF SpawnIsStuck
<1> DEFINE t == [Absent(IF listed THEN "listed" ELSE "starting") EXCEPT
                   !.alive = TRUE, !.busy = listed, !.quarantined = listed, !.cut = listed]
<1>3. t \in Slot /\ t.place = (IF listed THEN "listed" ELSE "starting") /\ t.busy = listed
      /\ t.quarantined = listed /\ t.roles = {} /\ t.user = NoRequest
  BY DEF Absent, Slot, Places
<1>4. slot' = [slot EXCEPT ![p] = t] BY <1>2
<1>5. UNCHANGED <<child, roles>> /\ Admissible(r) /\ Idle = {}
      /\ request' = [request EXCEPT ![r] = [phase |-> "cleaning", of |-> p]]
  BY DEF SpawnIsStuck, GoesWith
<1> HIDE DEF p, t
<1>6. /\ slot' \in [Processes -> Slot] /\ slot'[p] = t
      /\ \A q \in Processes : q # p => slot'[q] = slot[q]
  BY <1>1, <1>3, <1>4 DEF IInv, TypeOK
<1>7. ~slot[p].busy /\ slot[p].roles = {} /\ ~slot[p].quarantined /\ slot[p].place = "unused"
      /\ child[p] = NoRequest
  <2>1. SlotSound(p) /\ ChildSound(p) BY <1>1 DEF IInv, SlotsSound, ChildrenSound
  <2> QED BY <1>1, <2>1 DEF SlotSound, ChildSound, Unused
<1>8. /\ request' \in [Requests -> [phase : Phases, of : Processes \cup {0}]]
      /\ request'[r].of = p /\ request'[r].phase = "cleaning"
      /\ \A q \in Requests : q # r => request'[q] = request[q]
  <2> DEFINE e == [phase |-> "cleaning", of |-> p]
  <2>1. e \in [phase : Phases, of : Processes \cup {0}] /\ e.of = p /\ e.phase = "cleaning"
    BY <1>1 DEF Phases
  <2>2. request' = [request EXCEPT ![r] = e] BY <1>5
  <2> HIDE DEF e
  <2> QED BY <2>1, <2>2 DEF IInv, TypeOK
<1>9. TypeOK' BY <1>5, <1>6, <1>8, PoolTypes DEF IInv, TypeOK
<1>10. SlotsSound'
  <2> SUFFICES ASSUME NEW q \in Processes PROVE SlotSound(q)' BY DEF SlotsSound
  <2>1. SlotSound(q) BY DEF IInv, SlotsSound
  <2> QED BY <2>1, <1>3, <1>6 DEF SlotSound
<1>11. ChildrenSound' BY <1>5, <1>6, <1>7 DEF IInv, ChildrenSound, ChildSound
<1>12. ASSUME NEW q \in Requests PROVE RequestSound(q)'
  <2>1. RequestSound(q) BY DEF IInv, RequestsSound
  <2>2. CASE q = r BY <2>2, <1>1, <1>3, <1>6, <1>8 DEF RequestSound
  <2>3. CASE q # r BY <2>1, <2>3, <1>6, <1>7, <1>8 DEF RequestSound
  <2> QED BY <2>2, <2>3
<1>13. OneSlotPerTask' BY <1>3, <1>6 DEF IInv, OneSlotPerTask
<1>14. UsedFits'
  <2>1. Used' \subseteq Busy \cup Starting \cup {p}
    BY <1>5, <1>6 DEF Used, Idle, Busy, Listed, Starting
  <2> QED BY <2>1, <1>1, <1>5, NewFits DEF Admissible
<1>15. RolesAreCounted' /\ RolesFit'
  <2>1. \A q \in Processes : slot'[q].roles = slot[q].roles BY <1>3, <1>6, <1>7
  <2> QED BY <2>1, <1>5, SameCounts DEF IInv, RolesFit
<1> QED BY <1>9, <1>10, <1>11, <1>12, <1>13, <1>14, <1>15 DEF IInv, RequestsSound

\* One slot is written, and keeps its place and what it reserves.
LEMMA SlotWritten ==
  ASSUME IInv, [Next]_vars, NEW p \in Processes, NEW t \in Slot,
         slot' = [slot EXCEPT ![p] = t], UNCHANGED roles,
         t.place = slot[p].place, t.roles = slot[p].roles, t.busy = slot[p].busy,
         t.user = slot[p].user, t.quarantined = slot[p].quarantined,
         t.alive => slot[p].alive,
         request' \in [Requests -> [phase : Phases, of : Processes \cup {0}]],
         \A r \in Requests :
           \/ request'[r] = request[r]
           \/ /\ request'[r].phase = "working" /\ request[r].phase = "loading"
              /\ request'[r].of = request[r].of,
         child' \in [Processes -> Requests \cup {NoRequest}], ChildrenSound'
  PROVE  IInv'
PROOF
<1>1. /\ slot' \in [Processes -> Slot] /\ slot'[p] = t
      /\ \A q \in Processes : q # p => slot'[q] = slot[q]
  BY DEF IInv, TypeOK
<1>2. TypeOK' BY <1>1, PoolTypes DEF IInv, TypeOK
<1>3. SlotsSound'
  <2> SUFFICES ASSUME NEW q \in Processes PROVE SlotSound(q)' BY DEF SlotsSound
  <2>1. SlotSound(q) BY DEF IInv, SlotsSound
  <2> QED BY <2>1, <1>1 DEF SlotSound
<1>4. ASSUME NEW r \in Requests PROVE RequestSound(r)'
  <2>1. RequestSound(r) BY DEF IInv, RequestsSound
  <2> QED BY <2>1, <1>1 DEF RequestSound
<1>5. OneSlotPerTask' BY <1>1 DEF IInv, OneSlotPerTask
<1>6. UsedFits'
  <2>1. Used' = Used BY <1>1 DEF Used
  <2> QED BY <2>1 DEF IInv, UsedFits
<1>7. RolesAreCounted' /\ RolesFit'
  <2>1. \A q \in Processes : slot'[q].roles = slot[q].roles BY <1>1
  <2> QED BY <2>1, SameCounts DEF IInv, RolesFit
<1> QED BY <1>2, <1>3, <1>4, <1>5, <1>6, <1>7 DEF IInv, RequestsSound

\* The handshake ends, and the process gets the request its slot is lent to.
LEMMA ReadyKeeps ==
  ASSUME IInv, [Next]_vars, NEW r \in Requests, BecomesReady(r)
  PROVE  IInv'
PROOF
<1> DEFINE p == request[r].of
           t == [slot[p] EXCEPT !.ready = TRUE]
<1>1. p \in Processes /\ slot[p].busy /\ slot[p].user = r
  BY DEF BecomesReady, IInv, RequestsSound, RequestSound
<1>2. t \in Slot /\ t.place = slot[p].place /\ t.roles = slot[p].roles /\ t.busy = slot[p].busy
      /\ t.user = slot[p].user /\ t.quarantined = slot[p].quarantined /\ t.alive = slot[p].alive
  <2>1. slot[p] \in Slot BY <1>1 DEF IInv, TypeOK
  <2> QED BY <2>1 DEF Slot
<1>3. slot' = [slot EXCEPT ![p] = t] BY DEF BecomesReady
<1>4. /\ child' = [child EXCEPT ![p] = r] /\ UNCHANGED roles
      /\ request' = [request EXCEPT ![r] = [request[r] EXCEPT !.phase = "working"]]
      /\ request[r].phase = "loading"
  BY DEF BecomesReady, Goes
<1>5. /\ request' \in [Requests -> [phase : Phases, of : Processes \cup {0}]]
      /\ request'[r].phase = "working" /\ request'[r].of = request[r].of
      /\ \A q \in Requests : q # r => request'[q] = request[q]
  BY <1>4 DEF IInv, TypeOK, Phases
<1> HIDE DEF p, t
<1>6. child' \in [Processes -> Requests \cup {NoRequest}] /\ child'[p] = r
      /\ \A q \in Processes : q # p => child'[q] = child[q]
  BY <1>1, <1>4 DEF IInv, TypeOK
<1>7. slot'[p] = t /\ \A q \in Processes : q # p => slot'[q] = slot[q]
  BY <1>1, <1>3 DEF IInv, TypeOK
<1>8. ChildrenSound' BY <1>1, <1>2, <1>6, <1>7 DEF IInv, ChildrenSound, ChildSound
<1>9. \A q \in Requests :
        \/ request'[q] = request[q]
        \/ /\ request'[q].phase = "working" /\ request[q].phase = "loading"
           /\ request'[q].of = request[q].of
  BY <1>4, <1>5
<1> QED BY <1>1, <1>2, <1>3, <1>4, <1>5, <1>6, <1>8, <1>9, SlotWritten

LEMMA DeathKeeps ==
  ASSUME IInv, [Next]_vars, NEW p \in Processes, ProcessDies(p)
  PROVE  IInv'
PROOF
<1> DEFINE t == [slot[p] EXCEPT !.alive = FALSE]
<1>1. t \in Slot /\ t.place = slot[p].place /\ t.roles = slot[p].roles /\ t.busy = slot[p].busy
      /\ t.user = slot[p].user /\ t.quarantined = slot[p].quarantined /\ ~t.alive
  <2>1. slot[p] \in Slot BY DEF IInv, TypeOK
  <2> QED BY <2>1 DEF Slot
<1>2. slot' = [slot EXCEPT ![p] = t] /\ child' = [child EXCEPT ![p] = NoRequest]
      /\ UNCHANGED <<roles, request>>
  BY DEF ProcessDies
<1> HIDE DEF t
<1>3. /\ child' \in [Processes -> Requests \cup {NoRequest}] /\ child'[p] = NoRequest
      /\ \A q \in Processes : q # p => child'[q] = child[q] /\ slot'[q] = slot[q]
  BY <1>2 DEF IInv, TypeOK
<1>4. ChildrenSound' BY <1>3 DEF IInv, ChildrenSound, ChildSound
<1>5. request' \in [Requests -> [phase : Phases, of : Processes \cup {0}]]
  BY <1>2 DEF IInv, TypeOK
<1> QED BY <1>1, <1>2, <1>3, <1>4, <1>5, SlotWritten

\* A result is accepted: the slot is idle and its models are returned.
LEMMA FinishKeeps ==
  ASSUME IInv, [Next]_vars, NEW r \in Requests, Finish(r)
  PROVE  IInv'
PROOF
<1> DEFINE p == request[r].of
           t == [slot[p] EXCEPT !.busy = FALSE, !.roles = {}]
<1>1. p \in Processes /\ slot[p].busy /\ ~slot[p].quarantined /\ slot[p].user = r
  BY DEF Finish, IInv, RequestsSound, RequestSound
<1>2. t \in Slot /\ t.place = slot[p].place /\ t.roles = {} /\ ~t.busy
      /\ t.user = slot[p].user /\ ~t.quarantined /\ t.alive = slot[p].alive
  <2>1. slot[p] \in Slot BY <1>1 DEF IInv, TypeOK
  <2> QED BY <2>1, <1>1 DEF Slot
<1>3. slot' = [slot EXCEPT ![p] = t] BY DEF Finish
<1>4. /\ child' = [child EXCEPT ![p] = NoRequest] /\ roles' = RolesReturned(p)
      /\ request' = [request EXCEPT ![r] = [request[r] EXCEPT !.phase = "left"]]
  BY DEF Finish, Goes
<1>5. /\ request' \in [Requests -> [phase : Phases, of : Processes \cup {0}]]
      /\ request'[r].phase = "left"
      /\ \A q \in Requests : q # r => request'[q] = request[q]
  BY <1>4 DEF IInv, TypeOK, Phases
<1> HIDE DEF p, t
<1>6. /\ slot' \in [Processes -> Slot] /\ slot'[p] = t
      /\ \A q \in Processes : q # p => slot'[q] = slot[q]
  BY <1>1, <1>2, <1>3 DEF IInv, TypeOK
<1>7. /\ child' \in [Processes -> Requests \cup {NoRequest}] /\ child'[p] = NoRequest
      /\ \A q \in Processes : q # p => child'[q] = child[q]
  BY <1>1, <1>4 DEF IInv, TypeOK
<1>8. /\ RolesAreCounted' /\ roles' \in [Roles -> Nat]
      /\ \A x \in Roles : roles'[x] <= roles[x]
  BY <1>1, <1>2, <1>4, <1>6, ReturnCounts DEF IInv
<1>9. TypeOK' BY <1>5, <1>6, <1>7, <1>8, PoolTypes DEF IInv, TypeOK
<1>10. SlotsSound'
  <2> SUFFICES ASSUME NEW q \in Processes PROVE SlotSound(q)' BY DEF SlotsSound
  <2>1. SlotSound(q) BY DEF IInv, SlotsSound
  <2> QED BY <2>1, <1>2, <1>6 DEF SlotSound
<1>11. ChildrenSound' BY <1>6, <1>7 DEF IInv, ChildrenSound, ChildSound
<1>12. ASSUME NEW q \in Requests PROVE RequestSound(q)'
  <2>1. RequestSound(q) BY DEF IInv, RequestsSound
  <2>2. CASE q = r BY <2>2, <1>5 DEF RequestSound
  <2>3. CASE q # r
    BY <2>1, <2>3, <1>1, <1>2, <1>5, <1>6 DEF RequestSound
  <2> QED BY <2>2, <2>3
<1>13. OneSlotPerTask' BY <1>2, <1>6 DEF IInv, OneSlotPerTask
<1>14. UsedFits'
  <2>1. Used' = Used BY <1>2, <1>6 DEF Used
  <2> QED BY <2>1 DEF IInv, UsedFits
<1>15. RolesFit' BY <1>8, PoolAssumption DEF IInv, RolesFit, TypeOK
<1> QED BY <1>8, <1>9, <1>10, <1>11, <1>12, <1>13, <1>14, <1>15 DEF IInv, RequestsSound

\* A request moves, and keeps the process it has.
LEMMA Moved ==
  ASSUME TypeOK, NEW r \in Requests, NEW phase \in Phases, Goes(r, phase)
  PROVE  /\ request' \in [Requests -> [phase : Phases, of : Processes \cup {0}]]
         /\ request'[r].phase = phase /\ request'[r].of = request[r].of
         /\ \A q \in Requests : q # r => request'[q] = request[q]
PROOF
<1>1. request' = [request EXCEPT ![r] = [request[r] EXCEPT !.phase = phase]] BY DEF Goes
<1> QED BY <1>1 DEF TypeOK

\* What the clean-ups kill is no execution's own: stuck, or lent to nobody.
LEMMA NobodyRelies ==
  ASSUME IInv, NEW p \in Processes,
         slot[p].place # "listed" \/ ~slot[p].busy \/ slot[p].quarantined
  PROVE  \A r \in Requests : request[r].phase \in {"loading", "working", "ending"} => request[r].of # p
PROOF
<1> SUFFICES ASSUME NEW r \in Requests, request[r].phase \in {"loading", "working", "ending"},
                    request[r].of = p
             PROVE  FALSE
  OBVIOUS
<1>1. slot[p].busy /\ ~slot[p].quarantined BY DEF IInv, RequestsSound, RequestSound
<1>2. slot[p].place = "listed" BY <1>1 DEF IInv, SlotsSound, SlotSound
<1> QED BY <1>1, <1>2

LEMMA RequestStep ==
  ASSUME IInv, [Next]_vars, NEW r \in Requests,
         \/ Ask(r) \/ GiveUp(r) \/ SpawnFails(r) \/ Break(r)
  PROVE  IInv'
PROOF
<1> USE DEF Phases
<1>0. TypeOK BY DEF IInv
<1>1. CASE Ask(r)
  <2>1. Goes(r, "waiting") \/ Goes(r, "left") BY <1>1 DEF Ask
  <2>2. UNCHANGED <<slot, child, roles>> BY <1>1 DEF Ask
  <2> QED BY <2>1, <2>2, <1>0, Moved, SlotsStay
<1>2. CASE GiveUp(r)
  <2>1. Goes(r, "left") /\ UNCHANGED <<slot, child, roles>> BY <1>2 DEF GiveUp
  <2> QED BY <2>1, <1>0, Moved, SlotsStay
<1>3. CASE SpawnFails(r)
  <2>1. Goes(r, "left") /\ UNCHANGED <<slot, child, roles>> BY <1>3 DEF SpawnFails
  <2> QED BY <2>1, <1>0, Moved, SlotsStay
<1>4. CASE Break(r)
  <2>1. Goes(r, "ending") /\ UNCHANGED <<slot, child, roles>>
        /\ request[r].phase \in {"loading", "working"}
    BY <1>4 DEF Break
  <2> QED BY <2>1, <1>0, Moved, SlotsStay
<1> QED BY <1>1, <1>2, <1>3, <1>4

LEMMA RetireFailsKeeps ==
  ASSUME IInv, [Next]_vars, NEW r \in Requests, RetireFails(r)
  PROVE  IInv'
PROOF
<1>1. Goes(r, "left") /\ "left" \in Phases BY DEF RetireFails, Phases
<1>2. PICK p \in Dead : Survives(p, slot[p]) BY DEF RetireFails
<1>3. p \in Processes BY DEF Dead, Idle, Listed
<1>4. /\ request' \in [Requests -> [phase : Phases, of : Processes \cup {0}]]
      /\ request'[r].phase = "left"
      /\ \A q \in Requests : q # r => request'[q] = request[q]
  BY <1>1, Moved DEF IInv
<1> QED BY <1>2, <1>3, <1>4, SurvivalKeeps

LEMMA TerminateKeeps ==
  ASSUME IInv, [Next]_vars, NEW r \in Requests, Terminate(r)
  PROVE  IInv'
PROOF
<1> DEFINE p == request[r].of
<1>1. p \in Processes /\ slot[p].busy /\ ~slot[p].quarantined /\ slot[p].user = r
  BY DEF Terminate, IInv, RequestsSound, RequestSound
<1>2. \A q \in Requests :
        q # r /\ request[q].phase \in {"loading", "working", "ending"} => request[q].of # p
  BY <1>1 DEF IInv, RequestsSound, RequestSound
<1>3. CASE Killed(p) /\ Goes(r, "left")
  <2>1. /\ request' \in [Requests -> [phase : Phases, of : Processes \cup {0}]]
        /\ request'[r].phase = "left"
        /\ \A q \in Requests : q # r => request'[q] = request[q]
    BY <1>3, Moved DEF IInv, Phases
  <2> HIDE DEF p
  <2> QED BY <2>1, <1>1, <1>2, <1>3, KillKeeps
<1>4. CASE Survives(p, Quarantined(p)) /\ Goes(r, "cleaning")
  <2>1. /\ request' \in [Requests -> [phase : Phases, of : Processes \cup {0}]]
        /\ request'[r].phase = "cleaning" /\ request'[r].of = p
        /\ \A q \in Requests : q # r => request'[q] = request[q]
    BY <1>4, Moved DEF IInv, Phases
  <2> HIDE DEF p
  <2> DEFINE s == Quarantined(p)
  <2>2. s \in {slot[p], Quarantined(p)} /\ Survives(p, s) /\ (s = slot[p] \/ slot[p].busy)
    BY <1>1, <1>4
  <2>3. \A q \in Requests :
          \/ request'[q] = request[q]
          \/ request'[q].phase = "left"
          \/ request'[q].phase = "cleaning" /\ request'[q].of = p /\ s = Quarantined(p)
    BY <2>1
  <2>4. \A q \in Requests :
          request'[q].phase \in {"loading", "working", "ending"} =>
            request'[q].of # p \/ s = slot[p]
    BY <2>1, <1>2
  <2> HIDE DEF s
  <2> QED BY <2>1, <2>2, <2>3, <2>4, <1>1, SurvivalKeeps
<1> QED BY <1>3, <1>4 DEF Terminate

LEMMA ReapKeeps ==
  ASSUME IInv, [Next]_vars, NEW r \in Requests, Reap(r)
  PROVE  IInv'
PROOF
<1> DEFINE p == request[r].of
<1>1. p \in Processes /\ (slot[p].place \in {"starting", "gone"} \/ slot[p].quarantined)
  BY DEF Reap, IInv, RequestsSound, RequestSound
<1>2. /\ request' \in [Requests -> [phase : Phases, of : Processes \cup {0}]]
      /\ request'[r].phase = "left"
      /\ \A q \in Requests : q # r => request'[q] = request[q]
  BY Moved DEF IInv, Phases, Reap
<1>3. CASE Killed(p)
  <2>1. \A q \in Requests : request[q].phase \in {"loading", "working", "ending"} => request[q].of # p
    BY <1>1, NobodyRelies
  <2> HIDE DEF p
  <2> QED BY <2>1, <1>1, <1>2, <1>3, KillKeeps
<1>4. CASE UNCHANGED <<slot, child, roles>> BY <1>2, <1>4, SlotsStay
<1> QED BY <1>3, <1>4 DEF Reap

\* The scheduler and the shutdown kill, or fail to kill, one process.
LEMMA CleanUpKeeps ==
  ASSUME IInv, [Next]_vars, NEW p \in Processes, CleanUp(p) \/ ShutdownKills(p)
  PROVE  IInv'
PROOF
<1>1. UNCHANGED request BY DEF CleanUp, ShutdownKills
<1>2. slot[p].place # "listed" \/ ~slot[p].busy \/ slot[p].quarantined
  BY DEF CleanUp, ShutdownKills, Starting, Idle, Busy, Listed
<1>3. \A r \in Requests : request[r].phase \in {"loading", "working", "ending"} => request[r].of # p
  BY <1>2, NobodyRelies
<1>4. request' \in [Requests -> [phase : Phases, of : Processes \cup {0}]]
  BY <1>1 DEF IInv, TypeOK
<1>5. CASE Killed(p) BY <1>1, <1>3, <1>4, <1>5, KillKeeps
<1>6. CASE Survives(p, slot[p]) BY <1>1, <1>4, <1>6, SurvivalKeeps
<1> QED BY <1>5, <1>6 DEF CleanUp, ShutdownKills

LEMMA StepKeeps == IInv /\ [Next]_vars => IInv'
PROOF
<1> SUFFICES ASSUME IInv, [Next]_vars PROVE IInv' OBVIOUS
<1>1. ASSUME UNCHANGED <<slot, child, roles, request>> PROVE IInv'
  <2>1. request' \in [Requests -> [phase : Phases, of : Processes \cup {0}]]
    BY <1>1 DEF IInv, TypeOK
  <2> QED BY <1>1, <2>1, SlotsStay
<1>2. ASSUME NEW r \in Requests,
             \/ Ask(r) \/ GiveUp(r) \/ Admit(r) \/ RetireFails(r) \/ SpawnFails(r)
             \/ SpawnIsStuck(r) \/ BecomesReady(r) \/ Finish(r) \/ Break(r)
             \/ Terminate(r) \/ Reap(r)
      PROVE  IInv'
  BY <1>2, RequestStep, AdmitKeeps, RetireFailsKeeps, StuckKeeps, ReadyKeeps, FinishKeeps,
     TerminateKeeps, ReapKeeps
<1>3. ASSUME NEW p \in Processes, ProcessDies(p) \/ CleanUp(p) \/ ShutdownKills(p) PROVE IInv'
  BY <1>3, DeathKeeps, CleanUpKeeps
<1>4. CASE Shutdown \/ ShutdownEnds \/ Restart
  BY <1>1, <1>4 DEF Shutdown, ShutdownEnds, Restart
<1>5. CASE UNCHANGED vars BY <1>1, <1>5 DEF vars
<1> QED BY <1>2, <1>3, <1>4, <1>5 DEF Next

LEMMA InitHolds == Init => IInv
PROOF
<1> SUFFICES ASSUME Init PROVE IInv OBVIOUS
<1> DEFINE unused == Absent("unused")
<1>1. unused \in Slot /\ unused.place = "unused" /\ unused.roles = {} /\ ~unused.busy
      /\ ~unused.alive /\ ~unused.quarantined
  BY DEF Absent, Slot, Places
<1>2. slot = [p \in Processes |-> unused] BY DEF Init
<1> HIDE DEF unused
<1>3. TypeOK BY <1>1, <1>2 DEF Init, TypeOK, Pools, Phases
<1>4. SlotsSound /\ ChildrenSound /\ OneSlotPerTask
  BY <1>1, <1>2 DEF Init, SlotsSound, SlotSound, ChildrenSound, ChildSound, OneSlotPerTask
<1>5. RequestsSound BY DEF Init, RequestsSound, RequestSound
<1>6. UsedFits
  <2>1. Used = {} BY <1>1, <1>2 DEF Used
  <2> QED BY <2>1, FS_EmptySet, PoolAssumption DEF UsedFits
<1>7. RolesAreCounted /\ RolesFit
  <2> SUFFICES ASSUME NEW x \in Roles
               PROVE  roles[x] = Cardinality(Reserving(x)) /\ roles[x] <= RoleLimit
    BY DEF RolesAreCounted, RolesFit, Reserving
  <2>1. Reserving(x) = {} BY <1>1, <1>2 DEF Reserving
  <2>2. roles[x] = 0 BY DEF Init
  <2> QED BY <2>1, <2>2, FS_EmptySet, PoolAssumption
<1> QED BY <1>3, <1>4, <1>5, <1>6, <1>7 DEF IInv
-----------------------------------------------------------------------------
\* The theorems.

\* The invariant the others follow from.
THEOREM Invariance == Spec => []IInv
PROOF BY InitHolds, StepKeeps, PTL DEF Spec

\* A model is counted once for each slot that reserves it, whoever cleans up.
THEOREM ReservationsAreCounted == Spec => []RolesAreCounted
PROOF
<1>1. IInv => RolesAreCounted BY DEF IInv
<1> QED BY <1>1, Invariance, PTL

\* Living processes and the models they may have loaded stay within the limits,
\* stuck ones included.
THEOREM LimitsHold == Spec => []QuotasAreKept
PROOF
<1>1. IInv => QuotasAreKept
  <2> SUFFICES ASSUME IInv PROVE QuotasAreKept OBVIOUS
  <2>1. Cardinality({p \in Processes : slot[p].alive}) <= MaxSlots
    <3> DEFINE A == {p \in Processes : slot[p].alive}
    <3>1. A \in SUBSET Used /\ Used \in SUBSET Processes
      BY DEF IInv, SlotsSound, SlotSound, Used
    <3>2. Cardinality(A) <= Cardinality(Used) BY <3>1, SmallerCounts
    <3>3. Cardinality(A) \in Nat /\ Cardinality(Used) \in Nat BY <3>1, ProcessesAreFinite
    <3>4. Cardinality(Used) <= MaxSlots /\ MaxSlots \in Nat
      BY PoolAssumption DEF IInv, UsedFits
    <3> HIDE DEF A
    <3>5. Cardinality(A) <= MaxSlots BY <3>2, <3>3, <3>4
    <3> QED BY <3>5 DEF A
  <2>2. \A x \in Roles : Cardinality({p \in Processes : x \in slot[p].roles}) <= RoleLimit
    BY DEF IInv, RolesAreCounted, RolesFit
  <2> QED BY <2>1, <2>2 DEF QuotasAreKept
<1> QED BY <1>1, Invariance, PTL

\* Two processes never work for one task.
THEOREM TasksHaveOneProcess == Spec => []OneProcessPerTask
PROOF
<1>1. IInv => OneProcessPerTask
  BY DEF IInv, ChildrenSound, ChildSound, OneSlotPerTask, OneProcessPerTask
<1> QED BY <1>1, Invariance, PTL

\* What a process works for can be seen by those who settle a cancellation or
\* take a lease over.
THEOREM WorkIsNeverHidden == Spec => []WorkIsVisible
PROOF
<1>1. IInv => WorkIsVisible
  <2> SUFFICES ASSUME IInv, NEW p \in Processes, child[p] # NoRequest
               PROVE  HasActiveTask(child[p])
    BY DEF WorkIsVisible
  <2>1. slot[p].busy /\ slot[p].user = child[p] BY DEF IInv, ChildrenSound, ChildSound
  <2>2. slot[p].place = "listed" BY <2>1 DEF IInv, SlotsSound, SlotSound
  <2> QED BY <2>1, <2>2 DEF HasActiveTask, Busy, Listed
<1> QED BY <1>1, Invariance, PTL
=============================================================================
