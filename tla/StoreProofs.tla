---------------------------- MODULE StoreProofs ----------------------------
(***************************************************************************)
(* What the tasks around the Store keep: the background settlements that   *)
(* write to it (Settlement) and the management calls and discovery loops   *)
(* that share its sessions (Management), for every value of the constants. *)
(*                                                                         *)
(* Settlement.  Each counter is tied to the set of settlements between its *)
(* increment and its decrement.  An action moves one settlement in or out  *)
(* of at most a few of these sets, and CardAdd and CardRemove carry the    *)
(* move over to the counter.                                               *)
(*                                                                         *)
(* Management.  The invariant has one part per actor: what each caller     *)
(* knows of the tables it was answered from (CallersInv), whose statement  *)
(* each SQLite lane runs (LanesInv), what each connection and permit       *)
(* is held for (PoolInv) and where each discovery loop is (FindersInv).    *)
(* Every statement of Directory keeps the tables sound; what it answers    *)
(* is related once, per statement, to the namespaces present then, and     *)
(* the rest of the proof carries that relation to the caller's answer.     *)
(***************************************************************************)
EXTENDS Settlement, Management, FiniteSetTheorems, WellFoundedInduction, TLAPS

\* The stage a guard was given agrees with the place of its task, so Drop
\* leaves the counter that was entered.
StageMatches ==
  \A w \in Work :
    /\ pc[w] \in {"executing", "overdue", "exiting"} => stage[w] = "Executing"
    /\ pc[w] \in {"free", "permitted", "reserved", "consumed", "drawn", "listed", "counted",
                  "spawned", "waiting", "granted", "cutover"} => stage[w] = "Queued"

\* The inductive invariant.
IInv == TypeOK /\ StageMatches /\ CapacityConserved /\ SlotsConserved /\ CountersExact

-----------------------------------------------------------------------------
(* Counting *)

\* A set of settlements is finite.
LEMMA WorkFinite ==
  ASSUME NEW S \in SUBSET Work
  PROVE  IsFiniteSet(S) /\ Cardinality(S) \in Nat
  BY FS_Subset, FS_CardinalityType, SettlementAssumption

\* Adding one settlement moves a count up by one.
LEMMA CardAdd ==
  ASSUME NEW S \in SUBSET Work, NEW w \in Work, w \notin S
  PROVE  Cardinality(S \cup {w}) = Cardinality(S) + 1
  BY WorkFinite, FS_AddElement

\* Removing one moves it down by one, and it was positive.
LEMMA CardRemove ==
  ASSUME NEW S \in SUBSET Work, NEW w \in S
  PROVE  Cardinality(S \ {w}) = Cardinality(S) - 1 /\ Cardinality(S) > 0
<1>1. Cardinality(S \ {w}) = Cardinality(S) - 1
  BY WorkFinite, FS_RemoveElement
<1>2. S \ {w} \in SUBSET Work
  OBVIOUS
<1> QED
  BY <1>1, <1>2, WorkFinite

-----------------------------------------------------------------------------
(* One lemma per part of the invariant: what each action does to it *)

\* Only start_executing changes a guard's stage, and it moves the task to
\* "executing".
LEMMA StageStep == TypeOK /\ StageMatches /\ [Next]_vars => StageMatches'
<1> SUFFICES ASSUME TypeOK, StageMatches, [Next]_vars PROVE StageMatches'
  OBVIOUS
<1> USE DEF TypeOK, StageMatches, Places
<1>1. ASSUME NEW w \in Work, Reservation(w) \/ Enqueue(w) PROVE StageMatches'
  BY <1>1 DEF Reservation, TakePermit, CountReserved, RefuseReserve, DropReservation,
     ReturnPermit, Enqueue, Consume, Draw, List, CountQueued, CountSpawned, At, guardVars
<1>2. ASSUME NEW w \in Work, Task(w) PROVE StageMatches'
  BY <1>2 DEF Task, PollSlot, AcquireSlot, QueueTimeout, LeaveQueue, StartRunning,
     FutureEnds, MissDeadline, LateEnd, AbortWaiting, AbortRunning, DropSlot, At, guardVars
<1>3. ASSUME NEW w \in Work, GuardDrop(w) PROVE StageMatches'
  BY <1>3 DEF GuardDrop, LeaveStage, UncountSpawned, Unlist, Announce, DropPermit, At,
     guardVars
<1>4. CASE AwaitIdle \/ Teardown \/ Exited \/ UNCHANGED vars
  BY <1>4 DEF AwaitIdle, Subscribe, Check, Wake, WaitTimeout, Report, Teardown, Exited,
     vars, guardVars
<1> QED
  BY <1>1, <1>2, <1>3, <1>4 DEF Next

\* A permit is owned from TakePermit to ReturnPermit or DropPermit.
LEMMA CapacityStep ==
  TypeOK /\ CapacityConserved /\ [Next]_vars => CapacityConserved'
<1> SUFFICES ASSUME TypeOK, CapacityConserved, [Next]_vars, MaxPending # 0
             PROVE  pending' + Cardinality(Permitted') = MaxPending
  BY DEF CapacityConserved
<1> USE DEF TypeOK
<1>a. Permitted \in SUBSET Work /\ Cardinality(Permitted) \in Nat
  BY WorkFinite DEF Permitted
<1>b. pending + Cardinality(Permitted) = MaxPending
  BY DEF CapacityConserved
<1>1. ASSUME NEW w \in Work, TakePermit(w)
      PROVE  pending' + Cardinality(Permitted') = MaxPending
  <2>1. w \notin Permitted /\ Permitted' = Permitted \cup {w} /\ pending' = pending - 1
    BY <1>1 DEF TakePermit, At, Places, PermitPlaces, Permitted
  <2>2. Cardinality(Permitted') = Cardinality(Permitted) + 1
    BY <2>1, <1>a, CardAdd
  <2> QED
    BY <2>1, <2>2, <1>a, <1>b, SettlementAssumption
<1>2. ASSUME NEW w \in Work, ReturnPermit(w) \/ DropPermit(w)
      PROVE  pending' + Cardinality(Permitted') = MaxPending
  <2>1. w \in Permitted /\ Permitted' = Permitted \ {w} /\ pending' = pending + 1
    BY <1>2 DEF ReturnPermit, DropPermit, ReleasePermit, At, Places, PermitPlaces, Permitted
  <2>2. Cardinality(Permitted') = Cardinality(Permitted) - 1
    BY <2>1, <1>a, CardRemove
  <2> QED
    BY <2>1, <2>2, <1>a, <1>b, SettlementAssumption
<1>3. ASSUME NEW w \in Work,
             \/ CountReserved(w) \/ RefuseReserve(w) \/ DropReservation(w)
             \/ Enqueue(w)
      PROVE  Permitted' = Permitted /\ pending' = pending
  BY <1>3 DEF CountReserved, RefuseReserve, DropReservation, Enqueue, Consume, Draw, List,
     CountQueued, CountSpawned, At, semaphores, Places, PermitPlaces, Permitted
<1>4. ASSUME NEW w \in Work, Task(w)
      PROVE  Permitted' = Permitted /\ pending' = pending
  BY <1>4 DEF Task, PollSlot, AcquireSlot, QueueTimeout, LeaveQueue, StartRunning,
     FutureEnds, MissDeadline, LateEnd, AbortWaiting, AbortRunning, DropSlot, At, semaphores, Places, PermitPlaces, Permitted
<1>5. ASSUME NEW w \in Work,
             LeaveStage(w) \/ UncountSpawned(w) \/ Unlist(w) \/ Announce(w)
      PROVE  Permitted' = Permitted /\ pending' = pending
  BY <1>5 DEF LeaveStage, UncountSpawned, Unlist, Announce, At, semaphores, Places, PermitPlaces, Permitted
<1>6. CASE AwaitIdle \/ Teardown \/ Exited \/ UNCHANGED vars
  BY <1>6, <1>b DEF AwaitIdle, Subscribe, Check, Wake, WaitTimeout, Report, Teardown,
     Exited, vars, semaphores, Permitted
<1> QED
  BY <1>1, <1>2, <1>3, <1>4, <1>5, <1>6, <1>b DEF Next, Reservation, GuardDrop

\* An execution slot is owned from AcquireSlot to DropSlot, a missed deadline
\* in between included.
LEMMA SlotsStep ==
  TypeOK /\ SlotsConserved /\ [Next]_vars => SlotsConserved'
<1> SUFFICES ASSUME TypeOK, SlotsConserved, [Next]_vars, MaxInFlight # 0
             PROVE  executing' + Cardinality(Slotted') = MaxInFlight
  BY DEF SlotsConserved
<1> USE DEF TypeOK
<1>a. Slotted \in SUBSET Work /\ Cardinality(Slotted) \in Nat
  BY WorkFinite DEF Slotted
<1>b. executing + Cardinality(Slotted) = MaxInFlight
  BY DEF SlotsConserved
<1>1. ASSUME NEW w \in Work, AcquireSlot(w)
      PROVE  executing' + Cardinality(Slotted') = MaxInFlight
  <2>1. w \notin Slotted /\ Slotted' = Slotted \cup {w} /\ executing' = executing - 1
    BY <1>1 DEF AcquireSlot, At, Places, SlotPlaces, Slotted
  <2>2. Cardinality(Slotted') = Cardinality(Slotted) + 1
    BY <2>1, <1>a, CardAdd
  <2> QED
    BY <2>1, <2>2, <1>a, <1>b, SettlementAssumption
<1>2. ASSUME NEW w \in Work, DropSlot(w)
      PROVE  executing' + Cardinality(Slotted') = MaxInFlight
  <2>1. w \in Slotted /\ Slotted' = Slotted \ {w} /\ executing' = executing + 1
    BY <1>2 DEF DropSlot, At, Places, SlotPlaces, Slotted
  <2>2. Cardinality(Slotted') = Cardinality(Slotted) - 1
    BY <2>1, <1>a, CardRemove
  <2> QED
    BY <2>1, <2>2, <1>a, <1>b, SettlementAssumption
<1>3. ASSUME NEW w \in Work, Reservation(w) \/ Enqueue(w)
      PROVE  Slotted' = Slotted /\ executing' = executing
  BY <1>3 DEF Reservation, TakePermit, CountReserved, RefuseReserve, DropReservation,
     ReturnPermit, Enqueue, Consume, Draw, List, CountQueued, CountSpawned, At, semaphores, Places, SlotPlaces, Slotted
<1>4. ASSUME NEW w \in Work,
             \/ PollSlot(w) \/ QueueTimeout(w) \/ LeaveQueue(w) \/ StartRunning(w)
             \/ FutureEnds(w) \/ MissDeadline(w) \/ LateEnd(w)
             \/ AbortWaiting(w) \/ AbortRunning(w)
      PROVE  Slotted' = Slotted /\ executing' = executing
  BY <1>4 DEF PollSlot, QueueTimeout, LeaveQueue, StartRunning, FutureEnds, MissDeadline,
     LateEnd, AbortWaiting, AbortRunning, At, semaphores, Places, SlotPlaces, Slotted
<1>5. ASSUME NEW w \in Work, GuardDrop(w)
      PROVE  Slotted' = Slotted /\ executing' = executing
  BY <1>5 DEF GuardDrop, LeaveStage, UncountSpawned, Unlist, Announce, DropPermit, At,
     semaphores, Places, SlotPlaces, Slotted
<1>6. CASE AwaitIdle \/ Teardown \/ Exited \/ UNCHANGED vars
  BY <1>6, <1>b DEF AwaitIdle, Subscribe, Check, Wake, WaitTimeout, Report, Teardown,
     Exited, vars, semaphores, Slotted
<1> QED
  BY <1>1, <1>2, <1>3, <1>4, <1>5, <1>6, <1>b DEF Next, Task

\* The four counters: each action moves at most one settlement in or out of
\* each set, with the counter's own fetch_add or fetch_sub.
LEMMA CountersStep ==
  TypeOK /\ StageMatches /\ CountersExact /\ [Next]_vars => CountersExact'
<1> SUFFICES ASSUME TypeOK, StageMatches, CountersExact, [Next]_vars PROVE CountersExact'
  OBVIOUS
<1> DEFINE Same == /\ InReserved' = InReserved /\ InQueued' = InQueued
                   /\ InRunning' = InRunning /\ Tracked' = Tracked
                   /\ UNCHANGED counters
<1> USE DEF TypeOK, Places
<1>a. /\ InReserved \in SUBSET Work /\ InQueued \in SUBSET Work
      /\ InRunning \in SUBSET Work /\ Tracked \in SUBSET Work
  BY DEF InReserved, InQueued, InRunning, Tracked
<1>b. ASSUME Same PROVE CountersExact'
  BY <1>b DEF CountersExact, counters
<1>1. ASSUME NEW w \in Work, CountReserved(w) PROVE CountersExact'
  <2>1. /\ w \notin InReserved /\ InReserved' = InReserved \cup {w} /\ reserved' = reserved + 1
        /\ InQueued' = InQueued /\ InRunning' = InRunning /\ Tracked' = Tracked
        /\ UNCHANGED <<queued, running, spawned>>
    BY <1>1 DEF CountReserved, At, guardVars, InReserved, InQueued, InRunning, Tracked, TrackedPlaces
  <2>2. Cardinality(InReserved') = Cardinality(InReserved) + 1
    BY <2>1, <1>a, CardAdd
  <2> QED
    BY <2>1, <2>2 DEF CountersExact
<1>2. ASSUME NEW w \in Work, DropReservation(w) \/ Consume(w) PROVE CountersExact'
  <2>1. /\ w \in InReserved /\ InReserved' = InReserved \ {w} /\ reserved' = reserved - 1
        /\ InQueued' = InQueued /\ InRunning' = InRunning /\ Tracked' = Tracked
        /\ UNCHANGED <<queued, running, spawned>>
    BY <1>2 DEF DropReservation, Consume, At, guardVars, InReserved, InQueued, InRunning,
       Tracked, TrackedPlaces
  <2>2. Cardinality(InReserved') = Cardinality(InReserved) - 1
    BY <2>1, <1>a, CardRemove
  <2> QED
    BY <2>1, <2>2 DEF CountersExact
<1>3. ASSUME NEW w \in Work, CountQueued(w) PROVE CountersExact'
  <2>1. /\ w \notin InQueued /\ InQueued' = InQueued \cup {w} /\ queued' = queued + 1
        /\ InReserved' = InReserved /\ InRunning' = InRunning /\ Tracked' = Tracked
        /\ UNCHANGED <<reserved, running, spawned>>
    BY <1>3 DEF CountQueued, At, guardVars, InReserved, InQueued, InRunning, Tracked, TrackedPlaces
  <2>2. Cardinality(InQueued') = Cardinality(InQueued) + 1
    BY <2>1, <1>a, CardAdd
  <2> QED
    BY <2>1, <2>2 DEF CountersExact
<1>4. ASSUME NEW w \in Work, LeaveQueue(w) \/ (LeaveStage(w) /\ stage[w] = "Queued")
      PROVE  CountersExact'
  <2>1. /\ w \in InQueued /\ InQueued' = InQueued \ {w} /\ queued' = queued - 1
        /\ InReserved' = InReserved /\ InRunning' = InRunning /\ Tracked' = Tracked
        /\ UNCHANGED <<reserved, running, spawned>>
    BY <1>4 DEF LeaveQueue, LeaveStage, At, guardVars, InReserved, InQueued, InRunning,
       Tracked, TrackedPlaces
  <2>2. Cardinality(InQueued') = Cardinality(InQueued) - 1
    BY <2>1, <1>a, CardRemove
  <2> QED
    BY <2>1, <2>2 DEF CountersExact
<1>5. ASSUME NEW w \in Work, StartRunning(w) PROVE CountersExact'
  <2>1. /\ w \notin InRunning /\ InRunning' = InRunning \cup {w} /\ running' = running + 1
        /\ InReserved' = InReserved /\ InQueued' = InQueued /\ Tracked' = Tracked
        /\ UNCHANGED <<reserved, queued, spawned>>
    BY <1>5 DEF StartRunning, At, InReserved, InQueued, InRunning, Tracked, TrackedPlaces
  <2>2. Cardinality(InRunning') = Cardinality(InRunning) + 1
    BY <2>1, <1>a, CardAdd
  <2> QED
    BY <2>1, <2>2 DEF CountersExact
<1>6. ASSUME NEW w \in Work, LeaveStage(w), stage[w] = "Executing" PROVE CountersExact'
  <2>1. /\ w \in InRunning /\ InRunning' = InRunning \ {w} /\ running' = running - 1
        /\ InReserved' = InReserved /\ InQueued' = InQueued /\ Tracked' = Tracked
        /\ UNCHANGED <<reserved, queued, spawned>>
    BY <1>6 DEF LeaveStage, At, guardVars, InReserved, InQueued, InRunning, Tracked, TrackedPlaces
  <2>2. Cardinality(InRunning') = Cardinality(InRunning) - 1
    BY <2>1, <1>a, CardRemove
  <2> QED
    BY <2>1, <2>2 DEF CountersExact
<1>7. ASSUME NEW w \in Work, CountSpawned(w) PROVE CountersExact'
  <2>1. /\ w \notin Tracked /\ Tracked' = Tracked \cup {w} /\ spawned' = spawned + 1
        /\ InReserved' = InReserved /\ InQueued' = InQueued /\ InRunning' = InRunning
        /\ UNCHANGED <<reserved, queued, running>>
    BY <1>7 DEF CountSpawned, At, guardVars, InReserved, InQueued, InRunning, Tracked, TrackedPlaces
  <2>2. Cardinality(Tracked') = Cardinality(Tracked) + 1
    BY <2>1, <1>a, CardAdd
  <2> QED
    BY <2>1, <2>2 DEF CountersExact
<1>8. ASSUME NEW w \in Work, UncountSpawned(w) PROVE CountersExact'
  <2>1. /\ w \in Tracked /\ Tracked' = Tracked \ {w} /\ spawned' = spawned - 1
        /\ InReserved' = InReserved /\ InQueued' = InQueued /\ InRunning' = InRunning
        /\ UNCHANGED <<reserved, queued, running>>
    BY <1>8 DEF UncountSpawned, At, guardVars, InReserved, InQueued, InRunning, Tracked, TrackedPlaces
  <2>2. Cardinality(Tracked') = Cardinality(Tracked) - 1
    BY <2>1, <1>a, CardRemove
  <2> QED
    BY <2>1, <2>2 DEF CountersExact
<1>9. ASSUME NEW w \in Work,
             TakePermit(w) \/ RefuseReserve(w) \/ ReturnPermit(w) \/ Draw(w) \/ List(w)
      PROVE  Same
  <2>1. CASE TakePermit(w)
    BY <2>1 DEF TakePermit, At, guardVars, counters,
       InReserved, InQueued, InRunning, Tracked, TrackedPlaces
  <2>2. CASE RefuseReserve(w)
    BY <2>2 DEF RefuseReserve, At, guardVars, counters,
       InReserved, InQueued, InRunning, Tracked, TrackedPlaces
  <2>3. CASE ReturnPermit(w)
    BY <2>3 DEF ReturnPermit, At, guardVars, counters,
       InReserved, InQueued, InRunning, Tracked, TrackedPlaces
  <2>4. CASE Draw(w)
    BY <2>4 DEF Draw, At, guardVars, counters,
       InReserved, InQueued, InRunning, Tracked, TrackedPlaces
  <2>5. CASE List(w)
    BY <2>5 DEF List, At, guardVars, counters,
       InReserved, InQueued, InRunning, Tracked, TrackedPlaces
  <2> QED
    BY <1>9, <2>1, <2>2, <2>3, <2>4, <2>5
<1>10. ASSUME NEW w \in Work, PollSlot(w) \/ AcquireSlot(w) \/ QueueTimeout(w) PROVE Same
  <2>1. CASE PollSlot(w)
    BY <2>1 DEF StageMatches, PollSlot, At, guardVars, counters,
       InReserved, InQueued, InRunning, Tracked, TrackedPlaces
  <2>2. CASE AcquireSlot(w)
    BY <2>2 DEF StageMatches, AcquireSlot, At, guardVars, counters,
       InReserved, InQueued, InRunning, Tracked, TrackedPlaces
  <2>3. CASE QueueTimeout(w)
    BY <2>3 DEF StageMatches, QueueTimeout, At, guardVars, counters,
       InReserved, InQueued, InRunning, Tracked, TrackedPlaces
  <2> QED
    BY <1>10, <2>1, <2>2, <2>3
<1>11. ASSUME NEW w \in Work,
             FutureEnds(w) \/ MissDeadline(w) \/ LateEnd(w) \/ AbortRunning(w) \/ DropSlot(w)
       PROVE  Same
  BY <1>11 DEF StageMatches, FutureEnds, MissDeadline, LateEnd, AbortRunning, DropSlot, At,
     guardVars, counters, InReserved, InQueued, InRunning, Tracked, TrackedPlaces
<1>12. ASSUME NEW w \in Work, AbortWaiting(w) PROVE Same
  BY <1>12 DEF StageMatches, AbortWaiting, At, guardVars, counters, InReserved, InQueued,
     InRunning, Tracked, TrackedPlaces
<1>13. ASSUME NEW w \in Work, Unlist(w) \/ Announce(w) \/ DropPermit(w) PROVE Same
  BY <1>13 DEF Unlist, Announce, DropPermit, At, guardVars, counters, InReserved, InQueued,
     InRunning, Tracked, TrackedPlaces
<1>14. CASE AwaitIdle \/ Teardown \/ Exited \/ UNCHANGED vars
  <2>1. Same
    BY <1>14 DEF AwaitIdle, Subscribe, Check, Wake, WaitTimeout, Report, Teardown, Exited,
       vars, guardVars, counters, InReserved, InQueued, InRunning, Tracked
  <2> QED
    BY <2>1, <1>b
<1>15. ASSUME NEW w \in Work, LeaveStage(w) PROVE CountersExact'
  BY <1>15, <1>4, <1>6
<1> HIDE DEF Same
<1> QED
  BY <1>b, <1>1, <1>2, <1>3, <1>4, <1>5, <1>7, <1>8, <1>9, <1>10, <1>11, <1>12, <1>13, <1>14,
     <1>15 DEF Next, Reservation, Enqueue, Task, GuardDrop

\* A settlement that is about to decrement a counter is counted in it, so no
\* counter wraps below zero.
LEMMA CountersPositive ==
  ASSUME CountersExact, NEW w \in Work
  PROVE  /\ w \in InReserved => reserved > 0
         /\ w \in InQueued => queued > 0
         /\ w \in InRunning => running > 0
         /\ w \in Tracked => spawned > 0
<1>1. /\ InReserved \in SUBSET Work /\ InQueued \in SUBSET Work
      /\ InRunning \in SUBSET Work /\ Tracked \in SUBSET Work
  BY DEF InReserved, InQueued, InRunning, Tracked
<1> QED
  BY <1>1, CardRemove DEF CountersExact

\* Removing a position of the wait queue leaves a sequence of settlements.
LEMMA RemoveAtType ==
  ASSUME NEW s \in Seq(Work), NEW i \in 1..Len(s)
  PROVE  RemoveAt(s, i) \in Seq(Work)
<1>1. SubSeq(s, 1, i - 1) \in Seq(Work) /\ SubSeq(s, i + 1, Len(s)) \in Seq(Work)
  OBVIOUS
<1> QED
  BY <1>1 DEF RemoveAt

\* Type correctness: the counters stay naturals because each decrement is of
\* a counter that counts the settlement.
LEMMA TypeStep == TypeOK /\ StageMatches /\ CountersExact /\ [Next]_vars => TypeOK'
<1> SUFFICES ASSUME TypeOK, StageMatches, CountersExact, [Next]_vars PROVE TypeOK'
  OBVIOUS
<1> USE DEF TypeOK, Places, Outcomes
<1>1. ASSUME NEW w \in Work, Reservation(w) PROVE TypeOK'
  <2>1. CASE TakePermit(w)
    BY <2>1, SettlementAssumption DEF TakePermit, At, guardVars, counters, tracking, idleVars
  <2>2. CASE CountReserved(w) \/ RefuseReserve(w) \/ ReturnPermit(w)
    <3>1. CASE CountReserved(w)
      BY <3>1 DEF CountReserved, At, guardVars, semaphores, counters, tracking, idleVars
    <3>2. CASE RefuseReserve(w)
      BY <3>2 DEF RefuseReserve, At, guardVars, semaphores, counters, tracking, idleVars
    <3>3. CASE ReturnPermit(w)
      BY <3>3 DEF ReturnPermit, ReleasePermit, At, guardVars, semaphores, counters, tracking, idleVars
    <3> QED
      BY <2>2, <3>1, <3>2, <3>3
  <2>3. CASE DropReservation(w)
    <3>1. reserved > 0
      BY <2>3, CountersPositive DEF DropReservation, At, InReserved
    <3> QED
      BY <2>3, <3>1 DEF DropReservation, At, guardVars, semaphores, tracking, idleVars
  <2> QED
    BY <1>1, <2>1, <2>2, <2>3 DEF Reservation
<1>2. ASSUME NEW w \in Work, Enqueue(w) PROVE TypeOK'
  <2>1. CASE Consume(w)
    <3>1. reserved > 0
      BY <2>1, CountersPositive DEF Consume, At, InReserved
    <3> QED
      BY <2>1, <3>1 DEF Consume, At, guardVars, semaphores, tracking, idleVars
  <2>2. CASE Draw(w) \/ List(w)
    <3>1. CASE Draw(w)
      BY <3>1 DEF Draw, At, semaphores, counters, idleVars
    <3>2. CASE List(w)
      BY <3>2 DEF List, At, guardVars, semaphores, counters, idleVars
    <3> QED
      BY <2>2, <3>1, <3>2
  <2>3. CASE CountQueued(w) \/ CountSpawned(w)
    <3>1. CASE CountQueued(w)
      BY <3>1 DEF CountQueued, At, guardVars, semaphores, counters, tracking, idleVars
    <3>2. CASE CountSpawned(w)
      BY <3>2 DEF CountSpawned, At, guardVars, semaphores, counters, tracking, idleVars
    <3> QED
      BY <2>3, <3>1, <3>2
  <2> QED
    BY <1>2, <2>1, <2>2, <2>3 DEF Enqueue
<1>3. ASSUME NEW w \in Work, Task(w) PROVE TypeOK'
  <2>1. CASE PollSlot(w)
    BY <2>1 DEF PollSlot, At, guardVars, counters, tracking, idleVars
  <2>2. CASE AcquireSlot(w)
    <3>1. PICK i \in 1..Len(waiters) : Assigned(i) /\ waiters' = RemoveAt(waiters, i)
      BY <2>2 DEF AcquireSlot
    <3>2. executing > 0 /\ waiters' \in Seq(Work)
      BY <3>1, RemoveAtType DEF Assigned
    <3> QED
      BY <2>2, <3>2 DEF AcquireSlot, At, guardVars, counters, tracking, idleVars
  <2>3. CASE QueueTimeout(w)
    <3>1. waiters' \in Seq(Work)
      BY <2>3, RemoveAtType DEF QueueTimeout
    <3> QED
      BY <2>3, <3>1 DEF QueueTimeout, At, counters, tracking, idleVars
  <2>4. CASE LeaveQueue(w)
    <3>1. queued > 0
      BY <2>4, CountersPositive DEF LeaveQueue, At, InQueued
    <3> QED
      BY <2>4, <3>1 DEF LeaveQueue, At, guardVars, semaphores, tracking, idleVars
  <2>5. CASE StartRunning(w) \/ FutureEnds(w)
    <3>1. CASE StartRunning(w)
      BY <3>1 DEF StartRunning, At, guardVars, semaphores, counters, tracking, idleVars
    <3>2. CASE FutureEnds(w)
      BY <3>2 DEF FutureEnds, At, guardVars, semaphores, counters, tracking, idleVars
    <3> QED
      BY <2>5, <3>1, <3>2
  <2>6. CASE MissDeadline(w)
    BY <2>6 DEF MissDeadline, At, semaphores, counters, tracking, idleVars
  <2>7. CASE LateEnd(w) \/ AbortRunning(w) \/ DropSlot(w)
    <3>1. CASE LateEnd(w)
      BY <3>1 DEF LateEnd, At, guardVars, semaphores, counters, tracking, idleVars
    <3>2. CASE AbortRunning(w)
      BY <3>2 DEF AbortRunning, At, guardVars, semaphores, counters, tracking, idleVars
    <3>3. CASE DropSlot(w)
      BY <3>3 DEF DropSlot, At, guardVars, semaphores, counters, tracking, idleVars
    <3> QED
      BY <2>7, <3>1, <3>2, <3>3
  <2>8. CASE AbortWaiting(w)
    <3>1. waiters' \in Seq(Work)
      BY <2>8, RemoveAtType DEF AbortWaiting
    <3> QED
      BY <2>8, <3>1 DEF AbortWaiting, At, guardVars, counters, tracking, idleVars
  <2> QED
    BY <1>3, <2>1, <2>2, <2>3, <2>4, <2>5, <2>6, <2>7, <2>8 DEF Task
<1>4. ASSUME NEW w \in Work, GuardDrop(w) PROVE TypeOK'
  <2>1. CASE LeaveStage(w)
    <3>1. IF stage[w] = "Queued" THEN queued > 0 ELSE running > 0
      BY <2>1, CountersPositive DEF LeaveStage, At, InQueued, InRunning
    <3> QED
      BY <2>1, <3>1 DEF LeaveStage, At, guardVars, semaphores, tracking, idleVars
  <2>2. CASE UncountSpawned(w)
    <3>1. spawned > 0
      BY <2>2, CountersPositive DEF UncountSpawned, At, Tracked, TrackedPlaces
    <3> QED
      BY <2>2, <3>1 DEF UncountSpawned, At, guardVars, semaphores, tracking, idleVars
  <2>3. CASE Unlist(w)
    <3>1. FinalOutcome(w) \in Outcomes
      BY DEF FinalOutcome
    <3>2. Append(reported[w], FinalOutcome(w)) \in Seq(Outcomes)
      BY <3>1
    <3>3. reported' \in [Work -> Seq(Outcomes)] /\ backlog' \in SUBSET Nat
      BY <2>3, <3>2 DEF Unlist
    <3> QED
      BY <2>3, <3>3 DEF Unlist, At, semaphores, counters, idleVars
  <2>4. CASE Announce(w) \/ DropPermit(w)
    <3>1. CASE Announce(w)
      BY <3>1 DEF Announce, At, guardVars, semaphores, counters, tracking, idleVars
    <3>2. CASE DropPermit(w)
      BY <3>2 DEF DropPermit, ReleasePermit, At, guardVars, semaphores, counters, tracking, idleVars
    <3> QED
      BY <2>4, <3>1, <3>2
  <2> QED
    BY <1>4, <2>1, <2>2, <2>3, <2>4 DEF GuardDrop
<1>5. CASE AwaitIdle \/ Teardown \/ Exited \/ UNCHANGED vars
  BY <1>5 DEF AwaitIdle, Subscribe, Check, Wake, WaitTimeout, Report, Teardown, Exited,
     Tracked, vars, guardVars, semaphores, counters, tracking, idleVars
<1> QED
  BY <1>1, <1>2, <1>3, <1>4, <1>5 DEF Next

-----------------------------------------------------------------------------
(* The inductive invariant *)

LEMMA InitIInv == Init => IInv
<1> SUFFICES ASSUME Init PROVE IInv
  OBVIOUS
<1>1. TypeOK /\ StageMatches
  BY SettlementAssumption DEF Init, TypeOK, StageMatches, Places, Outcomes
<1>2. /\ Permitted = {} /\ Slotted = {} /\ InReserved = {} /\ InQueued = {}
      /\ InRunning = {} /\ Tracked = {}
  BY DEF Init, Permitted, PermitPlaces, Slotted, SlotPlaces, InReserved, InQueued,
     InRunning, Tracked, TrackedPlaces, Places
<1>3. CapacityConserved /\ SlotsConserved /\ CountersExact
  BY <1>2, FS_EmptySet, SettlementAssumption
     DEF Init, CapacityConserved, SlotsConserved, CountersExact
<1> QED
  BY <1>1, <1>3 DEF IInv

LEMMA NextIInv == IInv /\ [Next]_vars => IInv'
  BY StageStep, CapacityStep, SlotsStep, CountersStep, TypeStep DEF IInv

\* Every reachable state satisfies the inductive invariant.
THEOREM Invariance == Spec => []IInv
  BY InitIInv, NextIInv, PTL DEF Spec

\* Type correctness of every behaviour of settlement.rs, for every limit.
THEOREM TypeCorrect == Spec => []TypeOK
  BY Invariance, PTL DEF IInv

\* The pending semaphore's permits are conserved: capacity is released exactly
\* once however a reservation or a settlement ends.
THEOREM CapacityTheorem == Spec => []CapacityConserved
  BY Invariance, PTL DEF IInv

\* Execution slots are conserved, overdue settlements included.
THEOREM SlotsTheorem == Spec => []SlotsConserved
  BY Invariance, PTL DEF IInv

\* Every counter is exact at every point of every interleaving.
THEOREM CountersTheorem == Spec => []CountersExact
  BY Invariance, PTL DEF IInv

\* Permits, slots and counters together: settlement.rs loses and doubles none,
\* whatever the limits, the interleaving and the way each settlement ends.
THEOREM ConservationTheorem == Spec => []Conserved
<1>1. IInv => Conserved
  BY DEF IInv, Conserved
<1> QED
  BY <1>1, Invariance, PTL

-----------------------------------------------------------------------------
(* await_idle *)

\* The settlements await_idle saw are past their spawn: none of them can be
\* counted in spawned a second time.
PastSpawn == TrackedPlaces \cup {"uncounted", "unlisted", "announced", "ended"}
BeforeSpawned == \A w \in before : pc[w] \in PastSpawn

\* The receiver never saw a version that was not sent.
SeenSent == seen <= finished

\* A zero spawned counter means nothing is tracked.
LEMMA ZeroIsIdle ==
  ASSUME CountersExact PROVE spawned = 0 <=> Tracked = {}
<1>1. Tracked \in SUBSET Work
  BY DEF Tracked
<1> QED
  BY <1>1, WorkFinite, FS_EmptySet DEF CountersExact

\* What one settlement's action can do to the two conditions: it changes
\* neither the waiter nor the history, it tracks only a settlement that was
\* never past its spawn, and it leaves Tracked only towards an announcement.
WorkStep(w) ==
  /\ UNCHANGED idleVars
  /\ \A v \in Work : v # w => pc'[v] = pc[v]
  /\ pc[w] \in PastSpawn => pc'[w] \in PastSpawn
  /\ pc'[w] \in TrackedPlaces => pc[w] \in TrackedPlaces \cup {"counted"}
  /\ pc[w] \in TrackedPlaces => pc'[w] \in TrackedPlaces \cup {"uncounted"}
  /\ pc[w] = "uncounted" => pc'[w] = "unlisted"
  /\ pc[w] = "unlisted" => finished' = finished + 1
  /\ finished' = finished \/ finished' = finished + 1

LEMMA WorkAction ==
  ASSUME TypeOK, NEW w \in Work,
         Reservation(w) \/ Enqueue(w) \/ Task(w) \/ GuardDrop(w)
  PROVE  WorkStep(w)
<1> USE DEF TypeOK, Places, TrackedPlaces, PastSpawn, WorkStep
<1>1. CASE Reservation(w)
  BY <1>1 DEF Reservation, TakePermit, CountReserved, RefuseReserve, DropReservation,
     ReturnPermit, At, tracking
<1>2. CASE Enqueue(w)
  BY <1>2 DEF Enqueue, Consume, Draw, List, CountQueued, CountSpawned, At, tracking
<1>3. CASE Task(w)
  BY <1>3 DEF Task, PollSlot, AcquireSlot, QueueTimeout, LeaveQueue, StartRunning,
     FutureEnds, MissDeadline, LateEnd, AbortWaiting, AbortRunning, DropSlot, At, tracking
<1>4. CASE GuardDrop(w)
  BY <1>4 DEF GuardDrop, LeaveStage, UncountSpawned, Unlist, Announce, DropPermit, At, tracking
<1> QED
  BY <1>1, <1>2, <1>3, <1>4

\* The inductive invariant of the shutdown wait, on top of IInv.
IdleInv == BeforeSpawned /\ QuietReport /\ SeenSent /\ NoLostWakeup

LEMMA IdleStep == IInv /\ IdleInv /\ [Next]_vars => IdleInv'
<1> SUFFICES ASSUME IInv, IdleInv, [Next]_vars PROVE IdleInv'
  OBVIOUS
<1>a. TypeOK /\ CountersExact
  BY DEF IInv
<1> USE DEF IdleInv
<1>1. ASSUME NEW w \in Work, Reservation(w) \/ Enqueue(w) \/ Task(w) \/ GuardDrop(w)
      PROVE  IdleInv'
  <2>0. WorkStep(w)
    BY <1>1, <1>a, WorkAction
  <2>1. BeforeSpawned'
    BY <2>0, <1>a DEF WorkStep, BeforeSpawned, idleVars, TypeOK
  <2>2. QuietReport'
    BY <2>0, <1>a DEF WorkStep, QuietReport, BeforeSpawned, Tracked, TrackedPlaces,
       PastSpawn, idleVars, TypeOK
  <2>3. SeenSent'
    BY <2>0, <1>a DEF WorkStep, SeenSent, idleVars, TypeOK
  <2>4. NoLostWakeup'
    <3> SUFFICES ASSUME waiter' = "parked", Tracked' = {}, seen' = finished'
                 PROVE  \E v \in Work : pc'[v] \in {"uncounted", "unlisted"}
      BY DEF NoLostWakeup
    <3>1. waiter = "parked" /\ seen = finished /\ finished' = finished
      BY <2>0, <1>a DEF WorkStep, SeenSent, idleVars, TypeOK
    <3>2. CASE Tracked = {}
      <4>1. PICK v \in Work : pc[v] \in {"uncounted", "unlisted"}
        BY <3>1, <3>2 DEF NoLostWakeup
      <4>2. finished + 1 # finished
        BY <1>a DEF TypeOK
      <4>3. CASE v = w
        BY <4>1, <4>2, <4>3, <3>1, <2>0 DEF WorkStep
      <4>4. CASE v # w
        BY <4>1, <4>4, <2>0 DEF WorkStep
      <4> QED
        BY <4>3, <4>4
    <3>3. CASE Tracked # {}
      <4>1. PICK v \in Work : pc[v] \in TrackedPlaces
        BY <3>3 DEF Tracked
      <4>2. pc'[v] \notin TrackedPlaces
        BY DEF Tracked
      <4> QED
        BY <4>1, <4>2, <2>0 DEF WorkStep
    <3> QED
      BY <3>2, <3>3
  <2> QED
    BY <2>1, <2>2, <2>3, <2>4
<1>2. CASE Subscribe
  BY <1>2, <1>a DEF Subscribe, BeforeSpawned, QuietReport, SeenSent, NoLostWakeup, Tracked,
     PastSpawn, tracking, TypeOK
<1>3. CASE Check
  BY <1>3, <1>a, ZeroIsIdle DEF Check, BeforeSpawned, QuietReport, SeenSent, NoLostWakeup,
     Tracked, PastSpawn, tracking, TypeOK
<1>4. CASE Report
  BY <1>4, <1>a, ZeroIsIdle DEF Report, BeforeSpawned, QuietReport, SeenSent, NoLostWakeup,
     Tracked, tracking, TypeOK
<1>5. CASE Wake \/ WaitTimeout
  BY <1>5, <1>a DEF Wake, WaitTimeout, BeforeSpawned, QuietReport, SeenSent, NoLostWakeup,
     Tracked, tracking, TypeOK
<1>6. CASE Teardown \/ Exited \/ UNCHANGED vars
  BY <1>6, <1>a DEF Teardown, Exited, vars, BeforeSpawned, QuietReport, SeenSent,
     NoLostWakeup, Tracked, tracking, idleVars, TypeOK
<1> QED
  BY <1>1, <1>2, <1>3, <1>4, <1>5, <1>6 DEF Next, AwaitIdle

\* Both hold of every behaviour.
LEMMA IdleInvariance == Spec => []IdleInv
<1>1. Init => IdleInv
  BY DEF Init, IdleInv, BeforeSpawned, QuietReport, SeenSent, NoLostWakeup
<1> QED
  BY <1>1, IdleStep, Invariance, PTL DEF Spec

\* A quiet shutdown report is true: when await_idle returns zero, every
\* settlement that was tracked when it was called has finished.
THEOREM QuietReportTheorem == Spec => []QuietReport
  BY IdleInvariance, PTL DEF IdleInv

\* No wake-up of await_idle is lost, however the guards' drops interleave
\* with its subscription and its checks.
THEOREM NoLostWakeupTheorem == Spec => []NoLostWakeup
  BY IdleInvariance, PTL DEF IdleInv

\* await_idle as a whole: it is woken by the last end, and a report of zero is
\* true of everything that was tracked when it was called.
THEOREM AwaitTheorem == Spec => []AwaitsTheLast
<1>1. IdleInv => AwaitsTheLast
  BY DEF IdleInv, AwaitsTheLast
<1> QED
  BY <1>1, IdleInvariance, PTL

-----------------------------------------------------------------------------
(* What the metrics say of a settlement *)

\* The settlements that have a key: nobody else has it, and it was drawn before
\* the next one to be drawn.
Keyed == Listed \cup {w \in Work : pc[w] = "drawn"}
KeysDrawn ==
  /\ \A w \in Keyed : seq[w] < sequence
  /\ \A v, w \in Keyed : seq[v] = seq[w] => v = w

BacklogExact == backlog = {seq[w] : w \in Listed}

\* A miss of the deadline is reported when it happens, anything else when the
\* guard drops; the flag says which of the two is due.
Reported(p, o, flag, rep) ==
  /\ flag => /\ o = "ExecutionTimeout"
             /\ p \in {"overdue", "exiting", "dropping", "left", "uncounted", "unlisted",
                       "announced", "ended"}
  /\ p \notin {"unlisted", "announced", "ended"} =>
       rep = IF flag THEN <<"ExecutionTimeout">> ELSE <<>>
  /\ p \in {"unlisted", "announced"} =>
       rep = IF o = "Completed" THEN <<>>
             ELSE IF o = "None" THEN <<"Cancelled">> ELSE <<o>>
  /\ Len(rep) <= 1

FailuresOnce ==
  \A w \in Work : Reported(pc[w], outcome[w], failureRecorded[w], reported[w])

\* The inductive invariant of the metrics, on top of TypeOK.
MetricsInv == KeysDrawn /\ BacklogExact /\ FailuresOnce

\* An entry is inserted under a key nobody has, and removed by its own guard.
LEMMA BacklogStep ==
  TypeOK /\ KeysDrawn /\ BacklogExact /\ [Next]_vars => KeysDrawn' /\ BacklogExact'
<1> SUFFICES ASSUME TypeOK, KeysDrawn, BacklogExact, [Next]_vars
             PROVE  KeysDrawn' /\ BacklogExact'
  OBVIOUS
<1>0. /\ pc \in [Work -> Places] /\ seq \in [Work -> Nat] /\ sequence \in Nat
      /\ Listed \in SUBSET Work /\ Keyed \in SUBSET Work /\ Listed \subseteq Keyed
  BY DEF TypeOK, Listed, Keyed
<1> USE DEF At
<1>1. ASSUME NEW w \in Work, Draw(w) PROVE KeysDrawn' /\ BacklogExact'
  <2>1. /\ w \notin Keyed /\ Keyed' = Keyed \cup {w} /\ Listed' = Listed
        /\ sequence' = sequence + 1 /\ seq' = [seq EXCEPT ![w] = sequence]
        /\ backlog' = backlog
    BY <1>0, <1>1 DEF Draw, Listed, Keyed, ListedPlaces, TrackedPlaces
  <2>2. seq'[w] = sequence /\ \A v \in Keyed : seq'[v] = seq[v] /\ seq[v] < sequence
    BY <1>0, <2>1 DEF KeysDrawn
  <2>3. \A v \in Keyed' : seq'[v] < sequence'
    BY <1>0, <2>1, <2>2
  <2>4. \A u, v \in Keyed' : seq'[u] = seq'[v] => u = v
    BY <1>0, <2>1, <2>2 DEF KeysDrawn
  <2>5. backlog' = {seq'[v] : v \in Listed'}
    BY <1>0, <2>1, <2>2 DEF BacklogExact
  <2> QED
    BY <2>3, <2>4, <2>5 DEF KeysDrawn, BacklogExact
<1>8. ASSUME NEW w \in Work, List(w) PROVE KeysDrawn' /\ BacklogExact'
  <2>1. /\ w \notin Listed /\ Listed' = Listed \cup {w} /\ Keyed' = Keyed
        /\ sequence' = sequence /\ seq' = seq /\ backlog' = backlog \cup {seq[w]}
    BY <1>0, <1>8 DEF List, guardVars, Listed, Keyed, ListedPlaces, TrackedPlaces
  <2> QED
    BY <2>1 DEF KeysDrawn, BacklogExact
<1>2. ASSUME NEW w \in Work, Unlist(w) PROVE KeysDrawn' /\ BacklogExact'
  <2>1. /\ w \in Listed /\ Listed' = Listed \ {w} /\ Keyed' = Keyed \ {w}
        /\ sequence' = sequence /\ seq' = seq /\ backlog' = backlog \ {seq[w]}
    BY <1>0, <1>2 DEF Unlist, Listed, Keyed, ListedPlaces, TrackedPlaces
  <2>2. backlog' = {seq[v] : v \in Listed \ {w}}
    BY <1>0, <2>1 DEF BacklogExact, KeysDrawn
  <2> QED
    BY <2>1, <2>2 DEF KeysDrawn, BacklogExact
<1>3. ASSUME NEW w \in Work, Reservation(w) \/ Consume(w) \/ CountQueued(w) \/ CountSpawned(w)
      PROVE  Listed' = Listed /\ Keyed' = Keyed /\ UNCHANGED <<seq, sequence, backlog>>
  BY <1>0, <1>3 DEF Reservation, TakePermit, CountReserved, RefuseReserve, DropReservation,
     ReturnPermit, Consume, CountQueued, CountSpawned, guardVars, tracking, Listed, Keyed,
     ListedPlaces, TrackedPlaces
<1>4. ASSUME NEW w \in Work, Task(w)
      PROVE  Listed' = Listed /\ Keyed' = Keyed /\ UNCHANGED <<seq, sequence, backlog>>
  BY <1>0, <1>4 DEF Task, PollSlot, AcquireSlot, QueueTimeout, LeaveQueue, StartRunning,
     FutureEnds, MissDeadline, LateEnd, AbortWaiting, AbortRunning, DropSlot, guardVars,
     tracking, Listed, Keyed, ListedPlaces, TrackedPlaces
<1>5. ASSUME NEW w \in Work, LeaveStage(w) \/ UncountSpawned(w) \/ Announce(w) \/ DropPermit(w)
      PROVE  Listed' = Listed /\ Keyed' = Keyed /\ UNCHANGED <<seq, sequence, backlog>>
  BY <1>0, <1>5 DEF LeaveStage, UncountSpawned, Announce, DropPermit, guardVars, tracking,
     Listed, Keyed, ListedPlaces, TrackedPlaces
<1>6. ASSUME AwaitIdle \/ Teardown \/ Exited \/ UNCHANGED vars
      PROVE  Listed' = Listed /\ Keyed' = Keyed /\ UNCHANGED <<seq, sequence, backlog>>
  BY <1>6 DEF AwaitIdle, Subscribe, Check, Wake, WaitTimeout, Report, Teardown, Exited,
     vars, guardVars, tracking, Listed, Keyed
<1>7. ASSUME Listed' = Listed, Keyed' = Keyed, UNCHANGED <<seq, sequence, backlog>>
      PROVE  KeysDrawn' /\ BacklogExact'
  BY <1>7 DEF KeysDrawn, BacklogExact
<1> QED
  BY <1>1, <1>2, <1>8, <1>3, <1>4, <1>5, <1>6, <1>7 DEF Next, Enqueue, GuardDrop

\* A guard reports once: at the missed deadline, or at the end.
LEMMA FailuresStep == TypeOK /\ FailuresOnce /\ [Next]_vars => FailuresOnce'
<1> SUFFICES ASSUME TypeOK, FailuresOnce, [Next]_vars PROVE FailuresOnce'
  OBVIOUS
<1>0. /\ pc \in [Work -> Places] /\ outcome \in [Work -> Outcomes \cup {"None"}]
      /\ failureRecorded \in [Work -> BOOLEAN] /\ reported \in [Work -> Seq(Outcomes)]
      /\ \A w \in Work : Reported(pc[w], outcome[w], failureRecorded[w], reported[w])
  BY DEF TypeOK, FailuresOnce
<1> DEFINE Same == UNCHANGED <<outcome, failureRecorded, reported>>
<1> USE DEF At
<1>a. ASSUME NEW w \in Work, NEW q \in Places, pc' = [pc EXCEPT ![w] = q], Same,
             Reported(q, outcome[w], failureRecorded[w], reported[w])
      PROVE  FailuresOnce'
  BY <1>0, <1>a DEF FailuresOnce
<1>1. ASSUME NEW w \in Work, Reservation(w) \/ Enqueue(w) PROVE FailuresOnce'
  <2>1. PICK q \in Places :
          /\ pc' = [pc EXCEPT ![w] = q] /\ Same
          /\ pc[w] \in {"free", "permitted", "reserved", "returning", "consumed", "drawn", "listed", "counted"}
          /\ q \notin {"unlisted", "announced"}
    BY <1>0, <1>1 DEF Reservation, TakePermit, CountReserved, RefuseReserve,
       DropReservation, ReturnPermit, Enqueue, Consume, Draw, List, CountQueued, CountSpawned,
       guardVars, Places
  <2>2. Reported(q, outcome[w], failureRecorded[w], reported[w])
    BY <1>0, <2>1 DEF Reported
  <2> QED
    BY <1>a, <2>1, <2>2
<1>2. ASSUME NEW w \in Work,
             \/ PollSlot(w) \/ AcquireSlot(w) \/ LeaveQueue(w) \/ StartRunning(w)
             \/ LateEnd(w) \/ AbortWaiting(w) \/ AbortRunning(w) \/ DropSlot(w)
             \/ LeaveStage(w) \/ UncountSpawned(w)
      PROVE  FailuresOnce'
  <2>1. PICK q \in Places :
          /\ pc' = [pc EXCEPT ![w] = q] /\ Same
          /\ pc[w] \notin {"uncounted", "unlisted", "announced", "ended"}
          /\ q \notin {"unlisted", "announced", "ended"}
          /\ pc[w] \in {"overdue", "exiting", "dropping", "left"} =>
               q \in {"exiting", "dropping", "left", "uncounted"}
    BY <1>0, <1>2 DEF PollSlot, AcquireSlot, LeaveQueue, StartRunning, LateEnd,
       AbortWaiting, AbortRunning, DropSlot, LeaveStage, UncountSpawned, guardVars, Places
  <2>2. Reported(q, outcome[w], failureRecorded[w], reported[w])
    BY <1>0, <2>1 DEF Reported
  <2> QED
    BY <1>a, <2>1, <2>2
<1>3. ASSUME NEW w \in Work, Announce(w) \/ DropPermit(w) PROVE FailuresOnce'
  <2>1. /\ UNCHANGED <<outcome, failureRecorded, reported>>
        /\ \/ pc[w] = "unlisted" /\ pc' = [pc EXCEPT ![w] = "announced"]
           \/ pc[w] = "announced" /\ pc' = [pc EXCEPT ![w] = "ended"]
    BY <1>3 DEF Announce, DropPermit, guardVars
  <2>2. /\ pc[w] = "unlisted" => Reported("announced", outcome[w], failureRecorded[w], reported[w])
        /\ pc[w] = "announced" => Reported("ended", outcome[w], failureRecorded[w], reported[w])
    BY <1>0 DEF Reported
  <2> QED
    BY <1>a, <2>1, <2>2 DEF Places
<1>4. ASSUME NEW w \in Work, QueueTimeout(w) \/ FutureEnds(w) PROVE FailuresOnce'
  <2>1. PICK o, q : /\ outcome' = [outcome EXCEPT ![w] = o] /\ pc' = [pc EXCEPT ![w] = q]
                    /\ pc[w] \in {"waiting", "executing"} /\ q \in {"dropping", "exiting"}
                    /\ UNCHANGED <<failureRecorded, reported>>
    BY <1>4 DEF QueueTimeout, FutureEnds
  <2>2. Reported(q, o, failureRecorded[w], reported[w])
    BY <1>0, <2>1 DEF Reported
  <2> QED
    BY <1>0, <2>1, <2>2 DEF FailuresOnce
<1>5. ASSUME NEW w \in Work, MissDeadline(w) PROVE FailuresOnce'
  <2>1. ~failureRecorded[w] /\ reported[w] = <<>> /\ pc[w] = "executing"
    BY <1>0, <1>5 DEF MissDeadline, Reported
  <2>2. /\ outcome' = [outcome EXCEPT ![w] = "ExecutionTimeout"]
        /\ pc' = [pc EXCEPT ![w] = "overdue"]
        /\ failureRecorded' = [failureRecorded EXCEPT ![w] = TRUE]
        /\ reported' = [reported EXCEPT ![w] = <<"ExecutionTimeout">>]
    BY <1>0, <1>5, <2>1 DEF MissDeadline
  <2>3. Reported("overdue", "ExecutionTimeout", TRUE, <<"ExecutionTimeout">>)
    BY DEF Reported
  <2> QED
    BY <1>0, <2>2, <2>3 DEF FailuresOnce
<1>6. ASSUME NEW w \in Work, Unlist(w) PROVE FailuresOnce'
  <2> DEFINE rep == IF FinalOutcome(w) # "Completed" /\ ~failureRecorded[w]
                    THEN Append(reported[w], FinalOutcome(w)) ELSE reported[w]
  <2>1. /\ pc[w] = "uncounted" /\ pc' = [pc EXCEPT ![w] = "unlisted"]
        /\ reported' = [reported EXCEPT ![w] = rep] /\ UNCHANGED <<outcome, failureRecorded>>
    BY <1>6 DEF Unlist
  <2>2. Reported("unlisted", outcome[w], failureRecorded[w], rep)
    <3>1. CASE failureRecorded[w]
      BY <1>0, <2>1, <3>1 DEF Reported, FinalOutcome
    <3>2. CASE ~failureRecorded[w]
      <4>1. reported[w] = <<>>
        BY <1>0, <2>1, <3>2 DEF Reported
      <4>2. rep = IF FinalOutcome(w) # "Completed" THEN <<FinalOutcome(w)>> ELSE <<>>
        BY <3>2, <4>1
      <4> HIDE DEF rep
      <4>3. Len(rep) <= 1
        BY <4>2
      <4> QED
        BY <3>2, <4>2, <4>3 DEF Reported, FinalOutcome
    <3> QED
      BY <3>1, <3>2
  <2> HIDE DEF rep
  <2> QED
    BY <1>0, <2>1, <2>2 DEF FailuresOnce
<1>7. CASE AwaitIdle \/ Teardown \/ Exited \/ UNCHANGED vars
  BY <1>7 DEF AwaitIdle, Subscribe, Check, Wake, WaitTimeout, Report, Teardown, Exited,
     vars, guardVars, FailuresOnce
<1> QED
  BY <1>1, <1>2, <1>3, <1>4, <1>5, <1>6, <1>7 DEF Next, Task, GuardDrop

\* The backlog behind oldest_age and the failure counter are exact: no guard
\* removes another's entry, and a settlement that failed is counted once under
\* the reason it first failed with, for any number of settlements.
THEOREM ReportsTheorem == Spec => []ReportsExact
<1>1. Init => MetricsInv
  BY DEF Init, MetricsInv, KeysDrawn, BacklogExact, Listed, Keyed, ListedPlaces, TrackedPlaces,
     FailuresOnce, Reported
<1>2. TypeOK /\ MetricsInv /\ [Next]_vars => MetricsInv'
  BY BacklogStep, FailuresStep DEF MetricsInv
<1>3. MetricsInv => ReportsExact
  BY DEF MetricsInv, KeysDrawn, Keyed, BacklogExact, FailuresOnce, Reported, ReportsExact, FinalOutcome
<1> QED
  BY <1>1, <1>2, <1>3, TypeCorrect, PTL DEF Spec

-----------------------------------------------------------------------------
(* The invariant: each caller's record, call, knowledge and answer *)

Fields == {"pc", "call", "at", "held", "reply", "seen", "cursor", "todo", "status"}
Active == {"dispatched"} \cup Waiting \cup Holding
Typed(k) ==
  /\ DOMAIN k = Fields
  /\ k.pc \in {"idle"} \cup Active \cup Ended
  /\ k.call \in {""} \cup Writes \cup Reads /\ k.at \in {""} \cup PolicyReads
  /\ k.status \in {""} \cup Statuses
  /\ k.seen \in Seq(Ids) /\ k.cursor \in Ids \cup {0} /\ k.todo \in SUBSET Ids

\* What a handler may call, and what the Store may say to it.
CallsOf(o) ==
  {FirstCall(o)} \cup (IF o.op = "usage" THEN {"summarize_usage"}
                       ELSE IF o.op = "policy" THEN {"get_budget_policy"} ELSE {})
Lookups == {"get_namespace", "update_namespace", "resolve_namespace"}
Silent == {"put_namespace", "delete_namespace", "append_usage_batch"}
MayReply(fn, kind) ==
  \/ kind = "Unavailable"
  \/ kind = "Ok" /\ fn \in Silent
  \/ kind = "Found" /\ fn \notin Silent
  \/ kind = "Duplicate" /\ fn = "put_namespace"
  \/ kind = "Invalid" /\ fn \in {"put_budget", "put_budget_policy"}
  \/ kind = "NotFound" /\ fn \in {"put_budget", "put_budget_policy", "get_budget", "get_budget_policy"}
  \/ kind = "Absent" /\ fn \in Lookups \cup {"get_budget", "get_budget_policy", "get_provider_models"}

Increasing(s) == \A m, n \in DOMAIN s : m < n => s[m] < s[n]
Members(s) == {s[n] : n \in DOMAIN s}

\* A call is one its handler makes, of a request that is well formed, and a
\* namespace of the file is never asked to be deleted.
Asked(c, k) ==
  LET o == conf.ops[c] IN
  /\ k.pc = "idle" => k.call = "" /\ k.seen = <<>> /\ k.cursor = 0 /\ k.todo = {}
  /\ k.pc \in Active \cup {"gone"} => k.call # ""
  /\ k.pc \in {"idle", "gone"} \cup Active => k.status = ""
  /\ k.call # "" =>
       /\ o \in Ops /\ WellFormed(o) /\ k.call \in CallsOf(o)
       /\ o.op = "delete" => o.id \notin conf.file
       /\ k.call = "get_budget_policy" => k.at \in PolicyReads
       /\ o.op = "seed" => k.todo \subseteq conf.file /\ (k.todo = {} => k.status = "ready")

\* A page is in order, goes on after the cursor, and leaves out nothing up to the
\* next one (to the end, without one) that was there throughout.
PageFits(page, next, cursor, al, ev) ==
  /\ page \in Seq(Ids) /\ next \in Ids \cup {0} /\ Increasing(page) /\ Members(page) \subseteq ev
  /\ next # 0 => next > cursor
  /\ \A i \in Members(page) : i > cursor /\ (next # 0 => i <= next)
  /\ \A i \in al : i > cursor /\ (next # 0 => i <= next) => i \in Members(page)

\* What a reply says of the namespace it is about; al are the ids that were there
\* throughout, ev those that ever were.
Fits(c, k, r, al, ev) ==
  LET o == conf.ops[c] IN
  /\ MayReply(k.call, r.kind)
  /\ r.kind = "NotFound" \/ (r.kind = "Absent" /\ k.call \in Lookups) => o.id \notin al
  /\ r.kind = "Absent" /\ k.call = "get_budget" => o.id \in ev
  /\ r.kind = "Found" /\ k.call \notin {"list_namespaces", "get_provider_models"} => o.id \in ev
  /\ r.kind = "Ok" /\ o.op = "delete" => o.id \notin al
  /\ r.kind = "Ok" /\ o.op = "create" => o.id \in ev \ al
  /\ r.kind = "Duplicate" => o.op = "seed" \/ o.id \in ev
  /\ r.kind = "Invalid" =>
       \/ o.limit > MaxAmount
       \/ o.op = "put_policy" /\ o.period = None /\ o.cadence = "fixed" /\ o.id \in ev
  /\ r.kind = "Found" /\ k.call = "list_namespaces" =>
       PageFits(r.value.page, r.value.next, k.cursor, al, ev)

\* Seeding is behind what it has put; First is the one it is at.
First(k) == Min(k.todo)
SeedFits(k, r, t) == r.kind # "Unavailable" => First(k) \in Present(t)

\* What a caller under way has seen, and what it holds of its reply.
Seen(c, k, t, al, ev) ==
  LET o == conf.ops[c] IN
  /\ al \subseteq Present(t) /\ Present(t) \subseteq ev
  /\ k.call \in {"summarize_usage", "get_budget_policy"} => o.id \in ev
  /\ o.op = "list" =>
       /\ Increasing(k.seen) /\ Members(k.seen) \subseteq ev
       /\ \A i \in Members(k.seen) : i <= k.cursor
       /\ \A i \in al : i <= k.cursor => i \in Members(k.seen)
  /\ o.op = "seed" => conf.file \ k.todo \subseteq Present(t)
Told(c, k, r, t, al, ev) ==
  Fits(c, k, r, al, ev) /\ (conf.ops[c].op = "seed" => SeedFits(k, r, t))
Knows(c, k, t, al, ev) ==
  k.pc \in Active =>
    Seen(c, k, t, al, ev) /\ (k.pc = "checkin" => Told(c, k, k.reply, t, al, ev))

\* The answer of a caller that is done.
Honest(c, k, t, al, ev) ==
  LET o == conf.ops[c] IN
  k.pc = "done" =>
    /\ k.status = "unknown_namespace" => o.id \notin al
    /\ k.status \in {"unknown_budget"} => o.id \in ev
    /\ k.status = "bad_request" /\ WellFormed(o) =>
         \/ o.op = "policy" /\ o.id \notin al
         \/ o.op \in {"put_budget", "put_policy"} /\ o.limit > MaxAmount
         \/ o.op = "put_policy" /\ o.period = None /\ o.cadence = "fixed" /\ o.id \in ev
    /\ o.op \in {"get", "replace", "usage", "policy", "put_budget", "get_budget",
                 "put_policy", "infer"} /\ k.status = "ok" => o.id \in ev
    /\ o.op = "create" /\ k.status = "ok" => o.id \in ev \ al
    /\ o.op = "create" /\ k.status = "namespace_conflict" => o.id \in ev
    /\ o.op = "delete" /\ k.status = "ok" => o.id \notin al
    /\ o.op = "list" /\ k.status = "ok" =>
         /\ \A m, n \in DOMAIN k.seen : m < n => k.seen[m] < k.seen[n]
         /\ al \subseteq ToSet(k.seen) /\ ToSet(k.seen) \subseteq ev
    /\ k.status = "ready" => conf.file \subseteq Present(t)

Own(c, k, t, al, ev) ==
  Typed(k) /\ Asked(c, k) /\ Knows(c, k, t, al, ev) /\ Honest(c, k, t, al, ev)

\* The tables, and what a statement may make of them.
Sound(t) == t \in Tables /\ NothingLeft(t)
Follows(t, u) == Sound(u) /\ conf.file \cap Present(t) \subseteq Present(u)

CallersInv ==
  /\ conf \in Configs /\ Sound(db)
  /\ DOMAIN caller = Callers /\ DOMAIN always = Callers /\ DOMAIN ever = Callers
  /\ late \subseteq Callers
  /\ \A c \in Callers : Own(c, caller[c], db, always[c], ever[c])
  /\ \A c \in late : /\ caller[c].pc \in Ended /\ caller[c].call \in Writes
                     /\ caller[c].status # "ready"

\* The lanes of the SQLite Store; those of PostgreSQL's are never used.
LanesInv ==
  /\ lane \in [Lanes -> [slot : Callers \cup {None}, mutex : Callers \cup {None, "index"}]]
  /\ index \in {"idle", "locked", "done"}
  /\ Postgres => /\ \A l \in Lanes : lane[l].slot = None
                 /\ \A c \in Callers : caller[c].pc # "dispatched"
  /\ Sqlite =>
       /\ late = {} /\ \A c \in Callers : caller[c].pc \notin Holding
       /\ \A c \in Callers : caller[c].pc = "dispatched" => lane[LaneOf(c)].slot = c
       /\ \A l \in Lanes : lane[l].slot # None =>
            \/ caller[lane[l].slot].pc = "gone"
            \/ caller[lane[l].slot].pc = "dispatched" /\ LaneOf(lane[l].slot) = l
       /\ \A l \in Lanes :
            \/ lane[l].mutex \in {None, lane[l].slot}
            \/ l = "writer" /\ lane[l].mutex = "index" /\ index = "locked"

\* The four counts the pool is held against.
Held == Cardinality(In(Holding))
Running == Cardinality(In({"run"}))
Opening == Cardinality(In({"connect"} \cup Connected))
Connections == Cardinality(In(Connected))

PoolInv ==
  /\ pool \in PoolType
  /\ Postgres =>
       /\ pool.free + Held = conf.size /\ pool.live = Running
       /\ Len(pool.idle) + Opening <= conf.size
       /\ pool.counted >= Len(pool.idle) + Connections

FindersInv ==
  /\ finder \in [Replicas -> [pc : {"off", "sleep", "stale", "peek", "fetch", "put", "failed",
                                    "gone"},
                              first : BOOLEAN, missed : BOOLEAN]]
  /\ \A r \in Replicas : finder[r].pc # "off" => conf.sources[r] # None

StoreInv == CallersInv /\ LanesInv /\ PoolInv /\ FindersInv
-----------------------------------------------------------------------------
(* Order *)

\* A set of subsets of a finite set has a member with no smaller one in it.
LEMMA SmallestSubset ==
  ASSUME NEW U, IsFiniteSet(U), NEW B \in SUBSET (SUBSET U), B # {}
  PROVE  \E s \in B : \A t \in SUBSET U : t \subseteq s /\ t # s => t \notin B
<1> DEFINE R == StrictSubsetOrdering(U)
<1>1. IsWellFoundedOn(R, SUBSET U)
  BY FS_StrictSubsetOrderingWellFounded, FS_FiniteSubsetsOfFinite
<1>2. \A s, t \in SUBSET U : t \subseteq s /\ t # s => <<t, s>> \in R
  BY DEF StrictSubsetOrdering
<1> HIDE DEF R
<1>3. PICK s \in B : \A t \in B : <<t, s>> \notin R
  BY <1>1, WFMin
<1> QED
  BY <1>2, <1>3

\* A set of naturals has a least member, and Min is it.
LEMMA LeastId ==
  ASSUME NEW S \in SUBSET Nat, S # {}
  PROVE  Min(S) \in S /\ \A m \in S : Min(S) <= m
<1> DEFINE R == OpToRel(<, Nat)
<1>1. IsWellFoundedOn(R, Nat)
  BY NatLessThanWellFounded
<1>2. \A x, y \in Nat : <<x, y>> \in R <=> x < y
  BY DEF OpToRel
<1> HIDE DEF R
<1>3. PICK n \in S : \A m \in S : <<m, n>> \notin R
  BY <1>1, WFMin
<1>4. \A m \in S : ~(m < n)
  BY <1>2, <1>3
<1>5. \E x \in S : \A y \in S : x <= y
  BY <1>4
<1> QED
  BY <1>5 DEF Min

\* A finite set of naturals that is not empty has a greatest member, and Max is it.
LEMMA GreatestOf ==
  ASSUME NEW S, S \subseteq Nat, IsFiniteSet(S), S # {}
  PROVE  Max(S) \in S /\ \A m \in S : m <= Max(S)
<1> DEFINE above(n) == {m \in S : m > n}
           B == {above(n) : n \in S}
<1>1. PICK b \in B : \A t \in SUBSET S : t \subseteq b /\ t # b => t \notin B
  <2>1. B \in SUBSET (SUBSET S) /\ B # {}
    OBVIOUS
  <2>2. \A Q \in SUBSET (SUBSET S) : Q # {} =>
          \E s \in Q : \A t \in SUBSET S : t \subseteq s /\ t # s => t \notin Q
    BY ONLY IsFiniteSet(S), SmallestSubset
  <2> HIDE DEF B
  <2> QED
    BY ONLY <2>1, <2>2, B # {}
<1>2. PICK n \in S : b = above(n)
  OBVIOUS
<1>3. \A m \in S : m <= n
  <2> SUFFICES ASSUME NEW m \in S, m > n PROVE FALSE
    OBVIOUS
  <2>1. above(m) \subseteq above(n)
    <3>1. \A l \in S : l > m => l > n
      OBVIOUS
    <3> QED
      BY <3>1
  <2>2. m \in above(n) /\ m \notin above(m)
    OBVIOUS
  <2>3. above(m) \in B
    OBVIOUS
  <2> QED
    BY <1>1, <1>2, <2>1, <2>2, <2>3
<1>4. \E x \in S : \A y \in S : x >= y
  BY <1>3
<1>5. Max(S) \in S /\ \A y \in S : Max(S) >= y
  BY <1>4 DEF Max
<1> QED
  BY <1>5

\* A finite set of naturals can be listed in order, and Ordered does.
Lists(s, S) ==
  /\ s \in [1..Cardinality(S) -> S]
  /\ \A i \in S : \E n \in DOMAIN s : s[n] = i
  /\ \A m, n \in DOMAIN s : m < n => s[m] < s[n]

LEMMA ListExists ==
  ASSUME NEW S, S \subseteq Nat, IsFiniteSet(S)
  PROVE  \E s : Lists(s, S)
<1> DEFINE B == {t \in SUBSET S : ~ \E s : Lists(s, t)}
<1> SUFFICES ASSUME B # {} PROVE FALSE
  OBVIOUS
<1>1. PICK t \in B : \A u \in SUBSET S : u \subseteq t /\ u # t => u \notin B
  <2>1. B \in SUBSET (SUBSET S)
    OBVIOUS
  <2>2. \A Q \in SUBSET (SUBSET S) : Q # {} =>
          \E s \in Q : \A t \in SUBSET S : t \subseteq s /\ t # s => t \notin Q
    BY ONLY IsFiniteSet(S), SmallestSubset
  <2> HIDE DEF B
  <2> QED
    BY ONLY <2>1, <2>2, B # {}
<1>2. t \in SUBSET S /\ IsFiniteSet(t) /\ ~ \E s : Lists(s, t)
  BY <1>1, FS_Subset
<1>3. CASE t = {}
  <2>1. Cardinality(t) = 0
    BY <1>3, FS_EmptySet
  <2>2. Lists([n \in 1..0 |-> 0], t)
    BY <1>3, <2>1 DEF Lists
  <2> QED
    BY <1>2, <2>2
<1>4. CASE t # {}
  <2> DEFINE x == Max(t)
             u == t \ {x}
             n == Cardinality(u)
  <2>1. x \in t /\ \A m \in t : m <= x
    BY <1>2, <1>4, GreatestOf
  <2>2. u \in SUBSET S /\ u \subseteq t /\ u # t
    BY <2>1, <1>2
  <2>3. PICK s : Lists(s, u)
    BY <2>2, <1>1
  <2>4. IsFiniteSet(u) /\ n \in Nat /\ Cardinality(t) = n + 1
    <3>1. IsFiniteSet(u)
      BY <1>2, <2>2, FS_Subset
    <3>2. n \in Nat
      BY <3>1, FS_CardinalityType
    <3>3. Cardinality(u \cup {x}) = n + 1
      BY <3>1, FS_AddElement
    <3>4. u \cup {x} = t
      BY <2>1
    <3> QED
      BY <3>1, <3>2, <3>3, <3>4
  <2> HIDE DEF x, u, n
  <2> DEFINE w == [m \in 1..(n + 1) |-> IF m <= n THEN s[m] ELSE x]
  <2>5. s \in [1..n -> u] /\ (\A i \in u : \E m \in 1..n : s[m] = i)
        /\ \A m, l \in 1..n : m < l => s[m] < s[l]
    BY <2>3 DEF Lists, n
  <2>6. \A i \in u : i \in Nat /\ i < x
    <3>1. \A i \in u : i \in t /\ i # x /\ i \in Nat
      BY <1>2 DEF u
    <3> QED
      BY <3>1, <2>1, <1>2
  <2>7. w \in [1..(n + 1) -> t]
    <3>1. \A m \in 1..(n + 1) : m <= n => m \in 1..n
      BY <2>4
    <3>2. \A m \in 1..n : s[m] \in t
      BY <2>5, <2>2
    <3> QED
      BY <3>1, <3>2, <2>1
  <2>8. \A i \in t : \E m \in 1..(n + 1) : w[m] = i
    <3> SUFFICES ASSUME NEW i \in t PROVE \E m \in 1..(n + 1) : w[m] = i
      OBVIOUS
    <3>1. CASE i = x
      <4>1. n + 1 \in 1..(n + 1) /\ ~(n + 1 <= n)
        BY <2>4
      <4>2. w[n + 1] = x
        BY <4>1
      <4> QED
        BY <3>1, <4>1, <4>2
    <3>2. CASE i # x
      <4>1. PICK m \in 1..n : s[m] = i
        BY <3>2, <2>5 DEF u
      <4>2. m \in 1..(n + 1) /\ m <= n
        BY <2>4
      <4> QED
        BY <4>1, <4>2
    <3> QED
      BY <3>1, <3>2
  <2>9. \A m, l \in 1..(n + 1) : m < l => w[m] < w[l]
    <3> SUFFICES ASSUME NEW m \in 1..(n + 1), NEW l \in 1..(n + 1), m < l PROVE w[m] < w[l]
      OBVIOUS
    <3>1. m \in 1..n /\ w[m] = s[m]
      BY <2>4
    <3>2. CASE l <= n
      <4>1. l \in 1..n /\ w[l] = s[l]
        BY <3>2, <2>4
      <4> QED
        BY <3>1, <4>1, <2>5
    <3>3. CASE ~(l <= n)
      <4>1. w[l] = x
        BY <3>3
      <4> QED
        BY <3>1, <4>1, <2>5, <2>6
    <3> QED
      BY <3>2, <3>3
  <2>10. Lists(w, t)
    <3>1. DOMAIN w = 1..(n + 1)
      OBVIOUS
    <3> HIDE DEF w
    <3> QED
      BY <3>1, <2>4, <2>7, <2>8, <2>9 DEF Lists
  <2> QED
    BY <2>10, <1>2
<1> QED
  BY <1>3, <1>4

LEMMA OrderedLists ==
  ASSUME NEW S, S \subseteq Nat, IsFiniteSet(S)
  PROVE  Lists(Ordered(S), S)
<1>1. PICK s : Lists(s, S)
  BY ListExists
<1>2. \E f \in [1..Cardinality(S) -> S] :
        /\ \A i \in S : \E n \in DOMAIN f : f[n] = i
        /\ \A m, n \in DOMAIN f : m < n => f[m] < f[n]
  BY <1>1 DEF Lists
<1> QED
  BY <1>2 DEF Ordered, Lists

-----------------------------------------------------------------------------
(* What each statement does to the tables, and says *)

\* The smaller of two.
LEMMA MinOfTwo ==
  ASSUME NEW a \in Nat, NEW b \in Nat
  PROVE  Min({a, b}) = IF a <= b THEN a ELSE b
<1>1. Min({a, b}) \in {a, b} /\ \A m \in {a, b} : Min({a, b}) <= m
  BY LeastId
<1> QED
  BY <1>1

\* Ids are numbers, finitely many, and what is present is some of them.
LEMMA PresentFinite ==
  ASSUME NEW t
  PROVE  /\ Present(t) \subseteq Ids /\ Ids \subseteq Nat /\ 0 \notin Ids
         /\ \A S : S \subseteq Ids => IsFiniteSet(S)
<1>1. Ids \subseteq Nat \ {0} /\ IsFiniteSet(Ids)
  BY DirectoryAssumption
<1> QED
  BY <1>1, FS_Subset DEF Present

\* A page of the namespaces after the cursor.
LEMMA PageOf ==
  ASSUME NEW t, NEW cursor \in Ids \cup {0}, NEW limit \in Nat \ {0},
         NEW al, NEW ev, al \subseteq Present(t), Present(t) \subseteq ev
  PROVE  LET x == list_namespaces(t, cursor, limit)
         IN /\ x.db = t /\ x.reply.kind = "Found"
            /\ PageFits(x.reply.value.page, x.reply.value.next, cursor, al, ev)
<1> DEFINE S == {i \in Present(t) : i > cursor}
           after == Ordered(S)
           N == Cardinality(S)
           n == IF limit <= N THEN limit ELSE N
           page == SubSeq(after, 1, Min({limit, Len(after)}))
           next == IF Len(after) > limit THEN Last(page) ELSE 0
<1>1. S \subseteq Ids /\ S \subseteq Nat /\ IsFiniteSet(S) /\ 0 \notin Ids /\ Ids \subseteq Nat
  BY PresentFinite
<1>2. N \in Nat
  BY <1>1, FS_CardinalityType
<1>3. Lists(after, S)
  BY <1>1, OrderedLists
<1> HIDE DEF after, N
<1>4. /\ after \in [1..N -> S]
      /\ \A i \in S : \E m \in 1..N : after[m] = i
      /\ \A m, l \in 1..N : m < l => after[m] < after[l]
  BY <1>3 DEF Lists, N
<1>5. after \in Seq(Ids) /\ Len(after) = N
  BY <1>4, <1>2, <1>1
<1>6. page = [m \in 1..n |-> after[m]] /\ n \in 0..N /\ Len(page) = n /\ page \in Seq(Ids)
  <2>1. Min({limit, Len(after)}) = n /\ n \in 0..N
    BY <1>5, <1>2, MinOfTwo
  <2>2. SubSeq(after, 1, n) = [m \in 1..n |-> after[m]]
    BY <2>1, <1>5, <1>2
  <2> HIDE DEF n
  <2>3. \A m \in 1..n : m \in 1..N
    BY <2>1, <1>2
  <2>4. [m \in 1..n |-> after[m]] \in [1..n -> Ids]
    BY <2>3, <1>4, <1>1
  <2>5. n \in Nat
    BY <2>1, <1>2
  <2>6. page = [m \in 1..n |-> after[m]]
    BY <2>1, <2>2
  <2> HIDE DEF page
  <2>7. page \in [1..n -> Ids]
    BY <2>4, <2>6
  <2>8. Len(page) = n /\ page \in Seq(Ids)
    BY ONLY <2>5, <2>7
  <2> QED
    BY <2>1, <2>6, <2>8
<1> HIDE DEF page
<1>7. DOMAIN page = 1..n /\ \A m \in 1..n : m \in 1..N /\ page[m] = after[m]
  BY <1>6, <1>2
<1>8. Increasing(page)
  BY <1>7, <1>4 DEF Increasing
<1>9. Members(page) \subseteq ev /\ \A i \in Members(page) : i > cursor
  <2>1. \A m \in 1..n : page[m] \in S
    BY <1>7, <1>4
  <2> QED
    BY <2>1, <1>7 DEF Members
<1>10. next \in Ids \cup {0} /\ (next # 0 => next > cursor)
       /\ (\A i \in Members(page) : next # 0 => i <= next)
       /\ \A i \in al : i > cursor /\ (next # 0 => i <= next) => i \in Members(page)
  <2>1. CASE N > limit
    <3>1. n = limit /\ n \in 1..n /\ next = page[n]
      BY <2>1, <1>2, <1>5, <1>6 DEF Last
    <3>2. next = after[n] /\ next \in S /\ n \in 1..N
      BY <3>1, <1>7, <1>4
    <3>3. next \in Ids /\ next # 0 /\ next > cursor
      BY <3>2, <1>1
    <3>4. \A i \in Members(page) : i <= next
      <4> SUFFICES ASSUME NEW m \in 1..n PROVE page[m] <= next
        BY <1>7 DEF Members
      <4>1. m \in 1..N /\ n \in 1..N /\ page[m] = after[m] /\ (m < n \/ m = n)
        BY <3>2, <1>7, <1>6, <1>2
      <4>2. after[m] \in Nat /\ after[n] \in Nat
        BY <4>1, <1>4, <1>1
      <4> QED
        BY <4>1, <4>2, <3>2, <1>4
    <3>5. ASSUME NEW i \in al, i > cursor, i <= next PROVE i \in Members(page)
      <4>1. i \in S
        BY <3>5
      <4>2. PICK m \in 1..N : after[m] = i
        BY <4>1, <1>4
      <4>3. m <= n
        <5> SUFFICES ASSUME m > n PROVE FALSE
          BY <3>2, <1>2
        <5>1. after[n] < after[m]
          BY <3>2, <1>4
        <5>2. after[n] \in Nat /\ after[m] \in Nat
          BY <3>2, <1>4, <1>1
        <5> QED
          BY <5>1, <5>2, <4>2, <3>5, <3>2
      <4>4. m \in 1..n /\ page[m] = i
        BY <4>3, <4>2, <1>7, <3>2
      <4> QED
        BY <4>4, <1>7 DEF Members
    <3> HIDE DEF next
    <3> QED
      BY <3>3, <3>4, <3>5
  <2>2. CASE ~(N > limit)
    <3>1. n = N /\ next = 0
      BY <2>2, <1>2, <1>5
    <3>2. \A i \in al : i > cursor => i \in Members(page)
      <4> SUFFICES ASSUME NEW i \in al, i > cursor PROVE i \in Members(page)
        OBVIOUS
      <4>1. i \in S
        OBVIOUS
      <4>2. PICK m \in 1..N : after[m] = i
        BY <4>1, <1>4
      <4> QED
        BY <4>2, <3>1, <1>7 DEF Members
    <3> HIDE DEF next
    <3> QED
      BY <3>1, <3>2
  <2> QED
    BY <2>1, <2>2
<1>11. list_namespaces(t, cursor, limit) = Says(t, Found([page |-> page, next |-> next]))
  BY DEF list_namespaces, after, page
<1> HIDE DEF next
<1>12. PageFits(page, next, cursor, al, ev)
  BY <1>6, <1>8, <1>9, <1>10 DEF PageFits
<1> QED
  BY <1>11, <1>12 DEF Says, Found


\* None stands for no value.
LEMMA NoneIsNone ==
  /\ None \notin Attrs /\ None \notin Periods /\ None \notin Row /\ None \notin Cadence
  /\ None \notin Listing /\ Month \in Periods /\ MaxAmount \in Nat
  BY DirectoryAssumption DEF Row, Cadence, Listing

\* The parts a namespace's presence and what is left of it depend on.
LEMMA SoundParts ==
  ASSUME NEW t, NEW u, Sound(t), u \in Tables
  PROVE  /\ u.ns = t.ns => Present(u) = Present(t)
         /\ u.ns = t.ns /\ u.cadence = t.cadence /\ u.active = t.active /\ u.rows = t.rows => Sound(u)
         /\ \A i \in Ids : i \in Present(u) <=> u.ns[i] # None
  BY DEF Sound, Present, NothingLeft

LEMMA PutNamespace ==
  ASSUME NEW t, Sound(t), NEW i \in Ids, NEW a \in Attrs
  PROVE  LET x == put_namespace(t, i, a)
         IN /\ Sound(x.db) /\ Present(x.db) = Present(t) \cup {i}
            /\ x.reply.kind = IF i \in Present(t) THEN "Duplicate" ELSE "Ok"
<1> DEFINE g == IF t.gen[i] = 0 THEN 1 ELSE t.gen[i]
           u == [t EXCEPT !.ns[i] = a, !.gen[i] = g]
<1>0. t \in Tables
  BY DEF Sound
<1>1. CASE t.ns[i] # None
  BY <1>1 DEF put_namespace, Says, Error, Present
<1>2. CASE t.ns[i] = None
  <2>1. g \in Nat
    BY <1>0 DEF Tables
  <2>2. put_namespace(t, i, a) = Says(u, Ok)
    BY <1>2, <1>0 DEF put_namespace, Tables
  <2> HIDE DEF g
  <2>3. u \in Tables
    BY <2>1, <1>0 DEF Tables
  <2>4. /\ u.ns = [t.ns EXCEPT ![i] = a] /\ u.cadence = t.cadence /\ u.active = t.active
        /\ u.rows = t.rows
    BY <1>0 DEF Tables
  <2> HIDE DEF u
  <2>5. Present(u) = Present(t) \cup {i}
    BY <2>4, <1>0, NoneIsNone DEF Present, Tables
  <2>6. NothingLeft(u)
    BY <2>4, <2>5 DEF NothingLeft, Sound
  <2> QED
    BY <1>2, <2>2, <2>3, <2>5, <2>6 DEF Says, Ok, Present, Sound
<1> QED
  BY <1>1, <1>2

LEMMA UpdateNamespace ==
  ASSUME NEW t, Sound(t), NEW i \in Ids, NEW a \in Attrs
  PROVE  LET x == update_namespace(t, i, a)
         IN /\ Sound(x.db) /\ Present(x.db) = Present(t)
            /\ x.reply.kind = IF i \in Present(t) THEN "Found" ELSE "Absent"
<1> DEFINE u == [t EXCEPT !.ns[i] = a]
<1>0. t \in Tables
  BY DEF Sound
<1>1. CASE t.ns[i] = None
  BY <1>1 DEF update_namespace, Says, Absent, Present
<1>2. CASE t.ns[i] # None
  <2>2. update_namespace(t, i, a) = Says(u, Found(a))
    BY <1>2 DEF update_namespace
  <2>3. u \in Tables
    BY <1>0 DEF Tables
  <2>4. /\ u.ns = [t.ns EXCEPT ![i] = a] /\ u.cadence = t.cadence /\ u.active = t.active
        /\ u.rows = t.rows
    BY <1>0 DEF Tables
  <2> HIDE DEF u
  <2>5. Present(u) = Present(t)
    BY <1>2, <2>4, <1>0, NoneIsNone DEF Present, Tables
  <2>6. NothingLeft(u)
    BY <2>4, <2>5 DEF NothingLeft, Sound
  <2> QED
    BY <1>2, <2>2, <2>3, <2>5, <2>6 DEF Says, Found, Present, Sound
<1> QED
  BY <1>1, <1>2

LEMMA DeleteNamespace ==
  ASSUME NEW t, Sound(t), NEW i \in Ids
  PROVE  LET x == delete_namespace(t, i)
         IN Sound(x.db) /\ Present(x.db) = Present(t) \ {i} /\ x.reply.kind = "Ok"
<1> DEFINE g == IF t.ns[i] = None THEN t.gen[i] ELSE IF t.gen[i] = 0 THEN 2 ELSE t.gen[i] + 1
           u == [t EXCEPT !.ns[i] = None, !.cadence[i] = None, !.active[i] = None,
                          !.rows[i] = [p \in Periods |-> None], !.gen[i] = g]
<1>0. t \in Tables
  BY DEF Sound
<1>1. g \in Nat
  BY <1>0 DEF Tables
<1>2. delete_namespace(t, i) = Says(u, Ok)
  BY <1>0 DEF delete_namespace, Tables
<1> HIDE DEF g
<1>3. u \in Tables
  <2> DEFINE none == [p \in Periods |-> None]
  <2>1. none \in [Periods -> Row \cup {None}]
    OBVIOUS
  <2> HIDE DEF none
  <2> QED
    BY <1>0, <1>1, <2>1 DEF Tables, none
<1>4. /\ u.ns = [t.ns EXCEPT ![i] = None] /\ u.cadence = [t.cadence EXCEPT ![i] = None]
      /\ u.active = [t.active EXCEPT ![i] = None]
      /\ u.rows = [t.rows EXCEPT ![i] = [p \in Periods |-> None]]
  BY <1>0 DEF Tables
<1> HIDE DEF u
<1>5. Present(u) = Present(t) \ {i}
  BY <1>4, <1>0 DEF Present, Tables
<1>6. NothingLeft(u)
  BY <1>0, <1>4, <1>5 DEF NothingLeft, Sound, Tables
<1> QED
  BY <1>2, <1>3, <1>5, <1>6 DEF Says, Ok, Sound

\* A row is written for one namespace, in one period.
LEMMA Upserted ==
  ASSUME NEW rows \in [Ids -> [Periods -> Row \cup {None}]], NEW i \in Ids, NEW p \in Periods,
         NEW l \in 0..MaxAmount
  PROVE  /\ UpsertRow(rows, i, p, l) \in [Ids -> [Periods -> Row \cup {None}]]
         /\ \A j \in Ids \ {i} : UpsertRow(rows, i, p, l)[j] = rows[j]
<1> DEFINE old == rows[i][p]
           new == IF old = None THEN [limit |-> l, spent |-> 0] ELSE [old EXCEPT !.limit = l]
<1>1. old \in Row \cup {None}
  OBVIOUS
<1>2. new \in Row
  <2>1. 0 \in 0..MaxAmount
    BY NoneIsNone
  <2> HIDE DEF old
  <2> QED
    BY <1>1, <2>1 DEF Row
<1>3. UpsertRow(rows, i, p, l) = [rows EXCEPT ![i] = [rows[i] EXCEPT ![p] = new]]
  BY DEF UpsertRow
<1> HIDE DEF new
<1>4. [rows[i] EXCEPT ![p] = new] \in [Periods -> Row \cup {None}]
  BY <1>2
<1> QED
  BY <1>3, <1>4

\* Tables whose budget of one namespace that is there changed are sound.
LEMMA BudgetOfOne ==
  ASSUME NEW t, NEW u, Sound(t), u \in Tables, NEW i \in Present(t), u.ns = t.ns,
         \A j \in Ids \ {i} : /\ u.cadence[j] = t.cadence[j] /\ u.active[j] = t.active[j]
                              /\ u.rows[j] = t.rows[j]
  PROVE  Sound(u) /\ Present(u) = Present(t)
<1>1. Present(u) = Present(t)
  BY DEF Present
<1>2. NothingLeft(u)
  BY <1>1 DEF NothingLeft, Sound
<1> QED
  BY <1>1, <1>2 DEF Sound

LEMMA PutBudget ==
  ASSUME NEW t, Sound(t), NEW i \in Ids, NEW p \in Periods, NEW l \in Nat
  PROVE  LET x == put_budget(t, i, p, l)
         IN /\ Sound(x.db) /\ Present(x.db) = Present(t)
            /\ x.reply.kind = IF l > MaxAmount THEN "Invalid"
                              ELSE IF i \in Present(t) THEN "Found" ELSE "NotFound"
<1> DEFINE rows == UpsertRow(t.rows, i, p, l)
           u == [t EXCEPT !.active[i] = p, !.rows = rows]
<1>0. t \in Tables
  BY DEF Sound
<1>1. CASE l > MaxAmount \/ t.ns[i] = None
  BY <1>1 DEF put_budget, Says, Error, Present
<1>2. CASE ~(l > MaxAmount) /\ t.ns[i] # None
  <2>1. t.rows \in [Ids -> [Periods -> Row \cup {None}]] /\ l \in 0..MaxAmount /\ i \in Present(t)
    BY <1>0, <1>2, NoneIsNone DEF Tables, Present
  <2>2. rows \in [Ids -> [Periods -> Row \cup {None}]] /\ \A j \in Ids \ {i} : rows[j] = t.rows[j]
    BY <2>1, Upserted
  <2>3. put_budget(t, i, p, l) = Says(u, Found(BudgetRecord(u, i, p)))
    BY <1>2 DEF put_budget
  <2> HIDE DEF rows
  <2>4. u \in Tables
    BY <1>0, <2>2 DEF Tables
  <2>5. /\ u.ns = t.ns /\ u.cadence = t.cadence /\ u.rows = rows
        /\ u.active = [t.active EXCEPT ![i] = p]
    BY <1>0 DEF Tables
  <2> HIDE DEF u
  <2>6. \A j \in Ids \ {i} : u.active[j] = t.active[j]
    BY <2>5, <1>0 DEF Tables
  <2>7. Sound(u) /\ Present(u) = Present(t)
    BY <2>1, <2>2, <2>4, <2>5, <2>6, BudgetOfOne
  <2> QED
    BY <1>2, <2>1, <2>3, <2>7 DEF Says, Found
<1> QED
  BY <1>1, <1>2

\* What a put of a policy answers.
PolicyAnswer(t, i, p, l, kind, x) ==
  \/ x.reply.kind = "Invalid"
     /\ (l > MaxAmount \/ (kind = "fixed" /\ p = None /\ i \in Present(t)))
  \/ x.reply.kind = "NotFound" /\ i \notin Present(t)
  \/ x.reply.kind = "Found" /\ i \in Present(t)

LEMMA PutPolicy ==
  ASSUME NEW t, Sound(t), NEW i \in Ids, NEW p \in Periods \cup {None}, NEW l \in Nat,
         NEW kind \in {"fixed", "monthly"}
  PROVE  LET x == put_budget_policy(t, i, kind, l, p)
         IN Sound(x.db) /\ Present(x.db) = Present(t) /\ PolicyAnswer(t, i, p, l, kind, x)
<1> DEFINE period == IF kind = "monthly" THEN Month ELSE IF p = None THEN t.active[i] ELSE p
           rows == UpsertRow(t.rows, i, period, l)
           act == IF kind = "fixed" THEN period ELSE t.active[i]
           cad == [kind |-> kind, limit |-> l]
           u == [t EXCEPT !.cadence[i] = cad, !.active[i] = act, !.rows = rows]
<1>0. t \in Tables
  BY DEF Sound
<1>1. CASE l > MaxAmount \/ t.ns[i] = None \/ period = None
  BY <1>1, NoneIsNone DEF put_budget_policy, Says, Error, Present, PolicyAnswer
<1>2. CASE ~(l > MaxAmount) /\ t.ns[i] # None /\ period # None
  <2>1. t.rows \in [Ids -> [Periods -> Row \cup {None}]] /\ l \in 0..MaxAmount /\ i \in Present(t)
        /\ period \in Periods /\ act \in Periods \cup {None} /\ cad \in Cadence
    BY <1>0, <1>2, NoneIsNone DEF Tables, Present, Cadence
  <2>2. rows \in [Ids -> [Periods -> Row \cup {None}]] /\ \A j \in Ids \ {i} : rows[j] = t.rows[j]
    <3> HIDE DEF period
    <3> QED
      BY <2>1, Upserted
  <2>3. put_budget_policy(t, i, kind, l, p) = Says(u, Found(Policy(kind, period, u.rows[i][period])))
    BY <1>0, <1>2 DEF put_budget_policy, Tables
  <2> HIDE DEF rows, act, cad
  <2>4. u \in Tables
    BY <1>0, <2>1, <2>2 DEF Tables
  <2>5. /\ u.ns = t.ns /\ u.cadence = [t.cadence EXCEPT ![i] = cad] /\ u.rows = rows
        /\ u.active = [t.active EXCEPT ![i] = act]
    BY <1>0 DEF Tables
  <2> HIDE DEF u
  <2>6. \A j \in Ids \ {i} : u.active[j] = t.active[j] /\ u.cadence[j] = t.cadence[j]
    BY <2>5, <1>0 DEF Tables
  <2>7. Sound(u) /\ Present(u) = Present(t)
    BY <2>1, <2>2, <2>4, <2>5, <2>6, BudgetOfOne
  <2> QED
    BY <1>2, <2>1, <2>3, <2>7 DEF Says, Found, PolicyAnswer
<1> QED
  BY <1>1, <1>2

LEMMA Resolve ==
  ASSUME NEW t, Sound(t), NEW i \in Ids
  PROVE  LET x == resolve_namespace(t, i)
         IN /\ Sound(x.db) /\ Present(x.db) = Present(t)
            /\ x.reply.kind = IF i \in Present(t) THEN "Found" ELSE "Absent"
<1> DEFINE row == [limit |-> t.cadence[i].limit, spent |-> 0]
           u == [t EXCEPT !.rows[i][Month] = row]
           monthly == t.cadence[i] # None /\ t.cadence[i].kind = "monthly"
<1>0. t \in Tables
  BY DEF Sound
<1>1. CASE t.ns[i] = None
  BY <1>1 DEF resolve_namespace, Says, Absent, Present
<1>2. CASE t.ns[i] # None /\ ~(monthly /\ t.rows[i][Month] = None)
  BY <1>2 DEF resolve_namespace, Says, Found, Present
<1>3. CASE t.ns[i] # None /\ monthly /\ t.rows[i][Month] = None
  <2>1. row \in Row
    <3>1. t.cadence[i] \in Cadence /\ 0 \in 0..MaxAmount
      BY <1>0, <1>3, NoneIsNone DEF Tables
    <3> QED
      BY <3>1 DEF Cadence, Row
  <2>2. resolve_namespace(t, i).db = u /\ resolve_namespace(t, i).reply.kind = "Found"
    BY <1>3 DEF resolve_namespace, Says, Found
  <2> HIDE DEF row
  <2>3. u \in Tables
    BY <1>0, <2>1, NoneIsNone DEF Tables
  <2>4. /\ u.ns = t.ns /\ u.cadence = t.cadence /\ u.active = t.active
        /\ u.rows = [t.rows EXCEPT ![i][Month] = row]
    BY <1>0 DEF Tables
  <2> HIDE DEF u
  <2>5. \A j \in Ids \ {i} : u.rows[j] = t.rows[j]
    BY <2>4, <1>0 DEF Tables
  <2>6. i \in Present(t)
    BY <1>3 DEF Present
  <2>7. Sound(u) /\ Present(u) = Present(t)
    BY <2>3, <2>4, <2>5, <2>6, BudgetOfOne
  <2> QED
    BY <2>2, <2>6, <2>7
<1> QED
  BY <1>1, <1>2, <1>3

\* The usage index and the listings leave the namespaces alone.
LEMMA Appended ==
  ASSUME NEW t, Sound(t), NEW events \in SUBSET Records
  PROVE  LET x == append_usage_batch(t, events)
         IN Sound(x.db) /\ Present(x.db) = Present(t) /\ x.reply.kind = "Ok"
<1> DEFINE more == t.usage \cup {e \in events : \A x \in t.usage : x.request # e.request}
           u == [t EXCEPT !.usage = more]
<1>0. t \in Tables
  BY DEF Sound
<1>1. more \in SUBSET Records
  BY <1>0 DEF Tables
<1>2. append_usage_batch(t, events) = Says(u, Ok)
  BY <1>0 DEF append_usage_batch, Tables
<1> HIDE DEF more
<1>3. u \in Tables /\ u.ns = t.ns /\ u.cadence = t.cadence /\ u.active = t.active /\ u.rows = t.rows
  BY <1>0, <1>1 DEF Tables
<1> HIDE DEF u
<1> QED
  BY <1>2, <1>3, SoundParts DEF Says, Ok

LEMMA ListingOnly ==
  ASSUME NEW t, Sound(t), NEW x \in Listing
  PROVE  Sound([t EXCEPT !.listing = x]) /\ Present([t EXCEPT !.listing = x]) = Present(t)
<1> DEFINE u == [t EXCEPT !.listing = x]
<1>0. t \in Tables
  BY DEF Sound
<1>1. u \in Tables /\ u.ns = t.ns /\ u.cadence = t.cadence /\ u.active = t.active /\ u.rows = t.rows
  BY <1>0 DEF Tables
<1> HIDE DEF u
<1>2. Sound(u) /\ Present(u) = Present(t)
  BY <1>1, SoundParts
<1> QED
  BY <1>2 DEF u

LEMMA ListingSteps ==
  ASSUME NEW t, Sound(t), NEW source \in Sources,
         NEW x \in {put_provider_models(t, source), StaleUnless(t, source), StaleIf(t, source)}
  PROVE  Sound(x.db) /\ Present(x.db) = Present(t)
<1>0. t \in Tables /\ t.listing \in Listing \cup {None}
  BY DEF Sound, Tables
<1>1. [source |-> source, stale |-> FALSE] \in Listing
  BY DEF Listing
<1>2. ASSUME t.listing # None
      PROVE  /\ [t.listing EXCEPT !.stale = TRUE] \in Listing
             /\ [t EXCEPT !.listing.stale = TRUE] = [t EXCEPT !.listing = [t.listing EXCEPT !.stale = TRUE]]
  BY <1>0, <1>2 DEF Listing
<1>3. x.db = t \/ \E y \in Listing : x.db = [t EXCEPT !.listing = y]
  <2>1. CASE x = put_provider_models(t, source)
    BY <2>1, <1>1 DEF put_provider_models, Says
  <2>2. CASE x = StaleUnless(t, source)
    BY <2>2, <1>2 DEF StaleUnless, Says
  <2>3. CASE x = StaleIf(t, source)
    BY <2>3, <1>2 DEF StaleIf, Says
  <2> QED
    BY <2>1, <2>2, <2>3
<1> QED
  BY <1>3, ListingOnly

-----------------------------------------------------------------------------
(* A caller's statement *)

LEMMA ConfParts ==
  ASSUME conf \in Configs
  PROVE  /\ conf.backend \in {"postgres", "sqlite"} /\ conf.size \in Nat
         /\ conf.file \subseteq Ids /\ conf.indexed \in SUBSET Records /\ Sound(conf.tables)
         /\ \A c \in Callers : /\ conf.ops[c] \in Ops \cup {None}
                               /\ conf.ops[c] \in Ops => (conf.ops[c].op = "seed" => conf.file # {})
         /\ \A r \in Replicas : conf.sources[r] \in Sources \cup {None}
<1>1. conf \in ConfigType /\ NothingLeft(conf.tables)
      /\ \A c \in Callers : conf.ops[c] # None => (conf.ops[c].op = "seed" => conf.file # {})
  BY ManagementAssumption
<1>2. None \notin Ops
  BY ManagementAssumption
<1> QED
  BY <1>1, <1>2 DEF ConfigType, Sound

LEMMA OpParts ==
  ASSUME NEW o \in Ops
  PROVE  /\ o.id \in Ids /\ o.attrs \in Attrs \cup {None} /\ o.period \in Periods \cup {None}
         /\ o.limit \in Nat /\ o.cadence \in {"fixed", "monthly"} /\ o.page \in Nat
         /\ o.op \in {"create", "get", "replace", "delete", "list", "put_budget", "get_budget",
                      "put_policy", "policy", "usage", "infer", "append", "seed", "models"}
         /\ o.op = "seed" => o.attrs \in Attrs
<1>1. o \in OpType /\ (o.op = "seed" => o.attrs # None)
  BY ManagementAssumption
<1> QED
  BY <1>1 DEF OpType

\* The operation and the call it is in.
InCall(o, fn) ==
  \/ fn = "put_namespace" /\ o.op \in {"create", "seed"}
  \/ fn = "get_namespace" /\ o.op \in {"get", "usage", "policy"}
  \/ fn = "update_namespace" /\ o.op = "replace"
  \/ fn = "delete_namespace" /\ o.op = "delete"
  \/ fn = "list_namespaces" /\ o.op = "list"
  \/ fn = "put_budget" /\ o.op = "put_budget"
  \/ fn = "get_budget" /\ o.op = "get_budget"
  \/ fn = "put_budget_policy" /\ o.op = "put_policy"
  \/ fn = "resolve_namespace" /\ o.op = "infer"
  \/ fn = "append_usage_batch" /\ o.op = "append"
  \/ fn = "get_provider_models" /\ o.op = "models"
  \/ fn = "summarize_usage" /\ o.op = "usage"
  \/ fn = "get_budget_policy" /\ o.op = "policy"

LEMMA CallsKnown ==
  ASSUME NEW o \in Ops, NEW fn
  PROVE  fn \in CallsOf(o) <=> InCall(o, fn)
<1>1. o.op \in {"create", "get", "replace", "delete", "list", "put_budget", "get_budget",
                "put_policy", "policy", "usage", "infer", "append", "seed", "models"}
  BY OpParts
<1> QED
  BY <1>1 DEF CallsOf, FirstCall, InCall

\* A caller whose statement is, or may still be, under way.
Speaks(c) ==
  LET o == conf.ops[c]  k == caller[c] IN
  /\ conf \in Configs /\ Sound(db) /\ c \in Callers
  /\ Typed(k) /\ Asked(c, k) /\ k.call # "" /\ k.status # "ready"

LEMMA TargetIs ==
  ASSUME NEW c, Speaks(c)
  PROVE  /\ conf.ops[c] \in Ops /\ WellFormed(conf.ops[c]) /\ InCall(conf.ops[c], caller[c].call)
         /\ Target(c) \in Ids
         /\ conf.ops[c].op # "seed" => Target(c) = conf.ops[c].id
         /\ conf.ops[c].op = "seed" =>
              /\ Target(c) = First(caller[c]) /\ Target(c) \in caller[c].todo
              /\ Target(c) \in conf.file
<1>1. conf.ops[c] \in Ops /\ WellFormed(conf.ops[c]) /\ caller[c].call \in CallsOf(conf.ops[c])
      /\ (conf.ops[c].op = "seed" => caller[c].todo \subseteq conf.file /\ caller[c].todo # {})
  BY DEF Speaks, Asked
<1>2. conf.file \subseteq Ids /\ conf.ops[c].id \in Ids /\ Ids \subseteq Nat
  BY <1>1, ConfParts, OpParts, DirectoryAssumption DEF Speaks
<1>3. ASSUME conf.ops[c].op = "seed" PROVE First(caller[c]) \in caller[c].todo
  BY <1>1, <1>2, <1>3, LeastId DEF First
<1> QED
  BY <1>1, <1>2, <1>3, CallsKnown DEF Target, First

\* What a statement leaves of the tables: sound ones, that have the namespaces of
\* the file they had.
LEMMA StatementFollows ==
  ASSUME NEW c, Speaks(c)
  PROVE  Follows(db, Statement(c).db)
<1> DEFINE o == conf.ops[c]
           k == caller[c]
           i == Target(c)
<1>0. /\ Sound(db) /\ o \in Ops /\ WellFormed(o) /\ i \in Ids
      /\ conf.indexed \in SUBSET Records /\ InCall(o, k.call)
      /\ o.op # "seed" => i = o.id
  BY TargetIs, ConfParts DEF Speaks
<1>1. /\ o.limit \in Nat /\ o.cadence \in {"fixed", "monthly"} /\ o.period \in Periods \cup {None}
      /\ o.op \in {"create", "seed", "replace"} => o.attrs \in Attrs
      /\ o.op \in {"put_budget", "get_budget"} => o.period \in Periods
      /\ o.op = "delete" => o.id \notin conf.file
  BY <1>0, OpParts DEF WellFormed, Speaks, Asked
<1> USE DEF Follows
<1>2. CASE k.call = "put_namespace"
  <2>1. Statement(c).db = put_namespace(db, i, o.attrs).db /\ o.op \in {"create", "seed"}
    BY <1>2, <1>0 DEF Statement, InCall
  <2> QED
    BY <1>0, <1>1, <2>1, PutNamespace
<1>3. CASE k.call = "update_namespace"
  <2>1. Statement(c).db = update_namespace(db, i, o.attrs).db /\ o.op = "replace"
    BY <1>3, <1>0 DEF Statement, InCall
  <2> QED
    BY <1>0, <1>1, <2>1, UpdateNamespace
<1>4. CASE k.call = "delete_namespace"
  <2>1. Statement(c).db = delete_namespace(db, i).db /\ o.op = "delete"
    BY <1>4, <1>0 DEF Statement, InCall
  <2> QED
    BY <1>0, <1>1, <2>1, DeleteNamespace
<1>5. CASE k.call = "put_budget"
  <2>1. Statement(c).db = put_budget(db, i, o.period, o.limit).db /\ o.op = "put_budget"
    BY <1>5, <1>0 DEF Statement, InCall
  <2> QED
    BY <1>0, <1>1, <2>1, PutBudget
<1>6. CASE k.call = "put_budget_policy"
  <2>1. Statement(c).db = put_budget_policy(db, i, o.cadence, o.limit, o.period).db
    BY <1>6, <1>0 DEF Statement
  <2> QED
    <3>1. /\ Sound(put_budget_policy(db, i, o.cadence, o.limit, o.period).db)
          /\ Present(put_budget_policy(db, i, o.cadence, o.limit, o.period).db) = Present(db)
      <4>1. /\ Sound(db) /\ i \in Ids /\ o.period \in Periods \cup {None} /\ o.limit \in Nat
            /\ o.cadence \in {"fixed", "monthly"}
        BY <1>0, <1>1
      <4> HIDE DEF o, i
      <4> QED
        BY ONLY <4>1, PutPolicy
    <3> QED
      BY <2>1, <3>1
<1>7. CASE k.call = "resolve_namespace"
  <2>1. Statement(c).db = resolve_namespace(db, i).db
    BY <1>7, <1>0 DEF Statement
  <2> QED
    BY <1>0, <2>1, Resolve
<1>8. CASE k.call = "append_usage_batch"
  <2>1. Statement(c).db = append_usage_batch(db, conf.indexed).db
    BY <1>8, <1>0 DEF Statement
  <2> QED
    BY <1>0, <2>1, Appended
<1>9. CASE k.call \in {"get_namespace", "list_namespaces", "get_budget", "summarize_usage",
                       "get_provider_models", "get_budget_policy"}
  <2>1. Statement(c).db = db
    BY <1>9 DEF Statement, get_namespace, list_namespaces, get_budget, summarize_usage,
       get_provider_models, get_budget_policy, Says
  <2> QED
    BY <1>0, <2>1
<1> QED
  BY <1>0, <1>2, <1>3, <1>4, <1>5, <1>6, <1>7, <1>8, <1>9 DEF InCall

\* What the last statement of a call says is true of the tables it leaves.
LEMMA StatementFits ==
  ASSUME NEW c, Speaks(c), NEW al, NEW ev, caller[c].pc \in Active,
         Knows(c, caller[c], db, al, ev), Statement(c).next = ""
  PROVE  LET s == Statement(c)
             t == s.db
         IN Told(c, caller[c], s.reply, t, al \cap Present(t), ev \cup Present(t))
<1> DEFINE o == conf.ops[c]
           k == caller[c]
           i == Target(c)
           s == Statement(c)
           t == s.db
<1> USE DEF Told
<1>0. /\ Sound(db) /\ o \in Ops /\ WellFormed(o) /\ i \in Ids
      /\ conf.indexed \in SUBSET Records /\ InCall(o, k.call)
      /\ o.op # "seed" => i = o.id
      /\ o.op = "seed" => i = First(k)
  BY TargetIs, ConfParts DEF Speaks
<1>1. /\ o.limit \in Nat /\ o.cadence \in {"fixed", "monthly"} /\ o.period \in Periods \cup {None}
      /\ o.op \in {"create", "seed", "replace"} => o.attrs \in Attrs
      /\ o.op \in {"put_budget", "get_budget"} => o.period \in Periods
      /\ o.op = "list" => o.page \in Nat \ {0}
      /\ k.cursor \in Ids \cup {0}
  <2>1. /\ o.limit \in Nat /\ o.cadence \in {"fixed", "monthly"}
        /\ o.period \in Periods \cup {None} /\ o.attrs \in Attrs \cup {None} /\ o.page \in Nat
        /\ o.op = "seed" => o.attrs \in Attrs
    BY <1>0, OpParts
  <2>2. k.cursor \in Ids \cup {0}
    BY DEF Speaks, Typed
  <2>3. /\ o.op \in {"create", "replace"} => o.attrs \in Attrs
        /\ o.op \in {"put_budget", "get_budget"} => o.period \in Periods
        /\ o.op = "list" => o.page > 0
    <3> HIDE DEF o
    <3> QED
      BY ONLY <1>0 DEF WellFormed
  <2> HIDE DEF o, k
  <2> QED
    BY ONLY <2>1, <2>2, <2>3
<1>2. /\ al \subseteq Present(db) /\ Present(db) \subseteq ev
      /\ k.call \in {"summarize_usage", "get_budget_policy"} => o.id \in ev
  BY DEF Knows, Seen
<1>3. CASE k.call = "put_namespace"
  <2> DEFINE x == put_namespace(db, i, o.attrs)
  <2>1. t = x.db /\ s.reply = x.reply
        /\ o.op \in {"create", "seed"}
    BY <1>3, <1>0 DEF Statement, InCall
  <2>2. Present(x.db) = Present(db) \cup {i}
        /\ x.reply.kind = IF i \in Present(db) THEN "Duplicate" ELSE "Ok"
    <3>1. Sound(db) /\ i \in Ids /\ o.attrs \in Attrs
      BY <1>0, <1>1, <2>1
    <3> HIDE DEF o, i
    <3> QED
      BY ONLY <3>1, PutNamespace
  <2> HIDE DEF s, t, x
  <2> QED
    BY <1>0, <1>2, <1>3, <2>1, <2>2 DEF Fits, MayReply, SeedFits, Silent, s, t
<1>4. CASE k.call = "update_namespace"
  <2> DEFINE x == update_namespace(db, i, o.attrs)
  <2>1. t = x.db /\ s.reply = x.reply
        /\ o.op = "replace"
    BY <1>4, <1>0 DEF Statement, InCall
  <2>2. Present(x.db) = Present(db) /\ x.reply.kind = IF i \in Present(db) THEN "Found" ELSE "Absent"
    <3>1. Sound(db) /\ i \in Ids /\ o.attrs \in Attrs
      BY <1>0, <1>1, <2>1
    <3> HIDE DEF o, i
    <3> QED
      BY ONLY <3>1, UpdateNamespace
  <2> HIDE DEF s, t, x
  <2> QED
    BY <1>0, <1>2, <1>4, <2>1, <2>2 DEF Fits, MayReply, Silent, Lookups, s, t
<1>5. CASE k.call = "delete_namespace"
  <2> DEFINE x == delete_namespace(db, i)
  <2>1. t = x.db /\ s.reply = x.reply
        /\ o.op = "delete"
    BY <1>5, <1>0 DEF Statement, InCall
  <2>2. Present(x.db) = Present(db) \ {i} /\ x.reply.kind = "Ok"
    <3>1. Sound(db) /\ i \in Ids
      BY <1>0, <1>1, <2>1
    <3> HIDE DEF o, i
    <3> QED
      BY ONLY <3>1, DeleteNamespace
  <2> HIDE DEF s, t, x
  <2> QED
    BY <1>0, <1>2, <1>5, <2>1, <2>2 DEF Fits, MayReply, Silent, s, t
<1>6. CASE k.call = "put_budget"
  <2> DEFINE x == put_budget(db, i, o.period, o.limit)
  <2>1. t = x.db
        /\ s.reply = x.reply /\ o.op = "put_budget"
    BY <1>6, <1>0 DEF Statement, InCall
  <2>2. Present(x.db) = Present(db)
        /\ x.reply.kind = IF o.limit > MaxAmount THEN "Invalid"
                          ELSE IF i \in Present(db) THEN "Found" ELSE "NotFound"
    <3>1. Sound(db) /\ i \in Ids /\ o.period \in Periods /\ o.limit \in Nat
      BY <1>0, <1>1, <2>1
    <3> HIDE DEF o, i
    <3> QED
      BY ONLY <3>1, PutBudget
  <2> HIDE DEF s, t, x
  <2> QED
    BY <1>0, <1>2, <1>6, <2>1, <2>2 DEF Fits, MayReply, Silent, s, t
<1>7. CASE k.call = "put_budget_policy"
  <2> DEFINE x == put_budget_policy(db, i, o.cadence, o.limit, o.period)
  <2>1. t = x.db /\ s.reply = x.reply /\ o.op = "put_policy"
    BY <1>7, <1>0 DEF Statement, InCall
  <2>2. Present(x.db) = Present(db)
        /\ \/ x.reply.kind = "Invalid" /\ (o.limit > MaxAmount
                \/ (o.cadence = "fixed" /\ o.period = None /\ i \in Present(db)))
           \/ x.reply.kind = "NotFound" /\ i \notin Present(db)
           \/ x.reply.kind = "Found" /\ i \in Present(db)
    <3>1. /\ Sound(db) /\ i \in Ids /\ o.period \in Periods \cup {None} /\ o.limit \in Nat
          /\ o.cadence \in {"fixed", "monthly"}
      BY <1>0, <1>1
    <3>2. Present(x.db) = Present(db) /\ PolicyAnswer(db, i, o.period, o.limit, o.cadence, x)
      <4> HIDE DEF o, i
      <4> QED
        BY ONLY <3>1, PutPolicy
    <3> QED
      BY ONLY <3>2 DEF PolicyAnswer
  <2> HIDE DEF s, t, x
  <2> QED
    BY <1>0, <1>2, <1>7, <2>1, <2>2 DEF Fits, MayReply, Silent, s, t
<1>8. CASE k.call = "resolve_namespace"
  <2>1. t = resolve_namespace(db, i).db /\ s.reply = resolve_namespace(db, i).reply /\ o.op = "infer"
    BY <1>8, <1>0 DEF Statement, InCall
  <2>2. Present(t) = Present(db) /\ s.reply.kind = IF i \in Present(db) THEN "Found" ELSE "Absent"
    BY <1>0, <2>1, Resolve
  <2> HIDE DEF s, t
  <2> QED
    BY <1>0, <1>2, <1>8, <2>1, <2>2 DEF Fits, MayReply, Silent, Lookups, s, t
<1>9. CASE k.call = "append_usage_batch"
  <2>1. s.reply.kind = "Ok" /\ o.op = "append"
    BY <1>9, <1>0 DEF Statement, InCall, append_usage_batch, Says, Ok
  <2> HIDE DEF s, t
  <2> QED
    BY <1>9, <2>1 DEF Fits, MayReply, Silent, s, t
<1>10. CASE k.call = "get_namespace"
  <2>1. t = db /\ s.reply.kind = IF db.ns[i] = None THEN "Absent" ELSE "Found"
    BY <1>10, <1>0 DEF Statement, get_namespace, Says, Absent, Found
  <2>2. o.op \in {"get", "usage", "policy"} /\ (i \in Present(db) <=> db.ns[i] # None)
    BY <1>10, <1>0 DEF InCall, Present
  <2> HIDE DEF s, t
  <2> QED
    BY <1>0, <1>2, <1>10, <2>1, <2>2 DEF Fits, MayReply, Silent, Lookups, s, t
<1>11. CASE k.call = "list_namespaces"
  <2> DEFINE x == list_namespaces(db, k.cursor, o.page)
  <2>1. t = x.db /\ s.reply = x.reply /\ o.op = "list"
    BY <1>11, <1>0 DEF Statement, InCall
  <2>2. x.db = db /\ x.reply.kind = "Found"
        /\ PageFits(x.reply.value.page, x.reply.value.next, k.cursor, al, ev)
    BY <1>1, <1>2, <2>1, PageOf
  <2> HIDE DEF s, t, x
  <2>3. al \cap Present(t) = al /\ ev \cup Present(t) = ev
    BY <1>2, <2>1, <2>2
  <2> QED
    BY <1>11, <2>1, <2>2, <2>3 DEF Fits, MayReply, Silent, s, t
<1>12. CASE k.call = "get_budget"
  <2>1. s.reply.kind \in {"NotFound", "Absent", "Found"} /\ t = db
        /\ (s.reply.kind = "NotFound" <=> db.ns[i] = None)
    BY <1>12, <1>0 DEF Statement, get_budget, Says, Absent, Found, Error
  <2>2. o.op = "get_budget" /\ (i \in Present(db) <=> db.ns[i] # None)
    BY <1>12, <1>0 DEF InCall, Present
  <2> HIDE DEF s, t
  <2> QED
    BY <1>0, <1>2, <1>12, <2>1, <2>2 DEF Fits, MayReply, Silent, Lookups, s, t
<1>13. CASE k.call = "summarize_usage"
  <2>1. s.reply.kind = "Found" /\ t = db /\ o.op = "usage"
    BY <1>13, <1>0 DEF Statement, summarize_usage, Says, Found, InCall
  <2> HIDE DEF s, t
  <2> QED
    BY <1>2, <1>13, <2>1 DEF Fits, MayReply, Silent, Lookups, s, t
<1>14. CASE k.call = "get_provider_models"
  <2>1. s.reply.kind \in {"Found", "Absent"} /\ o.op = "models"
    BY <1>14, <1>0 DEF Statement, get_provider_models, Says, Found, Absent, InCall
  <2> HIDE DEF s, t
  <2> QED
    BY <1>14, <2>1 DEF Fits, MayReply, Silent, Lookups, s, t
<1>15. CASE k.call = "get_budget_policy"
  <2>1. s.reply.kind \in {"NotFound", "Absent", "Found"} /\ t = db
        /\ (s.reply.kind = "NotFound" => db.ns[i] = None)
    <3>1. CASE conf.backend = "sqlite"
      BY <1>15, <3>1 DEF Statement, get_budget_policy, Says, Absent, Found, Error
    <3>2. CASE conf.backend # "sqlite"
      <4>1. k.at \in PolicyReads
        BY <1>15 DEF Speaks, Asked
      <4> QED
        BY <1>15, <3>2, <4>1 DEF Statement, ReadPolicy, PolicyReads, Absent, Found, Error
    <3> QED
      BY <3>1, <3>2
  <2>2. o.op = "policy" /\ (i \in Present(db) <=> db.ns[i] # None)
    BY <1>15, <1>0 DEF InCall, Present
  <2> HIDE DEF s, t
  <2> QED
    BY <1>0, <1>2, <1>15, <2>1, <2>2 DEF Fits, MayReply, Silent, Lookups, s, t
<1> QED
  BY <1>0, <1>3, <1>4, <1>5, <1>6, <1>7, <1>8, <1>9, <1>10, <1>11, <1>12, <1>13, <1>14, <1>15
     DEF InCall

\* A call of more than one statement reads only.
LEMMA StatementGoesOn ==
  ASSUME NEW c, Speaks(c), Statement(c).next # ""
  PROVE  /\ caller[c].call = "get_budget_policy" /\ Statement(c).db = db
         /\ Statement(c).next \in PolicyReads
<1>0. InCall(conf.ops[c], caller[c].call)
  BY TargetIs
<1>1. caller[c].call = "get_budget_policy"
  BY <1>0 DEF Statement, InCall
<1>2. caller[c].at \in PolicyReads
  BY <1>1 DEF Speaks, Asked
<1> QED
  BY <1>1, <1>2 DEF Statement, ReadPolicy, PolicyReads

-----------------------------------------------------------------------------
(* What a handler does with a reply *)

\* The fields of a caller that are not its reply.
SameFields(k, h, but) == \A f \in Fields \ but : h[f] = k[f]

LEMMA ReplyTaken ==
  ASSUME NEW k, Typed(k), NEW r
  PROVE  LET h == [k EXCEPT !.reply = r, !.held = NothingHeld]
         IN Typed(h) /\ h.reply = r /\ SameFields(k, h, {"reply", "held"})
  BY DEF Typed, Fields, SameFields

LEMMA CallsMade ==
  ASSUME NEW k, Typed(k), NEW fn \in Writes \cup Reads
  PROVE  LET h == Calls(k, fn)
         IN /\ Typed(h) /\ h.pc = "wait" /\ h.call = fn /\ SameFields(k, h, {"pc", "call", "at"})
            /\ h.at = IF fn = "get_budget_policy" THEN "exists" ELSE ""
<1> DEFINE a == IF fn = "get_budget_policy" THEN "exists" ELSE ""
<1>1. a \in {""} \cup PolicyReads
  BY DEF PolicyReads
<1>2. a = IF fn = "get_budget_policy" THEN "exists" ELSE ""
  OBVIOUS
<1>3. Calls(k, fn) = [k EXCEPT !.pc = "wait", !.call = fn, !.at = a]
  BY Zenon DEF Calls
<1> HIDE DEF a
<1> QED
  BY <1>1, <1>2, <1>3 DEF Typed, Fields, SameFields, Active, Waiting

LEMMA AnswersMade ==
  ASSUME NEW k, Typed(k), NEW status \in Statuses
  PROVE  LET h == Answers(k, status)
         IN /\ Typed(h) /\ h.pc = "done" /\ h.status = status /\ SameFields(k, h, {"pc", "status"})
  BY DEF Typed, Fields, SameFields, Answers, Ended

LEMMA FieldsAre ==
  ASSUME NEW k, NEW h, NEW but, SameFields(k, h, but)
  PROVE  /\ "pc" \notin but => h.pc = k.pc
         /\ "call" \notin but => h.call = k.call
         /\ "at" \notin but => h.at = k.at
         /\ "reply" \notin but => h.reply = k.reply
         /\ "seen" \notin but => h.seen = k.seen
         /\ "cursor" \notin but => h.cursor = k.cursor
         /\ "todo" \notin but => h.todo = k.todo
         /\ "status" \notin but => h.status = k.status
  BY DEF SameFields, Fields

\* A page is added to what was seen.
LEMMA PageAdded ==
  ASSUME NEW s \in Seq(Ids), NEW p \in Seq(Ids)
  PROVE  /\ s \o p \in Seq(Ids) /\ Members(s \o p) = Members(s) \cup Members(p)
         /\ Increasing(s) /\ Increasing(p) /\ (\A i \in Members(s), j \in Members(p) : i < j)
              => Increasing(s \o p)
<1> DEFINE q == s \o p
<1>1. /\ q \in Seq(Ids) /\ Len(s) \in Nat /\ Len(p) \in Nat /\ Len(q) = Len(s) + Len(p)
      /\ DOMAIN s = 1..Len(s) /\ DOMAIN p = 1..Len(p) /\ DOMAIN q = 1..Len(q)
  OBVIOUS
<1>2. \A n \in 1..Len(q) : q[n] = IF n <= Len(s) THEN s[n] ELSE p[n - Len(s)]
  OBVIOUS
<1> HIDE DEF q
<1>3. \A n \in 1..Len(s) : n \in 1..Len(q) /\ q[n] = s[n]
  BY <1>1, <1>2
<1>4. \A n \in 1..Len(p) : n + Len(s) \in 1..Len(q) /\ q[n + Len(s)] = p[n]
  BY <1>1, <1>2
<1>5. \A n \in 1..Len(q) : n \in 1..Len(s) \/ (n - Len(s) \in 1..Len(p) /\ ~(n <= Len(s)))
  BY <1>1
<1>6. Members(q) \subseteq Members(s) \cup Members(p)
  <2> SUFFICES ASSUME NEW n \in 1..Len(q) PROVE q[n] \in Members(s) \cup Members(p)
    BY <1>1 DEF Members
  <2>1. CASE n <= Len(s)
    BY <2>1, <1>1, <1>2 DEF Members
  <2>2. CASE ~(n <= Len(s))
    <3>1. q[n] = p[n - Len(s)] /\ n - Len(s) \in 1..Len(p)
      BY <2>2, <1>1, <1>2
    <3> QED
      BY <3>1, <1>1 DEF Members
  <2> QED
    BY <2>1, <2>2
<1>7. Members(s) \subseteq Members(q)
  BY <1>1, <1>3 DEF Members
<1>8. Members(p) \subseteq Members(q)
  BY <1>1, <1>4 DEF Members
<1>9. ASSUME Increasing(s), Increasing(p), \A i \in Members(s), j \in Members(p) : i < j
      PROVE  Increasing(q)
  <2> SUFFICES ASSUME NEW m \in 1..Len(q), NEW n \in 1..Len(q), m < n PROVE q[m] < q[n]
    BY <1>1 DEF Increasing
  <2>1. CASE n <= Len(s)
    <3>1. m \in 1..Len(s) /\ n \in 1..Len(s)
      BY <2>1, <1>1
    <3> QED
      BY <3>1, <1>1, <1>3, <1>9 DEF Increasing
  <2>2. CASE ~(n <= Len(s)) /\ m <= Len(s)
    <3>1. m \in 1..Len(s) /\ n - Len(s) \in 1..Len(p)
      BY <2>2, <1>1
    <3>2. q[m] = s[m] /\ q[n] = p[n - Len(s)]
      BY <2>2, <1>2
    <3>3. s[m] \in Members(s) /\ p[n - Len(s)] \in Members(p)
      BY <3>1, <1>1 DEF Members
    <3> QED
      BY <3>2, <3>3, <1>9
  <2>3. CASE ~(m <= Len(s)) /\ ~(n <= Len(s))
    <3>1. m - Len(s) \in 1..Len(p) /\ n - Len(s) \in 1..Len(p) /\ m - Len(s) < n - Len(s)
      BY <2>3, <1>1
    <3>2. q[m] = p[m - Len(s)] /\ q[n] = p[n - Len(s)]
      BY <2>3, <1>2
    <3> QED
      BY <3>1, <3>2, <1>1, <1>9 DEF Increasing
  <2> QED
    BY <2>1, <2>2, <2>3, <1>1
<1> QED
  BY <1>1, <1>6, <1>7, <1>8, <1>9 DEF q


\* A caller that continues with a reply: it has been told, and calls on or answers.
Hears(c, k, r, t, al, ev) ==
  /\ conf \in Configs /\ c \in Callers /\ Typed(k) /\ Asked(c, k) /\ k.pc \in Active
  /\ Seen(c, k, t, al, ev) /\ Told(c, k, r, t, al, ev)

LEMMA HearsParts ==
  ASSUME NEW c, NEW k, NEW r, NEW t, NEW al, NEW ev, Hears(c, k, r, t, al, ev)
  PROVE  LET o == conf.ops[c] IN
         /\ o \in Ops /\ WellFormed(o) /\ InCall(o, k.call) /\ k.call # "" /\ k.status = ""
         /\ o.id \in Ids /\ conf.file \subseteq Ids /\ Ids \subseteq Nat \ {0}
         /\ o.op = "delete" => o.id \notin conf.file
         /\ k.call = "get_budget_policy" => k.at \in PolicyReads
         /\ o.op = "seed" => k.todo \subseteq conf.file /\ k.todo # {} /\ First(k) \in k.todo
<1>1. /\ k.call # "" /\ k.status = "" /\ conf.ops[c] \in Ops /\ WellFormed(conf.ops[c])
      /\ k.call \in CallsOf(conf.ops[c])
      /\ conf.ops[c].op = "delete" => conf.ops[c].id \notin conf.file
      /\ k.call = "get_budget_policy" => k.at \in PolicyReads
      /\ conf.ops[c].op = "seed" => k.todo \subseteq conf.file /\ k.todo # {}
  BY DEF Hears, Asked
<1>2. conf.ops[c].id \in Ids /\ conf.file \subseteq Ids /\ Ids \subseteq Nat \ {0}
  BY <1>1, ConfParts, OpParts, DirectoryAssumption DEF Hears
<1>3. conf.ops[c].op = "seed" => First(k) \in k.todo
  BY <1>1, <1>2, LeastId DEF First
<1> QED
  BY <1>1, <1>2, <1>3, CallsKnown

\* It goes on to another call: nothing that was seen is lost.
CallFits(c, k, r, t, al, ev, h, fn) ==
  /\ Hears(c, k, r, t, al, ev) /\ Typed(h) /\ fn \in Writes \cup Reads /\ InCall(conf.ops[c], fn)
  /\ h.status = "" /\ h.call = k.call
  /\ fn \in {"summarize_usage", "get_budget_policy"} => conf.ops[c].id \in ev
  /\ conf.ops[c].op = "list" =>
       /\ Increasing(h.seen) /\ Members(h.seen) \subseteq ev
       /\ \A i \in Members(h.seen) : i <= h.cursor
       /\ \A i \in al : i <= h.cursor => i \in Members(h.seen)
  /\ conf.ops[c].op = "seed" => /\ h.todo \subseteq conf.file /\ h.todo # {}
                                /\ conf.file \ h.todo \subseteq Present(t)

LEMMA CallsOn ==
  ASSUME NEW c, NEW k, NEW r, NEW t, NEW al, NEW ev, NEW h, NEW fn,
         CallFits(c, k, r, t, al, ev, h, fn)
  PROVE  Own(c, Calls(h, fn), t, al, ev) /\ Calls(h, fn).pc = "wait"
<1> USE DEF CallFits
<1> DEFINE g == Calls(h, fn)
<1>1. /\ Typed(g) /\ g.pc = "wait" /\ g.call = fn
      /\ g.at = IF fn = "get_budget_policy" THEN "exists" ELSE ""
      /\ g.seen = h.seen /\ g.cursor = h.cursor /\ g.todo = h.todo /\ g.status = ""
      /\ fn # ""
  <2>0. fn # ""
    BY DEF Writes, Reads
  <2>1. /\ Typed(g) /\ g.pc = "wait" /\ g.call = fn /\ SameFields(h, g, {"pc", "call", "at"})
        /\ g.at = IF fn = "get_budget_policy" THEN "exists" ELSE ""
    BY CallsMade
  <2> HIDE DEF g
  <2>2. g.seen = h.seen /\ g.cursor = h.cursor /\ g.todo = h.todo /\ g.status = h.status
    BY <2>1, Zenon DEF SameFields, Fields
  <2> QED
    BY <2>0, <2>1, <2>2
<1> HIDE DEF g
<1>2. conf.ops[c] \in Ops /\ WellFormed(conf.ops[c])
      /\ (conf.ops[c].op = "delete" => conf.ops[c].id \notin conf.file)
  BY HearsParts
<1>3. fn \in CallsOf(conf.ops[c])
  BY <1>2, CallsKnown
<1>4. Asked(c, g)
  BY <1>1, <1>2, <1>3 DEF Asked, PolicyReads, Active, Waiting
<1>5. Knows(c, g, t, al, ev)
  <2>1. al \subseteq Present(t) /\ Present(t) \subseteq ev
    BY DEF Hears, Seen
  <2> QED
    BY <1>1, <2>1 DEF Knows, Seen
<1>6. Honest(c, g, t, al, ev)
  BY <1>1 DEF Honest
<1> QED
  BY <1>1, <1>4, <1>5, <1>6 DEF Own, g

\* It answers, honestly.
Kept == {"reply", "held", "seen", "cursor", "todo"}
AnswerFits(c, k, r, t, al, ev, h, status) ==
  /\ Hears(c, k, r, t, al, ev) /\ Typed(h) /\ status \in Statuses /\ SameFields(k, h, Kept)
  /\ conf.ops[c].op = "seed" => h.todo \subseteq conf.file /\ (h.todo = {} => status = "ready")
  /\ Honest(c, [pc |-> "done", status |-> status, seen |-> h.seen], t, al, ev)

LEMMA AnswersNow ==
  ASSUME NEW c, NEW k, NEW r, NEW t, NEW al, NEW ev, NEW h, NEW status,
         AnswerFits(c, k, r, t, al, ev, h, status)
  PROVE  Own(c, Answers(h, status), t, al, ev) /\ Answers(h, status).pc = "done"
         /\ Answers(h, status).status = status /\ Answers(h, status).call = k.call
<1> USE DEF AnswerFits
<1> DEFINE g == Answers(h, status)
<1>1. /\ Typed(g) /\ g.pc = "done" /\ g.status = status
      /\ g.seen = h.seen /\ g.todo = h.todo /\ g.call = h.call /\ g.at = h.at
  BY AnswersMade, FieldsAre
<1> HIDE DEF g
<1>2. h.call = k.call /\ h.at = k.at
  BY DEF SameFields, Fields, Kept
<1>3. conf.ops[c] \in Ops /\ WellFormed(conf.ops[c]) /\ InCall(conf.ops[c], k.call)
      /\ (conf.ops[c].op = "delete" => conf.ops[c].id \notin conf.file)
      /\ (k.call = "get_budget_policy" => k.at \in PolicyReads)
  BY HearsParts
<1>4. k.call \in CallsOf(conf.ops[c])
  BY <1>3, CallsKnown
<1>5. Asked(c, g)
  BY <1>1, <1>2, <1>3, <1>4 DEF Asked, Active, Waiting, Holding
<1>6. Knows(c, g, t, al, ev)
  BY <1>1 DEF Knows, Active, Waiting, Holding
<1>7. Honest(c, g, t, al, ev)
  BY <1>1 DEF Honest
<1> QED
  BY <1>1, <1>2, <1>5, <1>6, <1>7 DEF Own, g


\* The statuses of a reply that is an error.
LEMMA RefusalIs ==
  ASSUME NEW o \in Ops, NEW r, r.kind \in Errors
  PROVE  Refusal(o, r) = IF r.kind = "Unavailable" THEN "store_unavailable"
                         ELSE IF r.kind = "Duplicate" THEN "namespace_conflict"
                         ELSE IF r.kind = "Invalid" \/ o.op = "policy" THEN "bad_request"
                         ELSE "unknown_namespace"
  BY DEF Refusal, Errors

\* An error is answered, and is no untruth.
LEMMA RefusalFits ==
  ASSUME NEW c, NEW k, NEW r, NEW t, NEW al, NEW ev, Hears(c, k, r, t, al, ev),
         r.kind \in Errors, ~(conf.ops[c].op = "seed" /\ r.kind = "Duplicate"), NEW shown
  PROVE  /\ Refusal(conf.ops[c], r) \in Statuses /\ Refusal(conf.ops[c], r) # "ready"
         /\ Honest(c, [pc |-> "done", status |-> Refusal(conf.ops[c], r), seen |-> shown], t, al, ev)
<1> DEFINE o == conf.ops[c]
           status == Refusal(o, r)
<1>1. o \in Ops /\ InCall(o, k.call) /\ WellFormed(o)
  BY HearsParts
<1>2. status = IF r.kind = "Unavailable" THEN "store_unavailable"
               ELSE IF r.kind = "Duplicate" THEN "namespace_conflict"
               ELSE IF r.kind = "Invalid" \/ o.op = "policy" THEN "bad_request"
               ELSE "unknown_namespace"
  BY <1>1, RefusalIs
<1>3. Fits(c, k, r, al, ev)
  BY DEF Hears, Told
<1> HIDE DEF status
<1>4. /\ r.kind = "NotFound" => o.id \notin al
      /\ r.kind = "Duplicate" => o.op = "create" /\ o.id \in ev
      /\ r.kind = "Invalid" =>
           /\ o.op \in {"put_budget", "put_policy"}
           /\ \/ o.limit > MaxAmount
              \/ o.op = "put_policy" /\ o.period = None /\ o.cadence = "fixed" /\ o.id \in ev
  BY <1>1, <1>3 DEF Fits, MayReply, InCall
<1>5. r.kind \in {"Unavailable", "Duplicate", "Invalid", "NotFound"}
  BY DEF Errors
<1> HIDE DEF o
<1>6. status \in Statuses /\ status # "ready" /\ status # "ok" /\ status # "unknown_budget"
      /\ (status = "unknown_namespace" => r.kind = "NotFound")
      /\ (status = "namespace_conflict" => r.kind = "Duplicate")
      /\ (status = "bad_request" => r.kind = "Invalid" \/ (o.op = "policy" /\ r.kind = "NotFound"))
  <2>1. CASE r.kind = "Unavailable"
    <3>1. status = "store_unavailable"
      BY <1>2, <2>1
    <3> QED
      BY ONLY <3>1 DEF Statuses
  <2>2. CASE r.kind = "Duplicate"
    <3>1. status = "namespace_conflict"
      BY <1>2, <2>2
    <3> QED
      BY ONLY <3>1, <2>2 DEF Statuses
  <2>3. CASE r.kind = "Invalid"
    <3>1. status = "bad_request"
      BY <1>2, <2>3
    <3> QED
      BY ONLY <3>1, <2>3 DEF Statuses
  <2>4. CASE r.kind = "NotFound" /\ o.op = "policy"
    <3>1. status = "bad_request"
      BY <1>2, <2>4
    <3> QED
      BY ONLY <3>1, <2>4 DEF Statuses
  <2>5. CASE r.kind = "NotFound" /\ o.op # "policy"
    <3>1. status = "unknown_namespace"
      BY <1>2, <2>5
    <3> QED
      BY ONLY <3>1, <2>5 DEF Statuses
  <2> QED
    BY ONLY <1>5, <2>1, <2>2, <2>3, <2>4, <2>5
<1> QED
  BY <1>4, <1>6 DEF Honest, status, o


\* A caller's record with its reply, and what it has seen and has to do, changed.
With(k, r) == [k EXCEPT !.reply = r, !.held = NothingHeld]
Saw(k, r, s, n) == [With(k, r) EXCEPT !.seen = s, !.cursor = n]
Left(k, r, d) == [With(k, r) EXCEPT !.todo = d]

LEMMA WithReply ==
  ASSUME NEW k, Typed(k), NEW r
  PROVE  /\ Typed(With(k, r)) /\ SameFields(k, With(k, r), Kept)
         /\ With(k, r).call = k.call /\ With(k, r).status = k.status
         /\ With(k, r).seen = k.seen /\ With(k, r).cursor = k.cursor /\ With(k, r).todo = k.todo
  BY DEF Typed, Fields, SameFields, With, Kept

LEMMA WithPage ==
  ASSUME NEW k, Typed(k), NEW r, NEW s, s \in Seq(Ids), NEW n, n \in Ids \cup {0}
  PROVE  /\ Typed(Saw(k, r, s, n)) /\ SameFields(k, Saw(k, r, s, n), Kept)
         /\ Saw(k, r, s, n).call = k.call /\ Saw(k, r, s, n).status = k.status
         /\ Saw(k, r, s, n).seen = s /\ Saw(k, r, s, n).cursor = n
         /\ Saw(k, r, s, n).todo = k.todo
<1> DEFINE h == With(k, r)
<1>1. /\ Typed(h) /\ SameFields(k, h, Kept)
      /\ h.call = k.call /\ h.status = k.status /\ h.todo = k.todo
  BY WithReply
<1>2. Saw(k, r, s, n) = [h EXCEPT !.seen = s, !.cursor = n]
  BY DEF Saw
<1> HIDE DEF h
<1> QED
  BY <1>1, <1>2 DEF Typed, Fields, SameFields, Kept

LEMMA WithLess ==
  ASSUME NEW k, Typed(k), NEW r, NEW d, d \subseteq Ids
  PROVE  /\ Typed(Left(k, r, d)) /\ SameFields(k, Left(k, r, d), Kept)
         /\ Left(k, r, d).call = k.call /\ Left(k, r, d).status = k.status
         /\ Left(k, r, d).seen = k.seen /\ Left(k, r, d).todo = d
<1> DEFINE h == With(k, r)
<1>1. /\ Typed(h) /\ SameFields(k, h, Kept)
      /\ h.call = k.call /\ h.status = k.status /\ h.seen = k.seen
  BY WithReply
<1>2. Left(k, r, d) = [h EXCEPT !.todo = d]
  BY DEF Left
<1> HIDE DEF h
<1> QED
  BY <1>1, <1>2 DEF Typed, Fields, SameFields, Kept

\* Seeding goes on to the next namespace of the file, or is over.
LEMMA SeedingGoesOn ==
  ASSUME NEW c, NEW r, NEW t, NEW al, NEW ev, Hears(c, caller[c], r, t, al, ev),
         conf.ops[c].op = "seed", r.kind \in {"Ok", "Duplicate"}
  PROVE  Own(c, Continued(c, r), t, al, ev) /\ Continued(c, r).pc \in {"wait", "done"}
<1> DEFINE o == conf.ops[c]
           k0 == caller[c]
           i == Target(c)
           rest == k0.todo \ {i}
           less == Left(k0, r, rest)
<1>1. /\ Typed(k0) /\ o \in Ops /\ k0.status = "" /\ conf.file \subseteq Ids
      /\ k0.todo \subseteq conf.file /\ First(k0) \in k0.todo
  BY HearsParts DEF Hears
<1>2. i = First(k0)
  BY DEF Target, First
<1>3. i \in Present(t) /\ conf.file \ k0.todo \subseteq Present(t)
  BY <1>2 DEF Hears, Told, SeedFits, Seen
<1> HIDE DEF i
<1>4. With(k0, r).todo = k0.todo
  BY <1>1, WithReply
<1>5. /\ Typed(less) /\ less.call = k0.call /\ less.status = ""
      /\ less.todo = rest /\ SameFields(k0, less, Kept)
  <2>1. rest \subseteq Ids
    BY <1>1
  <2> HIDE DEF k0, rest
  <2>2. Typed(k0)
    BY <1>1
  <2>3. /\ Typed(less) /\ SameFields(k0, less, Kept)
        /\ less.call = k0.call /\ less.status = k0.status /\ less.todo = rest
    BY <2>1, <2>2, WithLess
  <2> QED
    BY <2>3, <1>1
<1>6. conf.file \ less.todo \subseteq Present(t) /\ less.todo \subseteq conf.file
  BY <1>1, <1>3, <1>5
<1>7. Continued(c, r) = IF k0.todo = {i} THEN Answers([With(k0, r) EXCEPT !.todo = {}], "ready")
                        ELSE Calls([With(k0, r) EXCEPT !.todo = With(k0, r).todo \ {i}], "put_namespace")
  <2>1. r.kind \notin Errors \/ r.kind = "Duplicate"
    BY DEF Errors
  <2> QED
    BY <2>1 DEF Continued, With, i
<1>8. CASE k0.todo = {i}
  <2>1. k0.todo \ {i} = {}
    BY <1>8
  <2>2. Continued(c, r) = Answers(less, "ready")
    BY <1>7, <1>8, <2>1 DEF Left
  <2> HIDE DEF less
  <2>3. conf.file \subseteq Present(t)
    BY <1>5, <1>6, <2>1
  <2>4. Honest(c, [pc |-> "done", status |-> "ready", seen |-> less.seen], t, al, ev)
    BY <2>3 DEF Honest
  <2>5. "ready" \in Statuses
    BY DEF Statuses
  <2>6. AnswerFits(c, k0, r, t, al, ev, less, "ready")
    BY <1>5, <1>6, <2>4, <2>5 DEF AnswerFits
  <2> QED
    BY <2>2, <2>6, AnswersNow
<1>9. CASE k0.todo # {i}
  <2>1. Continued(c, r) = Calls(less, "put_namespace")
    BY <1>4, <1>7, <1>9 DEF Left
  <2>2. less.todo # {}
    BY <1>1, <1>2, <1>5, <1>9
  <2>3. "put_namespace" \in Writes \cup Reads /\ InCall(o, "put_namespace") /\ o.op # "list"
    BY DEF Writes, InCall
  <2> HIDE DEF less
  <2>4. CallFits(c, k0, r, t, al, ev, less, "put_namespace")
    BY <1>5, <1>6, <2>2, <2>3 DEF CallFits
  <2> QED
    BY <2>1, <2>4, CallsOn
<1> QED
  BY <1>8, <1>9

\* An error ends the request.
LEMMA RefusalEnds ==
  ASSUME NEW c, NEW r, NEW t, NEW al, NEW ev, Hears(c, caller[c], r, t, al, ev),
         r.kind \in Errors, ~(conf.ops[c].op = "seed" /\ r.kind = "Duplicate")
  PROVE  /\ Own(c, Continued(c, r), t, al, ev) /\ Continued(c, r).pc = "done"
         /\ Continued(c, r).status # "ready" /\ Continued(c, r).call = caller[c].call
<1> DEFINE o == conf.ops[c]
           k0 == caller[c]
           k == With(k0, r)
           status == Refusal(o, r)
<1>1. /\ Typed(k0) /\ o \in Ops /\ k0.status = ""
      /\ o.op = "seed" => k0.todo \subseteq conf.file /\ k0.todo # {}
  BY HearsParts DEF Hears
<1>2. Typed(k) /\ k.todo = k0.todo /\ SameFields(k0, k, Kept)
  BY <1>1, WithReply
<1>3. Continued(c, r) = Answers(k, status)
  BY DEF Continued, Errors, With
<1>4. /\ status \in Statuses /\ status # "ready"
      /\ Honest(c, [pc |-> "done", status |-> status, seen |-> k.seen], t, al, ev)
  BY RefusalFits
<1> HIDE DEF k, status
<1>5. AnswerFits(c, k0, r, t, al, ev, k, status)
  BY <1>1, <1>2, <1>4 DEF AnswerFits
<1> QED
  BY <1>3, <1>4, <1>5, AnswersNow

\* A list grows by its page, up to the next cursor or to the end.
ListFits(s, cursor, al, ev) ==
  /\ s \in Seq(Ids) /\ cursor \in Nat /\ al \subseteq Ids
  /\ Increasing(s) /\ Members(s) \subseteq ev
  /\ \A i \in Members(s) : i <= cursor
  /\ \A i \in al : i <= cursor => i \in Members(s)

LEMMA ListGrows ==
  ASSUME NEW s, NEW p, NEW next, NEW cursor, NEW al, NEW ev,
         ListFits(s, cursor, al, ev), PageFits(p, next, cursor, al, ev)
  PROVE  /\ s \o p \in Seq(Ids) /\ next \in Ids \cup {0}
         /\ Increasing(s \o p) /\ Members(s \o p) \subseteq ev
         /\ next # 0 => /\ \A i \in Members(s \o p) : i <= next
                        /\ \A i \in al : i <= next => i \in Members(s \o p)
         /\ next = 0 => al \subseteq Members(s \o p)
<1>1. /\ p \in Seq(Ids) /\ next \in Ids \cup {0} /\ Increasing(p) /\ Members(p) \subseteq ev
      /\ next # 0 => next > cursor
      /\ \A i \in Members(p) : i > cursor /\ (next # 0 => i <= next)
      /\ \A i \in al : i > cursor /\ (next # 0 => i <= next) => i \in Members(p)
  BY DEF PageFits
<1>2. Ids \subseteq Nat
  BY DirectoryAssumption
<1> USE DEF ListFits
<1>3. Members(s) \subseteq Nat /\ Members(p) \subseteq Nat /\ al \subseteq Nat /\ next \in Nat
  <2>1. Members(s) \subseteq Ids
    BY DEF Members
  <2>2. p \in Seq(Ids)
    BY <1>1
  <2>3. Members(p) \subseteq Ids
    BY <2>2 DEF Members
  <2>4. next \in Nat
    BY <1>1, <1>2
  <2>5. al \subseteq Nat
    BY <1>2
  <2>6. Members(s) \subseteq Nat /\ Members(p) \subseteq Nat
    BY <1>2, <2>1, <2>3
  <2> QED
    BY <2>4, <2>5, <2>6
<1>4. \A i \in Members(s), j \in Members(p) : i < j
  BY <1>1, <1>3
<1>5. /\ s \o p \in Seq(Ids) /\ Members(s \o p) = Members(s) \cup Members(p)
      /\ Increasing(s \o p)
  BY <1>1, <1>4, PageAdded
<1>6. next # 0 => \A i \in Members(s) \cup Members(p) : i <= next
  BY <1>1, <1>3
<1>7. \A i \in al : i <= cursor \/ i > cursor
  BY <1>3
<1> HIDE DEF Members
<1> QED
  BY <1>1, <1>5, <1>6, <1>7

\* A page of a list is kept, and the next asked for.
LEMMA PageHeard ==
  ASSUME NEW c, NEW k, NEW r, NEW t, NEW al, NEW ev, Hears(c, k, r, t, al, ev),
         conf.ops[c].op = "list", r.kind = "Found"
  PROVE  LET s == k.seen \o r.value.page
             next == r.value.next
             h == Saw(k, r, s, next)
             e == Saw(k, r, s, 0)
         IN /\ next # 0 => CallFits(c, k, r, t, al, ev, h, "list_namespaces")
            /\ next = 0 => AnswerFits(c, k, r, t, al, ev, e, "ok")
<1> DEFINE s == k.seen \o r.value.page
           next == r.value.next
           h == Saw(k, r, s, next)
           e == Saw(k, r, s, 0)
<1>1. /\ InCall(conf.ops[c], k.call) /\ k.status = "" /\ Typed(k) /\ Fits(c, k, r, al, ev)
      /\ Seen(c, k, t, al, ev)
  BY HearsParts DEF Hears, Told
<1>2. k.call = "list_namespaces"
  BY <1>1 DEF InCall
<1>3. PageFits(r.value.page, next, k.cursor, al, ev)
  BY <1>1, <1>2 DEF Fits
<1>4. /\ al \subseteq Ids /\ k.seen \in Seq(Ids) /\ k.cursor \in Nat
      /\ Increasing(k.seen) /\ Members(k.seen) \subseteq ev
      /\ \A i \in Members(k.seen) : i <= k.cursor
      /\ \A i \in al : i <= k.cursor => i \in Members(k.seen)
  <2>1. al \subseteq Ids
    BY <1>1 DEF Seen, Present
  <2>2. k.seen \in Seq(Ids) /\ k.cursor \in Ids \cup {0}
    BY <1>1 DEF Typed
  <2>3. k.cursor \in Nat
    <3>1. Ids \cup {0} \subseteq Nat
      BY DirectoryAssumption
    <3> QED
      BY <2>2, <3>1
  <2>4. /\ Increasing(k.seen) /\ Members(k.seen) \subseteq ev
        /\ \A i \in Members(k.seen) : i <= k.cursor
        /\ \A i \in al : i <= k.cursor => i \in Members(k.seen)
    BY <1>1 DEF Seen
  <2> QED
    BY <2>1, <2>2, <2>3, <2>4
<1>5. /\ s \in Seq(Ids) /\ next \in Ids \cup {0} /\ Increasing(s) /\ Members(s) \subseteq ev
      /\ next # 0 => /\ \A i \in Members(s) : i <= next
                     /\ \A i \in al : i <= next => i \in Members(s)
      /\ next = 0 => al \subseteq Members(s)
  <2> DEFINE shown == k.seen
             p == r.value.page
             cur == k.cursor
  <2>1. PageFits(p, next, cur, al, ev) /\ ListFits(shown, cur, al, ev)
    BY <1>3, <1>4 DEF ListFits
  <2>2. s = shown \o p
    OBVIOUS
  <2> HIDE DEF shown, p, cur, next, s
  <2>3. /\ shown \o p \in Seq(Ids) /\ next \in Ids \cup {0}
        /\ Increasing(shown \o p) /\ Members(shown \o p) \subseteq ev
        /\ next # 0 => /\ \A i \in Members(shown \o p) : i <= next
                       /\ \A i \in al : i <= next => i \in Members(shown \o p)
        /\ next = 0 => al \subseteq Members(shown \o p)
    BY ONLY <2>1, ListGrows
  <2> QED
    BY ONLY <2>2, <2>3
<1> HIDE DEF s, next
<1>6. /\ Typed(h) /\ h.call = k.call /\ h.status = k.status /\ h.seen = s /\ h.cursor = next
      /\ Typed(e) /\ e.seen = s /\ SameFields(k, e, Kept)
  <2>1. Typed(k) /\ s \in Seq(Ids) /\ next \in Ids \cup {0} /\ 0 \in Ids \cup {0}
    BY <1>1, <1>5
  <2>2. Typed(h) /\ h.call = k.call /\ h.status = k.status /\ h.seen = s /\ h.cursor = next
    BY ONLY <2>1, WithPage
  <2>3. Typed(e) /\ e.seen = s /\ SameFields(k, e, Kept)
    BY ONLY <2>1, WithPage
  <2> QED
    BY ONLY <2>2, <2>3
<1> HIDE DEF h, e
<1>7. ASSUME next # 0 PROVE CallFits(c, k, r, t, al, ev, h, "list_namespaces")
  <2>1. "list_namespaces" \in Writes \cup Reads /\ InCall(conf.ops[c], "list_namespaces")
    BY DEF Reads, InCall
  <2> QED
    BY <1>1, <1>5, <1>6, <1>7, <2>1 DEF CallFits
<1>8. ASSUME next = 0 PROVE AnswerFits(c, k, r, t, al, ev, e, "ok")
  <2>1. "ok" \in Statuses
    BY DEF Statuses
  <2>2. Honest(c, [pc |-> "done", status |-> "ok", seen |-> e.seen], t, al, ev)
    <3>1. Members(s) = ToSet(s)
      BY DEF Members, ToSet
    <3> QED
      BY <1>5, <1>6, <1>8, <3>1 DEF Honest, Increasing
  <2> QED
    BY <1>6, <2>1, <2>2 DEF AnswerFits
<1> QED
  BY <1>7, <1>8 DEF s, next, h, e

LEMMA ListGoesOn ==
  ASSUME NEW c, NEW r, NEW t, NEW al, NEW ev, Hears(c, caller[c], r, t, al, ev),
         conf.ops[c].op = "list", r.kind = "Found"
  PROVE  Own(c, Continued(c, r), t, al, ev) /\ Continued(c, r).pc \in {"wait", "done"}
<1> DEFINE k == caller[c]
           s == k.seen \o r.value.page
           w == With(k, r)
<1>1. r.kind \notin Errors
  BY DEF Errors
<1>2. w.seen = k.seen /\ w.call = k.call
  BY WithReply DEF Hears
<1>3. k.call = "list_namespaces"
  BY HearsParts DEF InCall
<1>4. CASE r.value.next # 0
  <2>1. Continued(c, r) = Calls([w EXCEPT !.seen = w.seen \o r.value.page, !.cursor = r.value.next],
                                "list_namespaces")
    BY <1>1, <1>4 DEF Continued, With
  <2>2. Continued(c, r) = Calls(Saw(k, r, s, r.value.next), "list_namespaces")
    BY <1>2, <2>1 DEF Saw
  <2>3. CallFits(c, k, r, t, al, ev, Saw(k, r, s, r.value.next), "list_namespaces")
    BY <1>4, PageHeard
  <2> QED
    BY <2>2, <2>3, CallsOn
<1>5. CASE r.value.next = 0
  <2>1. Continued(c, r) = Answered(w, conf.ops[c], r)
    BY <1>1, <1>5 DEF Continued, With
  <2>2. Answered(w, conf.ops[c], r)
          = Answers([w EXCEPT !.seen = w.seen \o r.value.page, !.cursor = 0], "ok")
    BY <1>2, <1>3 DEF Answered
  <2>3. Continued(c, r) = Answers(Saw(k, r, s, 0), "ok")
    BY <1>2, <2>1, <2>2 DEF Saw
  <2>4. AnswerFits(c, k, r, t, al, ev, Saw(k, r, s, 0), "ok")
    BY <1>5, PageHeard
  <2> QED
    BY <2>3, <2>4, AnswersNow
<1> QED
  BY <1>4, <1>5

\* A namespace that was looked up is read on.
LEMMA LookupGoesOn ==
  ASSUME NEW c, NEW r, NEW t, NEW al, NEW ev, Hears(c, caller[c], r, t, al, ev),
         conf.ops[c].op \in {"usage", "policy"}, caller[c].call = "get_namespace", r.kind = "Found"
  PROVE  Own(c, Continued(c, r), t, al, ev) /\ Continued(c, r).pc \in {"wait", "done"}
<1> DEFINE o == conf.ops[c]
           k == caller[c]
           w == With(k, r)
           fn == IF o.op = "usage" THEN "summarize_usage" ELSE "get_budget_policy"
<1>1. r.kind \notin Errors
  BY DEF Errors
<1>2. Typed(w) /\ w.call = k.call /\ w.status = k.status
  BY WithReply DEF Hears
<1>3. Continued(c, r) = Calls(w, fn)
  BY <1>1, <1>2 DEF Continued, With
<1>4. fn \in Writes \cup Reads /\ InCall(o, fn)
  BY DEF Reads, InCall
<1>5. o.id \in ev /\ k.status = ""
  BY HearsParts DEF Hears, Told, Fits
<1> HIDE DEF w, fn
<1>6. CallFits(c, k, r, t, al, ev, w, fn)
  BY <1>2, <1>4, <1>5 DEF CallFits
<1> QED
  BY <1>3, <1>6, CallsOn

\* An answer to what was, or was not, found.
LEMMA AnswerIs ==
  ASSUME NEW c, NEW r, NEW t, NEW al, NEW ev, Hears(c, caller[c], r, t, al, ev),
         r.kind \notin Errors, conf.ops[c].op # "seed", conf.ops[c].op # "list" \/ r.kind # "Found",
         ~(conf.ops[c].op \in {"usage", "policy"} /\ caller[c].call = "get_namespace"
             /\ r.kind = "Found")
  PROVE  \E status \in Statuses :
           /\ Continued(c, r) = Answers(With(caller[c], r), status)
           /\ \A shown : Honest(c, [pc |-> "done", status |-> status, seen |-> shown], t, al, ev)
<1> DEFINE o == conf.ops[c]
           k == caller[c]
           w == With(k, r)
<1>1. w.call = k.call
  BY WithReply DEF Hears
<1>2. /\ InCall(o, k.call) /\ Fits(c, k, r, al, ev) /\ Seen(c, k, t, al, ev) /\ o \in Ops
      /\ WellFormed(o)
  BY HearsParts DEF Hears, Told
<1>3. Continued(c, r) = Answered(w, o, r)
  BY <1>1 DEF Continued, With
<1> HIDE DEF w
<1> USE DEF Statuses
<1>4. r.kind \in {"Ok", "Absent", "Found"}
  BY <1>2 DEF Fits, MayReply, Errors
<1>5. CASE r.kind = "Absent" /\ k.call \in {"get_budget", "get_budget_policy"}
  <2>1. Answered(w, o, r) = Answers(w, "unknown_budget")
    BY <1>1, <1>2, <1>5 DEF Answered, InCall
  <2>2. o.id \in ev
    BY <1>2, <1>5 DEF Fits, Seen
  <2>3. \A shown : Honest(c, [pc |-> "done", status |-> "unknown_budget", seen |-> shown], t, al, ev)
    BY <2>2 DEF Honest
  <2> QED
    BY <1>3, <2>1, <2>3 DEF w
<1>6. CASE o.op = "models"
  <2>1. \E status \in {"ok", "not_listed"} : Answered(w, o, r) = Answers(w, status)
    BY <1>1, <1>2, <1>6 DEF Answered, InCall
  <2>2. \A shown : /\ Honest(c, [pc |-> "done", status |-> "ok", seen |-> shown], t, al, ev)
                  /\ Honest(c, [pc |-> "done", status |-> "not_listed", seen |-> shown], t, al, ev)
    BY <1>6 DEF Honest
  <2> QED
    BY <1>3, <2>1, <2>2 DEF w
<1>7. CASE r.kind = "Absent" /\ k.call \notin {"get_budget", "get_budget_policy"} /\ o.op # "models"
  <2>1. k.call \in Lookups
    BY <1>2, <1>7 DEF Fits, MayReply, InCall
  <2>2. Answered(w, o, r) = Answers(w, "unknown_namespace") /\ o.id \notin al
    BY <1>1, <1>2, <1>7, <2>1 DEF Answered, Lookups, Fits
  <2>3. \A shown : Honest(c, [pc |-> "done", status |-> "unknown_namespace", seen |-> shown], t, al, ev)
    BY <2>2 DEF Honest
  <2> QED
    BY <1>3, <2>2, <2>3 DEF w
<1>8. CASE r.kind \in {"Ok", "Found"} /\ o.op # "models"
  <2>1. Answered(w, o, r) = Answers(w, "ok")
    BY <1>8 DEF Answered
  <2>2. /\ r.kind = "Ok" => o.op \in {"create", "delete", "append"}
        /\ r.kind = "Found" => /\ o.op \notin {"create", "delete", "append", "list"}
                               /\ k.call \notin {"list_namespaces", "get_provider_models"}
    BY <1>2, <1>8 DEF Fits, MayReply, InCall, Silent
  <2>3. /\ o.op = "create" => o.id \in ev \ al
        /\ o.op = "delete" => o.id \notin al
        /\ o.op \notin {"create", "delete", "append"} => o.id \in ev
        /\ o.op # "list"
    BY <1>2, <1>8, <2>2 DEF Fits
  <2>4. \A shown : Honest(c, [pc |-> "done", status |-> "ok", seen |-> shown], t, al, ev)
    BY <2>3 DEF Honest
  <2> QED
    BY <1>3, <2>1, <2>4 DEF w
<1> QED
  BY <1>4, <1>5, <1>6, <1>7, <1>8

\* What a handler does with a reply keeps its record in order, and is honest.
LEMMA ContinuedFits ==
  ASSUME NEW c, NEW r, NEW t, NEW al, NEW ev, Hears(c, caller[c], r, t, al, ev)
  PROVE  Own(c, Continued(c, r), t, al, ev) /\ Continued(c, r).pc \in {"wait", "done"}
<1> DEFINE o == conf.ops[c]
           k == caller[c]
<1>1. CASE o.op = "seed" /\ r.kind \in {"Ok", "Duplicate"}
  BY <1>1, SeedingGoesOn
<1>2. CASE r.kind \in Errors /\ ~(o.op = "seed" /\ r.kind = "Duplicate")
  BY <1>2, RefusalEnds
<1>3. CASE o.op = "list" /\ r.kind = "Found"
  BY <1>3, ListGoesOn
<1>4. CASE o.op \in {"usage", "policy"} /\ k.call = "get_namespace" /\ r.kind = "Found"
  BY <1>4, LookupGoesOn
<1>5. CASE /\ r.kind \notin Errors /\ o.op # "seed" /\ (o.op # "list" \/ r.kind # "Found")
           /\ ~(o.op \in {"usage", "policy"} /\ k.call = "get_namespace" /\ r.kind = "Found")
  <2> DEFINE w == With(k, r)
  <2>1. PICK status \in Statuses :
          /\ Continued(c, r) = Answers(w, status)
          /\ \A shown : Honest(c, [pc |-> "done", status |-> status, seen |-> shown], t, al, ev)
    BY <1>5, AnswerIs
  <2>2. Typed(w) /\ SameFields(k, w, Kept)
    BY WithReply DEF Hears
  <2> HIDE DEF w
  <2>3. AnswerFits(c, k, r, t, al, ev, w, status)
    BY <1>5, <2>1, <2>2 DEF AnswerFits
  <2> QED
    BY <2>1, <2>3, AnswersNow
<1>6. o.op = "seed" => r.kind \in {"Ok", "Duplicate"} \cup Errors
  BY HearsParts DEF Hears, Told, Fits, MayReply, InCall, Errors, Silent, Lookups
<1> HIDE DEF o, k
<1>7. r.kind = "Duplicate" => r.kind \in {"Ok", "Duplicate"}
  OBVIOUS
<1> QED
  BY <1>1, <1>2, <1>3, <1>4, <1>5, <1>6, <1>7

\* A call that fails, whatever was done: the Store is unavailable.
LEMMA FailedFits ==
  ASSUME NEW c, NEW t, NEW al, NEW ev, conf \in Configs, c \in Callers, Typed(caller[c]),
         Asked(c, caller[c]), caller[c].pc \in Active, Seen(c, caller[c], t, al, ev)
  PROVE  /\ Own(c, Failed(c), t, al, ev) /\ Failed(c).pc = "done"
         /\ Failed(c).status # "ready" /\ Failed(c).call = caller[c].call
<1> DEFINE r == Error("Unavailable")
<1>1. r.kind = "Unavailable" /\ r.kind \in Errors
  BY DEF Error, Errors
<1>2. Failed(c) = Continued(c, r)
  BY DEF Failed
<1> HIDE DEF r
<1>3. Hears(c, caller[c], r, t, al, ev)
  BY <1>1 DEF Hears, Told, Fits, MayReply, SeedFits
<1> QED
  BY <1>1, <1>2, <1>3, RefusalEnds

-----------------------------------------------------------------------------
(* A step of one caller, and of the tables *)

\* What a caller's record means does not change with the tables alone.
LEMMA SameConf ==
  ASSUME conf' = conf
  PROVE  \A c, k, t, al, ev : Own(c, k, t, al, ev)' <=> Own(c, k, t, al, ev)
<1> TAKE c, k, t, al, ev
<1>1. Asked(c, k)' <=> Asked(c, k)
  BY Zenon DEF Asked
<1>2. \A r : Fits(c, k, r, al, ev)' <=> Fits(c, k, r, al, ev)
  BY SMT DEF Fits
<1>3. Knows(c, k, t, al, ev)' <=> Knows(c, k, t, al, ev)
  BY <1>2, Zenon DEF Knows, Seen, Told
<1>4. Honest(c, k, t, al, ev)' <=> Honest(c, k, t, al, ev)
  BY Zenon DEF Honest
<1> QED
  BY <1>1, <1>3, <1>4, Zenon DEF Own

\* What one caller holds, as the tables become t.
LEMMA OwnMoves ==
  ASSUME NEW c, NEW k, NEW t, NEW al, NEW ev, NEW al2, NEW ev2,
         conf \in Configs, Own(c, k, db, al, ev), Follows(db, t),
         k.pc \in Active => al2 = al \cap Present(t) /\ ev2 = ev \cup Present(t),
         k.pc \in Ended => al2 = al /\ ev2 = ev
  PROVE  Own(c, k, t, al2, ev2)
<1> DEFINE o == conf.ops[c]
<1>1. conf.file \cap Present(db) \subseteq Present(t)
  BY DEF Follows
<1>2. Typed(k) /\ Asked(c, k) /\ Knows(c, k, db, al, ev) /\ Honest(c, k, db, al, ev)
  BY DEF Own
<1>3. Honest(c, k, t, al2, ev2)
  <2>1. CASE k.pc = "done"
    BY <1>1, <1>2, <2>1 DEF Honest, Ended
  <2>2. CASE k.pc # "done"
    BY <2>2 DEF Honest
  <2> QED
    BY <2>1, <2>2
<1>4. ASSUME k.pc \in Active PROVE Seen(c, k, t, al2, ev2)
  <2>1. Seen(c, k, db, al, ev) /\ al2 = al \cap Present(t) /\ ev2 = ev \cup Present(t)
    BY <1>2, <1>4 DEF Knows
  <2> QED
    BY <1>1, <2>1 DEF Seen
<1>5. ASSUME k.pc = "checkin" PROVE Told(c, k, k.reply, t, al2, ev2)
  <2>1. k.pc \in Active
    BY <1>5 DEF Active, Holding
  <2>2. Fits(c, k, k.reply, al, ev) /\ (o.op = "seed" => SeedFits(k, k.reply, db))
    BY <1>2, <1>5, <2>1 DEF Knows, Told
  <2>3. al2 = al \cap Present(t) /\ ev2 = ev \cup Present(t)
    BY <2>1
  <2>4. ASSUME o.op = "seed", SeedFits(k, k.reply, db) PROVE SeedFits(k, k.reply, t)
    <3>1. k.call # "" /\ k.status = ""
      BY <1>2, <2>1 DEF Asked
    <3>2. k.todo \subseteq conf.file /\ k.todo # {} /\ conf.file \subseteq Ids /\ Ids \subseteq Nat
      BY <1>2, <2>4, <3>1, ConfParts, DirectoryAssumption DEF Asked
    <3>3. First(k) \in k.todo
      BY <3>2, LeastId DEF First
    <3> QED
      BY <1>1, <2>4, <3>2, <3>3 DEF SeedFits
  <2>5. \A page, next : PageFits(page, next, k.cursor, al, ev) => PageFits(page, next, k.cursor, al2, ev2)
    BY <2>3 DEF PageFits
  <2>6. Fits(c, k, k.reply, al2, ev2)
    BY <2>2, <2>3, <2>5 DEF Fits
  <2> QED
    BY <2>2, <2>4, <2>6 DEF Told
<1> QED
  BY <1>2, <1>3, <1>4, <1>5 DEF Own, Knows

\* The tables become t, or stay.
Moves(t) ==
  /\ Follows(db, t) /\ db' = t /\ conf' = conf
  /\ DOMAIN always' = Callers /\ DOMAIN ever' = Callers
  /\ \A c \in Callers :
       /\ caller[c].pc \in Active => /\ always'[c] = always[c] \cap Present(t)
                                     /\ ever'[c] = ever[c] \cup Present(t)
       /\ caller[c].pc \in Ended => always'[c] = always[c] /\ ever'[c] = ever[c]

LEMMA StoresMoves ==
  ASSUME CallersInv, NEW t, Stores(t), Follows(db, t), conf' = conf
  PROVE  Moves(t)
<1> USE DEF Stores
<1>1. \A c \in Callers : caller[c].pc \in Active => caller[c].pc \notin {"idle"} \cup Ended
  BY DEF Active, Waiting, Holding, Ended
<1> QED
  BY <1>1 DEF Moves

LEMMA NothingMoves ==
  ASSUME CallersInv, StoresNothing, conf' = conf
  PROVE  Moves(db)
<1> USE DEF StoresNothing
<1>1. Follows(db, db)
  BY DEF Follows, CallersInv
<1>2. ASSUME NEW c \in Callers, caller[c].pc \in Active
      PROVE  always[c] = always[c] \cap Present(db) /\ ever[c] = ever[c] \cup Present(db)
  BY <1>2 DEF CallersInv, Own, Knows, Seen
<1> QED
  BY <1>1, <1>2 DEF Moves, CallersInv

\* The callers' part of the invariant after one caller's step.
LEMMA CallersStep ==
  ASSUME CallersInv, NEW t, Moves(t), NEW d \in Callers, NEW h, Becomes(d, h),
         Own(d, h, t, always'[d], ever'[d]), late' \subseteq late \cup {d},
         d \in late' => h.pc \in Ended /\ h.call \in Writes /\ h.status # "ready"
  PROVE  CallersInv'
<1> USE DEF Becomes
<1>1. conf' \in Configs /\ Sound(db)' /\ late' \subseteq Callers
  <2>1. Sound(t) /\ db' = t /\ conf' = conf
    BY DEF Moves, Follows
  <2> QED
    BY <2>1 DEF CallersInv, Sound
<1>2. DOMAIN caller' = Callers /\ DOMAIN always' = Callers /\ DOMAIN ever' = Callers
  BY DEF CallersInv, Moves
<1>3. ASSUME NEW c \in Callers PROVE Own(c, caller[c], db, always[c], ever[c])'
  <2>1. Own(c, caller'[c], db', always'[c], ever'[c])
    <3>1. CASE c = d
      BY <3>1 DEF CallersInv, Moves
    <3>2. CASE c # d
      <4>1. caller'[c] = caller[c] /\ db' = t
        BY <3>2 DEF CallersInv, Moves
      <4>2. /\ conf \in Configs /\ Own(c, caller[c], db, always[c], ever[c]) /\ Follows(db, t)
            /\ caller[c].pc \in Active => /\ always'[c] = always[c] \cap Present(t)
                                          /\ ever'[c] = ever[c] \cup Present(t)
            /\ caller[c].pc \in Ended => always'[c] = always[c] /\ ever'[c] = ever[c]
        BY DEF CallersInv, Moves
      <4>3. Own(c, caller[c], t, always'[c], ever'[c])
        BY ONLY <4>2, OwnMoves
      <4> QED
        BY <4>1, <4>3
    <3> QED
      BY <3>1, <3>2
  <2>2. conf' = conf
    BY DEF Moves
  <2> QED
    BY <2>1, <2>2, SameConf
<1>4. ASSUME NEW c \in late'
      PROVE  caller'[c].pc \in Ended /\ caller'[c].call \in Writes /\ caller'[c].status # "ready"
  BY <1>4 DEF CallersInv
<1> QED
  BY <1>1, <1>2, <1>3, <1>4 DEF CallersInv

\* And after one that is no caller's.
LEMMA TablesStep ==
  ASSUME CallersInv, NEW t, Moves(t), UNCHANGED caller, late' \subseteq late
  PROVE  CallersInv'
<1>1. conf' \in Configs /\ Sound(db)' /\ late' \subseteq Callers
  <2>1. Sound(t) /\ db' = t /\ conf' = conf
    BY DEF Moves, Follows
  <2> QED
    BY <2>1 DEF CallersInv, Sound
<1>2. DOMAIN caller' = Callers /\ DOMAIN always' = Callers /\ DOMAIN ever' = Callers
  BY DEF CallersInv, Moves
<1>3. ASSUME NEW c \in Callers PROVE Own(c, caller[c], db, always[c], ever[c])'
  <2>1. /\ conf \in Configs /\ Own(c, caller[c], db, always[c], ever[c]) /\ Follows(db, t)
        /\ caller[c].pc \in Active => /\ always'[c] = always[c] \cap Present(t)
                                      /\ ever'[c] = ever[c] \cup Present(t)
        /\ caller[c].pc \in Ended => always'[c] = always[c] /\ ever'[c] = ever[c]
    BY DEF CallersInv, Moves
  <2>2. Own(c, caller[c], t, always'[c], ever'[c])
    BY ONLY <2>1, OwnMoves
  <2>3. conf' = conf /\ db' = t
    BY DEF Moves
  <2> QED
    BY <2>2, <2>3, SameConf
<1> QED
  BY <1>1, <1>2, <1>3 DEF CallersInv

LEMMA ActiveSpeaks ==
  ASSUME CallersInv, NEW c \in Callers, caller[c].pc \in Active
  PROVE  /\ Speaks(c) /\ c \notin late /\ Own(c, caller[c], db, always[c], ever[c])
         /\ Knows(c, caller[c], db, always[c], ever[c])
         /\ caller[c].call # "" /\ caller[c].status = ""
<1>1. conf \in Configs /\ Sound(db) /\ Own(c, caller[c], db, always[c], ever[c])
  BY DEF CallersInv
<1>2. Typed(caller[c]) /\ Asked(c, caller[c]) /\ Knows(c, caller[c], db, always[c], ever[c])
  BY <1>1 DEF Own
<1>3. caller[c].call # "" /\ caller[c].status = ""
  BY <1>2 DEF Asked
<1>4. c \notin late
  BY DEF CallersInv, Active, Waiting, Holding, Ended
<1> QED
  BY <1>1, <1>2, <1>3, <1>4 DEF Speaks

LEMMA LateSpeaks ==
  ASSUME CallersInv, NEW c \in late
  PROVE  Speaks(c)
<1>1. /\ c \in Callers /\ conf \in Configs /\ Sound(db) /\ Typed(caller[c]) /\ Asked(c, caller[c])
      /\ caller[c].call \in Writes /\ caller[c].status # "ready"
  BY DEF CallersInv, Own
<1> QED
  BY <1>1 DEF Speaks, Writes

\* A caller under way holds on, whatever the tables become.
LEMMA HoldsOn ==
  ASSUME CallersInv, NEW c \in Callers, caller[c].pc \in Active, NEW t, Moves(t)
  PROVE  /\ Own(c, caller[c], t, always'[c], ever'[c]) /\ Typed(caller[c]) /\ Asked(c, caller[c])
         /\ Seen(c, caller[c], t, always'[c], ever'[c])
         /\ caller[c].pc = "checkin" => Told(c, caller[c], caller[c].reply, t, always'[c], ever'[c])
<1>1. /\ conf \in Configs /\ Own(c, caller[c], db, always[c], ever[c]) /\ Follows(db, t)
      /\ caller[c].pc \in Active => /\ always'[c] = always[c] \cap Present(t)
                                    /\ ever'[c] = ever[c] \cup Present(t)
      /\ caller[c].pc \in Ended => always'[c] = always[c] /\ ever'[c] = ever[c]
  BY DEF CallersInv, Moves
<1>2. Own(c, caller[c], t, always'[c], ever'[c])
  BY ONLY <1>1, OwnMoves
<1> QED
  BY <1>2 DEF Own, Knows

\* It goes on to another step of the same call, or goes away.
LEMMA GoesFits ==
  ASSUME NEW c, NEW k, NEW t, NEW al, NEW ev, Own(c, k, t, al, ev), k.pc \in Active,
         NEW place \in (Active \cup {"gone"}) \ {"checkin"}
  PROVE  LET h == [k EXCEPT !.pc = place] IN Own(c, h, t, al, ev) /\ h.pc = place /\ h.call = k.call
<1> DEFINE h == [k EXCEPT !.pc = place]
<1>1. Typed(k) /\ Asked(c, k) /\ Seen(c, k, t, al, ev)
  BY DEF Own, Knows
<1>2. /\ h.pc = place /\ h.call = k.call /\ h.at = k.at /\ h.status = k.status /\ h.seen = k.seen
      /\ h.cursor = k.cursor /\ h.todo = k.todo /\ DOMAIN h = DOMAIN k
  BY <1>1 DEF Typed, Fields
<1> HIDE DEF h
<1>3. Typed(h)
  BY <1>1, <1>2 DEF Typed, Ended
<1>4. Asked(c, h)
  BY <1>1, <1>2 DEF Asked, Active, Waiting, Holding
<1>5. Knows(c, h, t, al, ev)
  BY <1>1, <1>2 DEF Knows, Seen
<1>6. Honest(c, h, t, al, ev)
  BY <1>2 DEF Honest, Active, Waiting, Holding
<1> QED
  BY <1>2, <1>3, <1>4, <1>5, <1>6 DEF Own, h

LEMMA GoesStep ==
  ASSUME CallersInv, NEW c \in Callers, caller[c].pc \in Active, NEW t, Moves(t),
         NEW place \in (Active \cup {"gone"}) \ {"checkin"}, Becomes(c, [caller[c] EXCEPT !.pc = place]),
         late' \subseteq late \cup {c}, c \in late' => caller[c].call \in Writes /\ place = "gone"
  PROVE  CallersInv'
<1> DEFINE h == [caller[c] EXCEPT !.pc = place]
<1>1. Own(c, caller[c], t, always'[c], ever'[c])
  BY HoldsOn
<1>2. Own(c, h, t, always'[c], ever'[c]) /\ h.pc = place /\ h.call = caller[c].call
  BY <1>1, GoesFits
<1>3. place = "gone" => h.status # "ready"
  BY <1>2 DEF Own, Asked
<1> HIDE DEF h
<1> QED
  BY <1>2, <1>3, CallersStep DEF h, Ended

LEMMA FailedStep ==
  ASSUME CallersInv, NEW c \in Callers, caller[c].pc \in Active, NEW t, Moves(t),
         Becomes(c, Failed(c)),
         late' \subseteq late \cup {c}, c \in late' => caller[c].call \in Writes
  PROVE  CallersInv'
<1>1. /\ Typed(caller[c]) /\ Asked(c, caller[c]) /\ conf \in Configs
      /\ Seen(c, caller[c], t, always'[c], ever'[c])
  BY HoldsOn DEF CallersInv
<1>2. /\ Own(c, Failed(c), t, always'[c], ever'[c]) /\ Failed(c).pc = "done"
      /\ Failed(c).status # "ready" /\ Failed(c).call = caller[c].call
  BY <1>1, FailedFits
<1> QED
  BY <1>2, CallersStep DEF Ended

\* The reply is heard.
LEMMA ContinuedStep ==
  ASSUME CallersInv, NEW c \in Callers, caller[c].pc \in Active, NEW t, Moves(t), NEW r,
         Told(c, caller[c], r, t, always'[c], ever'[c]), Becomes(c, Continued(c, r)),
         late' \subseteq late
  PROVE  CallersInv'
<1>1. Hears(c, caller[c], r, t, always'[c], ever'[c])
  BY HoldsOn DEF CallersInv, Hears
<1>2. Own(c, Continued(c, r), t, always'[c], ever'[c])
  BY <1>1, ContinuedFits
<1>3. c \notin late'
  BY ActiveSpeaks
<1> QED
  BY <1>2, <1>3, CallersStep

\* What a statement that is given up on has done.
LEMMA GivenUpMoves ==
  ASSUME CallersInv, NEW c \in Callers, caller[c].pc \in Active, GivenUp(c), conf' = conf
  PROVE  /\ \E t : Moves(t)
         /\ late' \subseteq late \cup {c} /\ (c \in late' => caller[c].call \in Writes)
<1>1. c \notin late /\ Follows(db, Statement(c).db)
  BY ActiveSpeaks, StatementFollows
<1>2. CASE StoresNothing /\ UNCHANGED late
  BY <1>1, <1>2, NothingMoves
<1>3. CASE Stores(Statement(c).db) /\ UNCHANGED late
  BY <1>1, <1>3, StoresMoves
<1>4. CASE caller[c].call \in Writes /\ StoresNothing /\ late' = late \cup {c}
  BY <1>1, <1>4, NothingMoves
<1> QED
  BY <1>2, <1>3, <1>4 DEF GivenUp

\* A caller's first step: it is refused, or makes its first call.
LEMMA StartFits ==
  ASSUME CallersInv, NEW c \in Callers, NEW o \in Ops, o = conf.ops[c], caller[c].pc = "idle",
         Authenticated(o), WellFormed(o), o.op = "delete" => o.id \notin conf.file,
         NEW d, d = IF o.op = "seed" THEN conf.file ELSE {}
  PROVE  LET h == Calls([caller[c] EXCEPT !.todo = d], FirstCall(o))
         IN Own(c, h, db, Present(db), Present(db)) /\ h.pc = "wait"
<1> DEFINE k == caller[c]
           h == [k EXCEPT !.todo = d]
           fn == FirstCall(o)
           g == Calls(h, fn)
<1>1. Typed(k) /\ Asked(c, k) /\ conf \in Configs
  BY DEF CallersInv, Own
<1>2. conf.file \subseteq Ids /\ (o.op = "seed" => conf.file # {})
  BY <1>1, ConfParts
<1>3. d \subseteq Ids /\ (o.op = "seed" => d = conf.file)
  BY <1>2
<1>4. k.call = "" /\ k.seen = <<>> /\ k.cursor = 0 /\ k.status = ""
  BY <1>1 DEF Asked
<1>5. Typed(h) /\ h.seen = <<>> /\ h.cursor = 0 /\ h.todo = d /\ h.status = ""
  BY <1>1, <1>3, <1>4 DEF Typed, Fields
<1>6. fn \in CallsOf(o)
  BY DEF CallsOf
<1>7. InCall(o, fn) /\ fn \notin {"summarize_usage", "get_budget_policy"}
  <2>1. o.op \in {"create", "get", "replace", "delete", "list", "put_budget", "get_budget",
                  "put_policy", "policy", "usage", "infer", "append", "seed", "models"}
    BY OpParts
  <2> QED
    BY <1>6, <2>1, CallsKnown DEF FirstCall
<1>8. fn \in Writes \cup Reads /\ fn # ""
  BY <1>7 DEF InCall, Writes, Reads
<1> HIDE DEF h, fn
<1>9. /\ Typed(g) /\ g.pc = "wait" /\ g.call = fn
      /\ g.seen = <<>> /\ g.cursor = 0 /\ g.todo = d /\ g.status = ""
  <2>1. Typed(g) /\ g.pc = "wait" /\ g.call = fn /\ SameFields(h, g, {"pc", "call", "at"})
    BY <1>5, <1>8, CallsMade
  <2> HIDE DEF g
  <2>2. g.seen = h.seen /\ g.cursor = h.cursor /\ g.todo = h.todo /\ g.status = h.status
    BY <2>1, Zenon DEF SameFields, Fields
  <2> QED
    BY <2>1, <2>2, <1>5
<1> HIDE DEF g
<1>10. Asked(c, g)
  BY <1>2, <1>3, <1>6, <1>7, <1>8, <1>9 DEF Asked, Active, Waiting, Holding
<1>11. Seen(c, g, db, Present(db), Present(db))
  <2>1. Increasing(g.seen) /\ Members(g.seen) = {}
    <3> DEFINE e == <<>>
    <3>1. DOMAIN e = {}
      OBVIOUS
    <3>2. g.seen = e
      BY <1>9
    <3> HIDE DEF e
    <3> QED
      BY ONLY <3>1, <3>2 DEF Increasing, Members
  <2>2. \A i \in Present(db) : ~(i <= g.cursor)
    <3>1. Present(db) \subseteq Ids /\ Ids \subseteq Nat \ {0}
      BY DirectoryAssumption DEF Present
    <3>2. g.cursor = 0
      BY <1>9
    <3>3. \A i \in Nat \ {0} : ~(i <= 0)
      OBVIOUS
    <3> QED
      BY <3>1, <3>2, <3>3
  <2>3. o.op = "seed" => conf.file \ g.todo = {}
    BY <1>3, <1>9
  <2> QED
    BY <1>7, <1>9, <2>1, <2>2, <2>3 DEF Seen
<1>12. Knows(c, g, db, Present(db), Present(db)) /\ Honest(c, g, db, Present(db), Present(db))
  BY <1>9, <1>11 DEF Knows, Honest
<1> QED
  BY <1>9, <1>10, <1>12 DEF Own, g, h, fn

LEMMA RefusedAtOnce ==
  ASSUME CallersInv, NEW c \in Callers, caller[c].pc = "idle", NEW al, NEW ev,
         NEW status \in Statuses,
         \/ status = "unauthorized"
         \/ status = "bad_request" /\ ~WellFormed(conf.ops[c])
         \/ status = "namespace_conflict" /\ conf.ops[c].op = "delete"
  PROVE  Own(c, Answers(caller[c], status), db, al, ev) /\ Answers(caller[c], status).pc = "done"
<1> DEFINE k == caller[c]
           g == Answers(k, status)
<1>1. Typed(k) /\ k.call = ""
  BY DEF CallersInv, Own, Asked
<1>2. Typed(g) /\ g.pc = "done" /\ g.status = status /\ g.call = ""
  <2>1. Typed(g) /\ g.pc = "done" /\ g.status = status /\ SameFields(k, g, {"pc", "status"})
    BY <1>1, AnswersMade
  <2> HIDE DEF g
  <2> QED
    BY <1>1, <2>1 DEF SameFields, Fields
<1> HIDE DEF g
<1>3. Asked(c, g)
  BY <1>2 DEF Asked, Active, Waiting, Holding
<1>4. Knows(c, g, db, al, ev)
  BY <1>2 DEF Knows, Active, Waiting, Holding
<1>5. Honest(c, g, db, al, ev)
  BY <1>2 DEF Honest
<1> QED
  BY <1>2, <1>3, <1>4, <1>5 DEF Own, g

LEMMA StartTo ==
  ASSUME CallersInv, NEW c \in Callers, Start(c)
  PROVE  \E h : /\ Becomes(c, h) /\ h.pc \in {"wait", "done"}
                /\ Own(c, h, db, Present(db), Present(db))
<1> DEFINE o == conf.ops[c]
           d == IF o.op = "seed" THEN conf.file ELSE {}
<1>1. caller[c].pc = "idle" /\ o # None
  BY DEF Start
<1>2. o \in Ops
  BY <1>1, ConfParts DEF CallersInv
<1>3. CASE ~Authenticated(o)
  <2>1. Becomes(c, Answers(caller[c], "unauthorized"))
    BY <1>3 DEF Start
  <2> QED
    BY <1>1, <2>1, RefusedAtOnce DEF Statuses
<1>4. CASE Authenticated(o) /\ ~WellFormed(o)
  <2>1. Becomes(c, Answers(caller[c], "bad_request"))
    BY <1>4 DEF Start
  <2> QED
    BY <1>1, <1>4, <2>1, RefusedAtOnce DEF Statuses
<1>5. CASE Authenticated(o) /\ WellFormed(o) /\ o.op = "delete" /\ o.id \in conf.file
  <2>1. Becomes(c, Answers(caller[c], "namespace_conflict"))
    BY <1>5 DEF Start
  <2> QED
    BY <1>1, <1>5, <2>1, RefusedAtOnce DEF Statuses
<1>6. CASE Authenticated(o) /\ WellFormed(o) /\ ~(o.op = "delete" /\ o.id \in conf.file)
  <2> DEFINE h == Calls([caller[c] EXCEPT !.todo = d], FirstCall(o))
  <2>1. Becomes(c, h)
    BY <1>6 DEF Start
  <2>2. Own(c, h, db, Present(db), Present(db)) /\ h.pc = "wait"
    <3>1. o = conf.ops[c] /\ d = IF o.op = "seed" THEN conf.file ELSE {}
      OBVIOUS
    <3> HIDE DEF o, d
    <3> QED
      BY <1>1, <1>2, <1>6, <3>1, StartFits
  <2> HIDE DEF h
  <2> QED
    BY <2>1, <2>2
<1> QED
  BY <1>3, <1>4, <1>5, <1>6

LEMMA StartKeeps ==
  ASSUME CallersInv, NEW c \in Callers, Start(c)
  PROVE  CallersInv'
<1>1. /\ caller[c].pc = "idle"
      /\ always' = [always EXCEPT ![c] = Present(db)] /\ ever' = [ever EXCEPT ![c] = Present(db)]
      /\ UNCHANGED <<conf, db, late>>
  BY DEF Start
<1>2. PICK h : Becomes(c, h) /\ Own(c, h, db, Present(db), Present(db))
  BY StartTo
<1>3. Moves(db)
  <2>1. Follows(db, db)
    BY DEF Follows, CallersInv
  <2>2. ASSUME NEW b \in Callers, caller[b].pc \in Active
        PROVE  always'[b] = always[b] \cap Present(db) /\ ever'[b] = ever[b] \cup Present(db)
    <3>1. b # c
      BY <1>1, <2>2 DEF Active, Waiting, Holding
    <3>2. always'[b] = always[b] /\ ever'[b] = ever[b]
      BY <1>1, <3>1 DEF CallersInv
    <3>3. Seen(b, caller[b], db, always[b], ever[b])
      BY <2>2, ActiveSpeaks DEF Knows
    <3> QED
      BY <3>2, <3>3 DEF Seen
  <2>3. ASSUME NEW b \in Callers, caller[b].pc \in Ended
        PROVE  always'[b] = always[b] /\ ever'[b] = ever[b]
    BY <1>1, <2>3 DEF CallersInv, Ended
  <2>4. DOMAIN always' = Callers /\ DOMAIN ever' = Callers
    BY <1>1 DEF CallersInv
  <2> QED
    BY <1>1, <2>1, <2>2, <2>3, <2>4 DEF Moves
<1>4. always'[c] = Present(db) /\ ever'[c] = Present(db) /\ c \notin late'
  BY <1>1 DEF CallersInv, Ended
<1> QED
  BY <1>1, <1>2, <1>3, <1>4, CallersStep

\* A caller whose statement has answered, and that has not heard it yet.
LEMMA AnswerWaits ==
  ASSUME NEW c, NEW k, NEW t, NEW al, NEW ev, Own(c, k, t, al, ev), k.pc \in Active,
         NEW r, Told(c, k, r, t, al, ev)
  PROVE  LET h == [k EXCEPT !.pc = "checkin", !.reply = r]
         IN Own(c, h, t, al, ev) /\ h.pc = "checkin"
<1> DEFINE h == [k EXCEPT !.pc = "checkin", !.reply = r]
<1>1. Typed(k) /\ Asked(c, k) /\ Seen(c, k, t, al, ev)
  BY DEF Own, Knows
<1>2. /\ h.pc = "checkin" /\ h.reply = r /\ h.call = k.call /\ h.at = k.at /\ h.status = k.status
      /\ h.seen = k.seen /\ h.cursor = k.cursor /\ h.todo = k.todo /\ DOMAIN h = DOMAIN k
  BY <1>1 DEF Typed, Fields
<1> HIDE DEF h
<1>3. Typed(h)
  BY <1>1, <1>2 DEF Typed, Active, Holding
<1>4. Asked(c, h)
  BY <1>1, <1>2 DEF Asked, Active, Waiting, Holding
<1>5. Told(c, h, r, t, al, ev)
  BY <1>2 DEF Told, Fits, SeedFits, First
<1>6. Knows(c, h, t, al, ev)
  BY <1>1, <1>2, <1>5 DEF Knows, Seen
<1>7. Honest(c, h, t, al, ev)
  BY <1>2 DEF Honest
<1> QED
  BY <1>2, <1>3, <1>4, <1>6, <1>7 DEF Own, h

\* A caller that goes on to the next statement of its policy.
LEMMA NextStatement ==
  ASSUME NEW c, NEW k, NEW t, NEW al, NEW ev, Own(c, k, t, al, ev), k.pc = "run",
         NEW at \in PolicyReads, NEW held
  PROVE  LET h == [k EXCEPT !.at = at, !.held = held]
         IN Own(c, h, t, al, ev) /\ h.pc = "run"
<1> DEFINE h == [k EXCEPT !.at = at, !.held = held]
<1>1. Typed(k) /\ Asked(c, k) /\ Knows(c, k, t, al, ev)
  BY DEF Own
<1>2. /\ h.pc = k.pc /\ h.call = k.call /\ h.at = at /\ h.status = k.status
      /\ h.seen = k.seen /\ h.cursor = k.cursor /\ h.todo = k.todo /\ DOMAIN h = DOMAIN k
  BY <1>1 DEF Typed, Fields
<1> HIDE DEF h
<1>3. Typed(h)
  BY <1>1, <1>2 DEF Typed
<1>4. Asked(c, h)
  BY <1>1, <1>2 DEF Asked
<1>5. Knows(c, h, t, al, ev)
  BY <1>1, <1>2 DEF Knows, Seen
<1>6. Honest(c, h, t, al, ev)
  BY <1>2 DEF Honest
<1> QED
  BY <1>2, <1>3, <1>4, <1>5, <1>6 DEF Own, h

LEMMA RunKeeps ==
  ASSUME CallersInv, NEW c \in Callers, NEW open \in BOOLEAN, Run(c, open)
  PROVE  CallersInv'
<1> DEFINE k == caller[c]
           s == Statement(c)
           t == s.db
<1>1. k.pc = "run" /\ Stores(t) /\ conf' = conf /\ late' = late
  BY DEF Run, Others
<1>2. k.pc \in Active
  BY <1>1 DEF Active, Holding
<1>3. Speaks(c) /\ c \notin late /\ Knows(c, k, db, always[c], ever[c]) /\ Follows(db, t)
  BY <1>2, ActiveSpeaks, StatementFollows
<1> HIDE DEF t
<1>4. Moves(t)
  BY <1>1, <1>3, StoresMoves
<1>5. Own(c, k, t, always'[c], ever'[c])
  BY <1>2, <1>4, HoldsOn
<1>6. CASE s.next # ""
  <2>1. Becomes(c, [k EXCEPT !.at = s.next, !.held = s.held])
    BY <1>6 DEF Run
  <2>2. s.next \in PolicyReads
    BY <1>3, <1>6, StatementGoesOn
  <2> DEFINE h == [k EXCEPT !.at = s.next, !.held = s.held]
  <2>3. Own(c, h, t, always'[c], ever'[c])
    BY <1>1, <1>5, <2>2, NextStatement
  <2> HIDE DEF h
  <2> QED
    BY <1>1, <1>3, <1>4, <2>1, <2>3, CallersStep DEF h
<1>7. CASE s.next = ""
  <2>1. Told(c, k, s.reply, t, always'[c], ever'[c])
    <3>1. Told(c, k, s.reply, s.db, always[c] \cap Present(s.db), ever[c] \cup Present(s.db))
      BY <1>2, <1>3, <1>7, StatementFits
    <3>2. always'[c] = always[c] \cap Present(t) /\ ever'[c] = ever[c] \cup Present(t)
      BY <1>2, <1>4 DEF Moves
    <3> QED
      BY <3>1, <3>2 DEF t
  <2>2. CASE open
    <3> DEFINE h == [k EXCEPT !.pc = "checkin", !.reply = s.reply]
    <3>1. Becomes(c, h)
      BY <1>7, <2>2 DEF Run
    <3>2. Own(c, h, t, always'[c], ever'[c])
      BY <1>2, <1>5, <2>1, AnswerWaits
    <3> HIDE DEF h
    <3> QED
      BY <1>1, <1>3, <1>4, <3>1, <3>2, CallersStep
  <2>3. CASE ~open
    <3>1. Becomes(c, Continued(c, s.reply))
      BY <1>7, <2>3 DEF Run
    <3> QED
      BY <1>1, <1>2, <1>4, <2>1, <3>1, ContinuedStep
  <2> QED
    BY <2>2, <2>3
<1> QED
  BY <1>6, <1>7

\* A closure of the SQLite Store runs all statements of its call.
LEMMA ClosureWhole ==
  ASSUME NEW c, Speaks(c), Sqlite
  PROVE  Statement(c).next = ""
<1>1. InCall(conf.ops[c], caller[c].call)
  BY TargetIs
<1> QED
  BY <1>1 DEF Statement, InCall, Sqlite

LEMMA ExecuteKeeps ==
  ASSUME CallersInv, LanesInv, NEW l \in Lanes, NEW ok \in BOOLEAN, Execute(l, ok)
  PROVE  CallersInv'
<1> DEFINE c == lane[l].slot
           k == caller[c]
           s == Statement(c)
           t == s.db
<1>1. /\ c # None /\ conf' = conf /\ late' = late
      /\ IF ok THEN Stores(t) ELSE StoresNothing
      /\ Becomes(c, IF k.pc = "gone" THEN k ELSE IF ok THEN Continued(c, s.reply) ELSE Failed(c))
  BY DEF Execute, NotLanes
<1>2. Sqlite /\ c \in Callers /\ late = {} /\ k.pc \in {"gone", "dispatched"}
  <2>1. c \in Callers \cup {None}
    BY DEF LanesInv
  <2>2. Sqlite
    BY <1>1, ConfParts DEF CallersInv, LanesInv, Sqlite, Postgres
  <2> QED
    BY <1>1, <2>1, <2>2 DEF LanesInv
<1>3. Speaks(c)
  <2>1. conf \in Configs /\ Sound(db) /\ Typed(k) /\ Asked(c, k)
    BY <1>2 DEF CallersInv, Own
  <2>2. k.call # "" /\ k.status = ""
    BY <1>2, <2>1 DEF Asked, Active
  <2> QED
    BY <1>2, <2>1, <2>2 DEF Speaks
<1>4. Follows(db, t)
  BY <1>3, StatementFollows
<1>5. PICK u : Moves(u) /\ (ok => u = t)
  <2>1. CASE ok
    BY <1>1, <1>4, <2>1, StoresMoves
  <2>2. CASE ~ok
    BY <1>1, <2>2, NothingMoves
  <2> QED
    BY <2>1, <2>2
<1>6. CASE k.pc = "gone"
  <2>1. /\ conf \in Configs /\ Own(c, k, db, always[c], ever[c]) /\ Follows(db, u)
        /\ k.pc \in Active => always'[c] = always[c] \cap Present(u) /\ ever'[c] = ever[c] \cup Present(u)
        /\ k.pc \in Ended => always'[c] = always[c] /\ ever'[c] = ever[c]
    BY <1>2, <1>5 DEF CallersInv, Moves
  <2> HIDE DEF k, c
  <2>2. Own(c, k, u, always'[c], ever'[c])
    BY ONLY <2>1, OwnMoves
  <2>3. Becomes(c, k)
    BY <1>1, <1>6
  <2> QED
    BY <1>1, <1>2, <1>5, <2>2, <2>3, CallersStep
<1>7. CASE k.pc # "gone"
  <2>1. k.pc \in Active
    BY <1>2, <1>7 DEF Active
  <2>2. CASE ok
    <3>1. Told(c, k, s.reply, s.db, always[c] \cap Present(s.db), ever[c] \cup Present(s.db))
      BY <1>2, <1>3, <2>1, ActiveSpeaks, ClosureWhole, StatementFits
    <3>2. always'[c] = always[c] \cap Present(u) /\ ever'[c] = ever[c] \cup Present(u)
      BY <1>2, <1>5, <2>1 DEF Moves
    <3>3. Told(c, k, s.reply, u, always'[c], ever'[c])
      BY <1>5, <2>2, <3>1, <3>2
    <3>4. Becomes(c, Continued(c, s.reply))
      BY <1>1, <1>7, <2>2
    <3> QED
      BY <1>1, <1>2, <1>5, <2>1, <3>3, <3>4, ContinuedStep
  <2>3. CASE ~ok
    <3>1. Becomes(c, Failed(c))
      BY <1>1, <1>7, <2>3
    <3> QED
      BY <1>1, <1>2, <1>5, <2>1, <3>1, FailedStep
  <2> QED
    BY <2>2, <2>3
<1> QED
  BY <1>6, <1>7

\* A caller's step keeps the callers' part.
LEMMA CallerKeeps ==
  ASSUME CallersInv, LanesInv, NEW c \in Callers, CallerStep(c)
  PROVE  CallersInv'
<1> USE DEF Others, NotLanes
<1>0. /\ {"wait"} \cup {"permit", "connect", "setup", "run", "checkin"} \cup {"dispatched"} \subseteq Active
      /\ "gone" \in Active \cup {"gone"}
  BY DEF Active, Waiting, Holding
<1>1. CASE Start(c)
  BY <1>1, StartKeeps
<1>2. CASE \E open \in BOOLEAN : Run(c, open)
  BY <1>2, RunKeeps
<1>3. CASE Acquire(c) \/ TakeIdle(c) \/ Connect(c) \/ SetUp(c) \/ Dispatch(c)
  <2>1. PICK place \in Active \ {"checkin"} :
          /\ caller[c].pc \in Active /\ StoresNothing /\ conf' = conf /\ late' = late
          /\ Becomes(c, [caller[c] EXCEPT !.pc = place])
    <3>1. CASE TakeIdle(c)
      <4> DEFINE open == {n \in DOMAIN pool.idle : pool.idle[n] = "open"}
                 place == IF open = {} \/ Max(open) = 0 THEN "connect" ELSE "run"
      <4>1. Becomes(c, [caller[c] EXCEPT !.pc = place])
        BY <3>1 DEF TakeIdle
      <4>2. place \in Active \ {"checkin"} /\ caller[c].pc \in Active
        BY <1>0, <3>1 DEF TakeIdle
      <4> HIDE DEF place
      <4> QED
        BY <3>1, <4>1, <4>2 DEF TakeIdle
    <3>2. CASE Acquire(c)
      BY <1>0, <3>2 DEF Acquire
    <3>3. CASE Connect(c)
      BY <1>0, <3>3 DEF Connect
    <3>4. CASE SetUp(c)
      BY <1>0, <3>4 DEF SetUp
    <3>5. CASE Dispatch(c)
      BY <1>0, <3>5 DEF Dispatch
    <3> QED
      BY <1>3, <3>1, <3>2, <3>3, <3>4, <3>5
  <2>2. Moves(db) /\ c \notin late'
    BY <2>1, NothingMoves, ActiveSpeaks
  <2> QED
    BY <2>1, <2>2, GoesStep
<1>4. CASE Saturated(c) \/ ConnectFails(c) \/ DispatchSaturated(c)
  <2>1. /\ caller[c].pc \in Active /\ StoresNothing /\ conf' = conf /\ late' = late
        /\ Becomes(c, Failed(c))
    BY <1>0, <1>4 DEF Saturated, ConnectFails, DispatchSaturated
  <2>2. Moves(db) /\ c \notin late'
    BY <2>1, NothingMoves, ActiveSpeaks
  <2> QED
    BY <2>1, <2>2, FailedStep
<1>5. CASE QueryFails(c) \/ RequestTimeout(c)
  <2>1. caller[c].pc \in Active /\ GivenUp(c) /\ conf' = conf /\ Becomes(c, Failed(c))
    BY <1>0, <1>5 DEF QueryFails, RequestTimeout
  <2>2. /\ \E t : Moves(t)
        /\ late' \subseteq late \cup {c} /\ (c \in late' => caller[c].call \in Writes)
    BY <2>1, GivenUpMoves
  <2> QED
    BY <2>1, <2>2, FailedStep
<1>6. CASE Cancel(c)
  <2>1. /\ caller[c].pc \in Active /\ GivenUp(c) /\ conf' = conf
        /\ Becomes(c, [caller[c] EXCEPT !.pc = "gone"])
    BY <1>0, <1>6 DEF Cancel, Waiting, Holding
  <2>2. /\ \E t : Moves(t)
        /\ late' \subseteq late \cup {c} /\ (c \in late' => caller[c].call \in Writes)
    BY <2>1, GivenUpMoves
  <2> QED
    BY <2>1, <2>2, GoesStep
<1>7. CASE LeaveLane(c)
  <2>1. /\ caller[c].pc \in Active /\ StoresNothing /\ conf' = conf /\ late' = late
        /\ Becomes(c, [caller[c] EXCEPT !.pc = "gone"])
    BY <1>0, <1>7 DEF LeaveLane
  <2>2. Moves(db) /\ c \notin late'
    BY <2>1, NothingMoves, ActiveSpeaks
  <2> QED
    BY <2>1, <2>2, GoesStep
<1>8. CASE Checkin(c)
  <2>1. /\ caller[c].pc = "checkin" /\ caller[c].pc \in Active /\ StoresNothing /\ conf' = conf
        /\ late' = late /\ Becomes(c, Continued(c, caller[c].reply))
    BY <1>0, <1>8 DEF Checkin
  <2>2. Moves(db)
    BY <2>1, NothingMoves
  <2>3. Told(c, caller[c], caller[c].reply, db, always'[c], ever'[c])
    BY <2>1, <2>2, HoldsOn
  <2> QED
    BY <2>1, <2>2, <2>3, ContinuedStep
<1>9. CASE LateLands(c)
  <2>1. c \in late /\ late' \subseteq late /\ Stores(Statement(c).db) /\ conf' = conf /\ caller' = caller
    BY <1>9 DEF LateLands
  <2>2. Follows(db, Statement(c).db)
    BY <2>1, LateSpeaks, StatementFollows
  <2>3. Moves(Statement(c).db)
    BY <2>1, <2>2, StoresMoves
  <2> QED
    BY <2>1, <2>3, TablesStep
<1> QED
  BY <1>1, <1>2, <1>3, <1>4, <1>5, <1>6, <1>7, <1>8, <1>9 DEF CallerStep

\* The lanes, the index and the idle sessions.
LEMMA SessionsKeep ==
  ASSUME CallersInv,
         \/ \E n \in DOMAIN pool.idle : IdleDies(n)
         \/ \E l \in Lanes : Lock(l)
         \/ IndexLock \/ IndexAppend
  PROVE  CallersInv'
<1>1. CASE IndexAppend
  <2> DEFINE t == append_usage_batch(db, conf.indexed).db
  <2>1. Stores(t) /\ caller' = caller /\ late' = late /\ conf' = conf
    BY <1>1 DEF IndexAppend
  <2>2. Follows(db, t)
    BY ConfParts, Appended DEF CallersInv, Follows
  <2> HIDE DEF t
  <2> QED
    BY <2>1, <2>2, StoresMoves, TablesStep
<1>2. CASE ~IndexAppend
  <2>1. StoresNothing /\ caller' = caller /\ late' = late /\ conf' = conf
    BY <1>2 DEF IdleDies, Lock, IndexLock, Others, NotLanes
  <2> QED
    BY <2>1, NothingMoves, TablesStep
<1> QED
  BY <1>1, <1>2

\* Discovery writes listings only.
LEMMA FinderKeeps ==
  ASSUME CallersInv, FindersInv, NEW r \in Replicas,
         BootFinder(r) \/ FinderStep(r) \/ StopFinder(r)
  PROVE  CallersInv'
<1> DEFINE S == conf.sources[r]
           T == {put_provider_models(db, S), StaleUnless(db, S), StaleIf(db, S)}
           Does == /\ conf' = conf /\ caller' = caller /\ late' = late
                   /\ \/ StoresNothing
                      \/ finder[r].pc # "off" /\ \E x \in T : Stores(x.db)
<1>1. Does
  <2>1. CASE BootFinder(r) \/ Round(r) \/ StopFinder(r) \/ \E ok \in BOOLEAN : Peek(r, ok) \/ Fetch(r, ok)
    BY <2>1 DEF BootFinder, Round, StopFinder, Peek, Fetch, NotFinder
  <2>2. ASSUME NEW ok \in BOOLEAN, MarkForeign(r, ok) PROVE Does
    BY <2>2 DEF MarkForeign, Lands, NotFinder
  <2>3. ASSUME NEW ok \in BOOLEAN, Put(r, ok) PROVE Does
    BY <2>3 DEF Put, Lands, NotFinder
  <2>4. ASSUME NEW ok \in BOOLEAN, MarkOwn(r, ok) PROVE Does
    BY <2>4 DEF MarkOwn, Lands, NotFinder
  <2> QED
    BY <2>1, <2>2, <2>3, <2>4 DEF FinderStep
<1>2. CASE StoresNothing
  BY <1>1, <1>2, NothingMoves, TablesStep
<1>3. CASE finder[r].pc # "off" /\ \E x \in T : Stores(x.db)
  <2>1. S \in Sources
    BY <1>3, ConfParts DEF CallersInv, FindersInv
  <2>2. PICK x \in T : Stores(x.db)
    BY <1>3
  <2>3. Follows(db, x.db)
    BY <2>1, ListingSteps DEF CallersInv, Follows
  <2> HIDE DEF T
  <2> QED
    BY <1>1, <2>2, <2>3, StoresMoves, TablesStep
<1> QED
  BY <1>1, <1>2, <1>3

-----------------------------------------------------------------------------
(* Sessions *)

\* The callers at some steps, counted again after one of them moved.
LEMMA Recount ==
  ASSUME DOMAIN caller = Callers, NEW c \in Callers, NEW h, Becomes(c, h), NEW P
  PROVE  /\ Cardinality(In(P)) \in Nat /\ Cardinality(In(P)') \in Nat
         /\ (caller[c].pc \in P <=> h.pc \in P) => Cardinality(In(P)') = Cardinality(In(P))
         /\ caller[c].pc \in P /\ h.pc \notin P => Cardinality(In(P)) = Cardinality(In(P)') + 1
         /\ caller[c].pc \notin P /\ h.pc \in P => Cardinality(In(P)') = Cardinality(In(P)) + 1
<1> DEFINE S == In(P)
           T == In(P)'
<1>1. S \subseteq Callers /\ T \subseteq Callers /\ IsFiniteSet(Callers)
  BY ManagementAssumption DEF In
<1>2. IsFiniteSet(S) /\ IsFiniteSet(T)
  BY <1>1, FS_Subset
<1>3. /\ c \in S <=> caller[c].pc \in P
      /\ c \in T <=> h.pc \in P
      /\ \A d \in Callers \ {c} : d \in S <=> d \in T
  BY DEF In, Becomes
<1> HIDE DEF S, T
<1>4. /\ Cardinality(S) \in Nat /\ Cardinality(T) \in Nat
      /\ c \notin S => Cardinality(S \cup {c}) = Cardinality(S) + 1
      /\ c \notin T => Cardinality(T \cup {c}) = Cardinality(T) + 1
  BY <1>2, FS_CardinalityType, FS_AddElement
<1>5. /\ (c \in S <=> c \in T) => S = T
      /\ c \in S /\ c \notin T => S = T \cup {c}
      /\ c \notin S /\ c \in T => T = S \cup {c}
  BY <1>1, <1>3
<1> QED
  BY <1>3, <1>4, <1>5 DEF S, T

\* Those on their way to a client hold a permit.
LEMMA OpeningHold ==
  ASSUME NEW f
  PROVE  Cardinality({c \in Callers : f[c].pc \in {"connect"} \cup Connected})
           <= Cardinality({c \in Callers : f[c].pc \in Holding})
<1> DEFINE S == {c \in Callers : f[c].pc \in {"connect"} \cup Connected}
           T == {c \in Callers : f[c].pc \in Holding}
<1>1. S \subseteq T /\ T \subseteq Callers
  BY DEF Connected, Holding
<1> HIDE DEF S, T
<1>2. IsFiniteSet(T)
  BY <1>1, FS_Subset, ManagementAssumption
<1>3. Cardinality(S) <= Cardinality(T)
  BY <1>1, <1>2, FS_Subset
<1> QED
  BY <1>3 DEF S, T

\* How they change when a caller goes from one step to another.
Moved(a, b) ==
  LET one(P) == (IF b \in P THEN 1 ELSE 0) - (IF a \in P THEN 1 ELSE 0)
  IN /\ Held \in Nat /\ Running \in Nat /\ Opening \in Nat /\ Connections \in Nat
     /\ Held' \in Nat /\ Running' \in Nat /\ Opening' \in Nat /\ Connections' \in Nat
     /\ Held' = Held + one({"permit", "connect", "setup", "run", "checkin"}) /\ Running' = Running + one({"run"})
     /\ Opening' = Opening + one({"connect", "setup", "run", "checkin"})
     /\ Connections' = Connections + one({"setup", "run", "checkin"})
     /\ Opening' <= Held'

LEMMA CountsMove ==
  ASSUME CallersInv, NEW c \in Callers, NEW h, Becomes(c, h)
  PROVE  Moved(caller[c].pc, h.pc)
<1>1. DOMAIN caller = Callers /\ DOMAIN caller' = Callers
  BY DEF CallersInv, Becomes
<1>2. Opening' <= Held'
  BY OpeningHold DEF Opening, Held, In
<1>3. /\ Holding = {"permit", "connect", "setup", "run", "checkin"}
      /\ {"connect"} \cup Connected = {"connect", "setup", "run", "checkin"}
      /\ Connected = {"setup", "run", "checkin"}
  BY DEF Holding, Connected
<1>4. \A P : /\ Cardinality(In(P)) \in Nat /\ Cardinality(In(P)') \in Nat
             /\ Cardinality(In(P)') = Cardinality(In(P)) + (IF h.pc \in P THEN 1 ELSE 0)
                                        - (IF caller[c].pc \in P THEN 1 ELSE 0)
  BY <1>1, Recount
<1> QED
  BY <1>2, <1>3, <1>4 DEF Moved, Held, Running, Opening, Connections

\* Where a caller is after its call has failed, or its reply is heard.
LEMMA AfterCall ==
  ASSUME CallersInv, NEW c \in Callers, caller[c].pc \in Active
  PROVE  /\ Failed(c).pc = "done"
         /\ caller[c].pc = "checkin" => Continued(c, caller[c].reply).pc \in {"wait", "done"}
         /\ Statement(c).next = "" => Continued(c, Statement(c).reply).pc \in {"wait", "done"}
<1> DEFINE k == caller[c]
           s == Statement(c)
           t == s.db
           al == always[c] \cap Present(t)
           ev == ever[c] \cup Present(t)
<1>1. /\ Speaks(c) /\ Own(c, k, db, always[c], ever[c]) /\ Knows(c, k, db, always[c], ever[c])
      /\ conf \in Configs /\ Typed(k) /\ Asked(c, k)
  BY ActiveSpeaks DEF Own, CallersInv
<1>2. Failed(c).pc = "done"
  BY <1>1, FailedFits DEF Knows
<1>3. ASSUME k.pc = "checkin" PROVE Continued(c, k.reply).pc \in {"wait", "done"}
  <2>1. Hears(c, k, k.reply, db, always[c], ever[c])
    BY <1>1, <1>3 DEF Hears, Knows
  <2> QED
    BY <2>1, ContinuedFits
<1>4. ASSUME s.next = "" PROVE Continued(c, s.reply).pc \in {"wait", "done"}
  <2>1. Told(c, k, s.reply, t, al, ev) /\ Follows(db, t)
    BY <1>1, <1>4, StatementFits, StatementFollows
  <2>2. k.pc \notin Ended
    BY DEF Active, Waiting, Holding, Ended
  <2> HIDE DEF t
  <2>3. Own(c, k, t, al, ev)
    BY <1>1, <2>1, <2>2, OwnMoves
  <2> HIDE DEF al, ev
  <2>4. Hears(c, k, s.reply, t, al, ev)
    BY <1>1, <2>1, <2>3 DEF Hears, Own, Knows
  <2> QED
    BY <2>4, ContinuedFits
<1> QED
  BY <1>2, <1>3, <1>4

\* What is given back with a session that is dropped.
LEMMA DroppedFits ==
  ASSUME PoolInv, Postgres, NEW a, a \in {"wait", "permit", "connect", "setup", "run", "checkin"},
         NEW b, b \in {"wait", "done", "gone"}, Moved(a, b), conf' = conf, conf.size \in Nat,
         pool' = Dropped(pool, a)
  PROVE  PoolInv'
<1> DEFINE p == pool
<1>1. /\ p \in PoolType /\ p.free \in Nat /\ p.live \in Nat /\ p.counted \in Nat
      /\ p.idle \in Seq({"open", "closed"}) /\ Len(p.idle) \in Nat
      /\ p.free + Held = conf.size /\ p.live = Running
      /\ Len(p.idle) + Opening <= conf.size /\ p.counted >= Len(p.idle) + Connections
  BY DEF PoolInv, PoolType
<1>2. /\ DOMAIN p = {"free", "idle", "live", "counted"}
      /\ pool'.free = IF a \in Holding THEN p.free + 1 ELSE p.free
      /\ pool'.live = IF a = "run" THEN p.live - 1 ELSE p.live
      /\ pool'.counted = IF a \in {"setup", "run"} THEN p.counted - 1 ELSE p.counted
      /\ pool'.idle = p.idle
      /\ pool' = [free |-> pool'.free, idle |-> pool'.idle, live |-> pool'.live, counted |-> pool'.counted]
  BY <1>1 DEF Dropped, PoolType
<1>3. /\ Held \in Nat /\ Running \in Nat /\ Opening \in Nat /\ Connections \in Nat
      /\ Held' \in Nat /\ Running' \in Nat /\ Opening' \in Nat /\ Connections' \in Nat
      /\ Held' = IF a = "wait" THEN Held ELSE Held - 1
      /\ Running' = IF a = "run" THEN Running - 1 ELSE Running
      /\ Opening' = IF a \in {"connect", "setup", "run", "checkin"} THEN Opening - 1 ELSE Opening
      /\ Connections' = IF a \in {"setup", "run", "checkin"} THEN Connections - 1 ELSE Connections
  BY DEF Moved
<1>4. (a \in Holding) <=> a # "wait"
  BY DEF Holding
<1> HIDE DEF p
<1>5. pool'.free + Held' = conf.size
  BY <1>1, <1>2, <1>3, <1>4
<1>6. pool'.live = Running'
  BY <1>1, <1>2, <1>3
<1>7. Len(pool'.idle) + Opening' <= conf.size
  BY <1>1, <1>2, <1>3
<1>8. pool'.counted >= Len(pool'.idle) + Connections'
  BY <1>1, <1>2, <1>3
<1>9. pool' \in PoolType
  <2>1. pool'.free \in Nat /\ pool'.live \in Nat /\ pool'.counted \in Nat
    <3>1. pool'.free \in Nat /\ pool'.live \in Nat
      BY <1>1, <1>2, <1>3, <1>6
    <3>2. pool'.counted \in Int /\ pool'.counted >= 0
      <4>1. pool'.counted \in Int /\ Len(pool'.idle) \in Nat /\ Connections' \in Nat
        BY ONLY <1>1, <1>2, <1>3
      <4> QED
        BY ONLY <4>1, <1>8
    <3> QED
      BY <3>1, <3>2
  <2> QED
    BY <1>1, <1>2, <2>1 DEF PoolType
<1> QED
  BY <1>5, <1>6, <1>7, <1>8, <1>9 DEF PoolInv

LEMMA PoolRead ==
  ASSUME PoolInv, Postgres
  PROVE  /\ pool \in PoolType /\ pool.free \in Nat /\ pool.live \in Nat /\ pool.counted \in Nat
         /\ pool.idle \in Seq({"open", "closed"}) /\ Len(pool.idle) \in Nat
         /\ pool.free + Held = conf.size /\ pool.live = Running
         /\ Len(pool.idle) + Opening <= conf.size /\ pool.counted >= Len(pool.idle) + Connections
  BY DEF PoolInv, PoolType

LEMMA PoolMade ==
  ASSUME NEW f, NEW i, NEW l, NEW n, pool' = [free |-> f, idle |-> i, live |-> l, counted |-> n],
         f \in Nat, i \in Seq({"open", "closed"}), l \in Nat, n \in Nat, conf' = conf,
         f + Held' = conf.size, l = Running', Len(i) + Opening' <= conf.size,
         n >= Len(i) + Connections'
  PROVE  PoolInv'
  BY DEF PoolInv, PoolType

\* The sums the steps below come to.
LEMMA Sums ==
  ASSUME NEW free \in Nat, NEW len \in Nat, NEW counted \in Nat, NEW size \in Nat,
         NEW held \in Nat, NEW opening \in Nat, NEW conn \in Nat,
         free + held = size, len + opening <= size, counted >= len + conn
  PROVE  /\ free > 0 => free - 1 \in Nat /\ (free - 1) + (held + 1) = size
         /\ counted + 1 \in Nat /\ counted + 1 >= len + (conn + 1)
         /\ held > 0 => free + 1 \in Nat /\ (free + 1) + (held - 1) = size
         /\ opening > 0 => (len + 1) + (opening - 1) <= size
         /\ conn > 0 => counted >= (len + 1) + (conn - 1)
         /\ conn > 0 => counted - 1 \in Nat /\ counted - 1 >= len + (conn - 1)
         /\ \A n \in Nat : n <= len =>
              /\ counted - (len - n) \in Nat
              /\ n = 0 => counted - (len - n) >= 0 + conn
              /\ n # 0 => /\ counted - (len - n) >= (n - 1) + (conn + 1)
                          /\ (n - 1) + (opening + 1) <= size
  OBVIOUS

LEMMA PoolSums ==
  ASSUME PoolInv, Postgres, conf.size \in Nat, Held \in Nat, Opening \in Nat, Connections \in Nat
  PROVE  LET len == Len(pool.idle) IN
         /\ pool.free > 0 => pool.free - 1 \in Nat /\ (pool.free - 1) + (Held + 1) = conf.size
         /\ pool.counted + 1 \in Nat /\ pool.counted + 1 >= len + (Connections + 1)
         /\ Held > 0 => pool.free + 1 \in Nat /\ (pool.free + 1) + (Held - 1) = conf.size
         /\ Opening > 0 => (len + 1) + (Opening - 1) <= conf.size
         /\ Connections > 0 => /\ pool.counted >= (len + 1) + (Connections - 1)
                               /\ pool.counted - 1 \in Nat
                               /\ pool.counted - 1 >= len + (Connections - 1)
         /\ \A n \in Nat : n <= len =>
              /\ pool.counted - (len - n) \in Nat
              /\ n = 0 => pool.counted - (len - n) >= 0 + Connections
              /\ n # 0 => /\ pool.counted - (len - n) >= (n - 1) + (Connections + 1)
                          /\ (n - 1) + (Opening + 1) <= conf.size
<1> DEFINE free == pool.free
           counted == pool.counted
           len == Len(pool.idle)
           size == conf.size
<1>1. /\ free \in Nat /\ len \in Nat /\ counted \in Nat /\ size \in Nat
      /\ free + Held = size /\ len + Opening <= size /\ counted >= len + Connections
  BY PoolRead
<1> HIDE DEF free, counted, len, size
<1>2. Held \in Nat /\ Opening \in Nat /\ Connections \in Nat
  OBVIOUS
<1>3. /\ free > 0 => free - 1 \in Nat /\ (free - 1) + (Held + 1) = size
      /\ counted + 1 \in Nat /\ counted + 1 >= len + (Connections + 1)
      /\ Held > 0 => free + 1 \in Nat /\ (free + 1) + (Held - 1) = size
      /\ Opening > 0 => (len + 1) + (Opening - 1) <= size
      /\ Connections > 0 => /\ counted >= (len + 1) + (Connections - 1)
                            /\ counted - 1 \in Nat /\ counted - 1 >= len + (Connections - 1)
      /\ \A n \in Nat : n <= len =>
           /\ counted - (len - n) \in Nat
           /\ n = 0 => counted - (len - n) >= 0 + Connections
           /\ n # 0 => /\ counted - (len - n) >= (n - 1) + (Connections + 1)
                       /\ (n - 1) + (Opening + 1) <= size
  BY ONLY <1>1, <1>2, Sums
<1> QED
  BY <1>3 DEF free, counted, len, size

\* take_idle: a session that is open, or none is.
LEMMA TakeIdleFits ==
  ASSUME PoolInv, Postgres, conf' = conf, conf.size \in Nat, NEW a, NEW b, Moved(a, b), a = "permit",
         NEW n, n \in Nat, n <= Len(pool.idle), b = IF n = 0 THEN "connect" ELSE "run",
         pool' = [pool EXCEPT !.idle = SubSeq(@, 1, IF n = 0 THEN 0 ELSE n - 1),
                              !.counted = @ - (Len(pool.idle) - n),
                              !.live = IF n = 0 THEN @ ELSE @ + 1]
  PROVE  PoolInv'
<1> DEFINE p == pool
           m == IF n = 0 THEN 0 ELSE n - 1
           i == SubSeq(p.idle, 1, m)
           l == IF n = 0 THEN p.live ELSE p.live + 1
           k == p.counted - (Len(p.idle) - n)
<1>1. /\ p \in PoolType /\ p.free \in Nat /\ p.live \in Nat /\ p.counted \in Nat
      /\ p.idle \in Seq({"open", "closed"}) /\ Len(p.idle) \in Nat
      /\ p.free + Held = conf.size /\ p.live = Running
      /\ Len(p.idle) + Opening <= conf.size /\ p.counted >= Len(p.idle) + Connections
  BY PoolRead
<1>2. m \in Nat /\ m <= Len(p.idle)
  BY <1>1
<1>3. i \in Seq({"open", "closed"}) /\ Len(i) = m
  BY <1>1, <1>2
<1>4. pool' = [free |-> p.free, idle |-> i, live |-> l, counted |-> k]
  BY <1>1 DEF PoolType
<1>5. /\ Held \in Nat /\ Running \in Nat /\ Opening \in Nat /\ Connections \in Nat
      /\ Held' = Held /\ Running' = (IF n = 0 THEN Running ELSE Running + 1) /\ Opening' = Opening + 1
      /\ Connections' = (IF n = 0 THEN Connections ELSE Connections + 1)
      /\ Opening' <= Held'
  <2>1. CASE n = 0
    <3>1. b = "connect"
      BY <2>1
    <3> QED
      BY <2>1, <3>1 DEF Moved
  <2>2. CASE n # 0
    <3>1. b = "run"
      BY <2>2
    <3> QED
      BY <2>2, <3>1 DEF Moved
  <2> QED
    BY <2>1, <2>2
<1> HIDE DEF i, p
<1>6. l \in Nat /\ l = Running'
  BY <1>1, <1>5
<1>7. k \in Nat /\ k >= m + Connections'
  <2>1. CASE n = 0
    BY <1>5, <2>1, PoolSums DEF p
  <2>2. CASE n # 0
    BY <1>5, <2>2, PoolSums DEF p
  <2> QED
    BY <2>1, <2>2
<1>8. m + Opening' <= conf.size
  <2>1. CASE n = 0
    BY <1>1, <1>5, <2>1
  <2>2. CASE n # 0
    BY <1>5, <2>2, PoolSums
  <2> QED
    BY <2>1, <2>2
<1> HIDE DEF l, k, m
<1> QED
  BY <1>1, <1>3, <1>4, <1>5, <1>6, <1>7, <1>8, PoolMade

\* checkin: the session is kept while there is room for it.
LEMMA CheckinFits ==
  ASSUME PoolInv, Postgres, conf' = conf, conf.size \in Nat, NEW a, NEW b, Moved(a, b),
         a = "checkin", b \in {"wait", "done"},
         pool' = [pool EXCEPT !.idle = IF Len(@) < conf.size THEN Append(@, "open") ELSE @,
                              !.counted = IF Len(pool.idle) < conf.size THEN @ ELSE @ - 1,
                              !.free = @ + 1]
  PROVE  PoolInv'
<1> DEFINE p == pool
           i == IF Len(p.idle) < conf.size THEN Append(p.idle, "open") ELSE p.idle
           k == IF Len(p.idle) < conf.size THEN p.counted ELSE p.counted - 1
           f == p.free + 1
<1>1. /\ p \in PoolType /\ p.free \in Nat /\ p.live \in Nat /\ p.counted \in Nat
      /\ p.idle \in Seq({"open", "closed"}) /\ Len(p.idle) \in Nat
      /\ p.free + Held = conf.size /\ p.live = Running
      /\ Len(p.idle) + Opening <= conf.size /\ p.counted >= Len(p.idle) + Connections
  BY PoolRead
<1>2. /\ i \in Seq({"open", "closed"})
      /\ Len(i) = IF Len(p.idle) < conf.size THEN Len(p.idle) + 1 ELSE Len(p.idle)
  BY <1>1
<1>3. pool' = [free |-> f, idle |-> i, live |-> p.live, counted |-> k]
  BY <1>1 DEF PoolType
<1>4. /\ Held \in Nat /\ Running \in Nat /\ Opening \in Nat /\ Connections \in Nat
      /\ Held' \in Nat /\ Opening' \in Nat /\ Connections' \in Nat
      /\ Held' = Held - 1 /\ Running' = Running /\ Opening' = Opening - 1
      /\ Connections' = Connections - 1
      /\ Held > 0 /\ Opening > 0 /\ Connections > 0
  BY DEF Moved
<1> HIDE DEF i, p
<1>5. k \in Nat /\ k >= Len(i) + Connections'
  <2>1. CASE Len(p.idle) < conf.size
    BY <1>1, <1>2, <1>4, <2>1, PoolSums DEF p
  <2>2. CASE ~(Len(p.idle) < conf.size)
    BY <1>2, <1>4, <2>2, PoolSums DEF p
  <2> QED
    BY <2>1, <2>2
<1>6. Len(i) + Opening' <= conf.size
  <2>1. CASE Len(p.idle) < conf.size
    BY <1>2, <1>4, <2>1, PoolSums DEF p
  <2>2. CASE ~(Len(p.idle) < conf.size)
    <3>1. /\ Len(p.idle) + Opening <= conf.size /\ Len(i) = Len(p.idle) /\ Len(p.idle) \in Nat
          /\ conf.size \in Nat
      BY <1>1, <1>2, <2>2
    <3> QED
      BY ONLY <1>4, <3>1
  <2> QED
    BY <2>1, <2>2
<1>7. f \in Nat /\ f + Held' = conf.size
  BY <1>4, PoolSums DEF p
<1> HIDE DEF k, f
<1> QED
  BY <1>1, <1>2, <1>3, <1>4, <1>5, <1>6, <1>7, PoolMade

\* The other steps of a caller with the pool.
LEMMA PoolMoves ==
  ASSUME PoolInv, Postgres, conf' = conf, conf.size \in Nat, NEW a, NEW b, Moved(a, b),
         \/ a = "wait" /\ b = "permit" /\ pool.free > 0 /\ pool' = [pool EXCEPT !.free = @ - 1]
         \/ a = "connect" /\ b = "setup" /\ pool' = [pool EXCEPT !.counted = @ + 1]
         \/ a = "setup" /\ b = "run" /\ pool' = [pool EXCEPT !.live = @ + 1]
         \/ a = "run" /\ b = "checkin" /\ pool' = [pool EXCEPT !.live = @ - 1]
         \/ a = "run" /\ b = "run" /\ pool' = pool
         \/ a \in {"idle", "wait"} /\ b \in {"wait", "done"} /\ pool' = pool
  PROVE  PoolInv'
<1> DEFINE p == pool
<1>1. /\ p \in PoolType /\ p.free \in Nat /\ p.live \in Nat /\ p.counted \in Nat
      /\ p.idle \in Seq({"open", "closed"}) /\ Len(p.idle) \in Nat
      /\ p.free + Held = conf.size /\ p.live = Running
      /\ Len(p.idle) + Opening <= conf.size /\ p.counted >= Len(p.idle) + Connections
  BY PoolRead
<1>2. /\ Held \in Nat /\ Running \in Nat /\ Opening \in Nat /\ Connections \in Nat
      /\ Held' \in Nat /\ Running' \in Nat /\ Opening' \in Nat /\ Connections' \in Nat
  BY DEF Moved
<1>3. CASE a = "wait" /\ b = "permit" /\ p.free > 0 /\ pool' = [p EXCEPT !.free = @ - 1]
  <2>1. Held' = Held + 1 /\ Running' = Running /\ Opening' = Opening /\ Connections' = Connections
    BY <1>3 DEF Moved
  <2>2. pool' = [free |-> p.free - 1, idle |-> p.idle, live |-> p.live, counted |-> p.counted]
    BY <1>1, <1>3 DEF PoolType
  <2>3. p.free - 1 \in Nat /\ (p.free - 1) + Held' = conf.size
    BY <1>2, <1>3, <2>1, PoolSums
  <2> HIDE DEF p
  <2> QED
    BY <1>1, <2>1, <2>2, <2>3, PoolMade
<1>4. CASE a = "connect" /\ b = "setup" /\ pool' = [p EXCEPT !.counted = @ + 1]
  <2>1. Held' = Held /\ Running' = Running /\ Opening' = Opening /\ Connections' = Connections + 1
    BY <1>4 DEF Moved
  <2>2. pool' = [free |-> p.free, idle |-> p.idle, live |-> p.live, counted |-> p.counted + 1]
    BY <1>1, <1>4 DEF PoolType
  <2>3. p.counted + 1 \in Nat /\ p.counted + 1 >= Len(p.idle) + Connections'
    BY <1>2, <2>1, PoolSums
  <2> HIDE DEF p
  <2> QED
    BY <1>1, <2>1, <2>2, <2>3, PoolMade
<1>5. CASE a = "setup" /\ b = "run" /\ pool' = [p EXCEPT !.live = @ + 1]
  <2>1. Held' = Held /\ Running' = Running + 1 /\ Opening' = Opening /\ Connections' = Connections
    BY <1>5 DEF Moved
  <2>2. pool' = [free |-> p.free, idle |-> p.idle, live |-> p.live + 1, counted |-> p.counted]
    BY <1>1, <1>5 DEF PoolType
  <2>3. p.live + 1 \in Nat /\ p.live + 1 = Running'
    BY <1>1, <1>2, <2>1
  <2> HIDE DEF p
  <2> QED
    BY <1>1, <2>1, <2>2, <2>3, PoolMade
<1>6. CASE a = "run" /\ b = "checkin" /\ pool' = [p EXCEPT !.live = @ - 1]
  <2>1. Held' = Held /\ Running' = Running - 1 /\ Opening' = Opening /\ Connections' = Connections
    BY <1>6 DEF Moved
  <2>2. pool' = [free |-> p.free, idle |-> p.idle, live |-> p.live - 1, counted |-> p.counted]
    BY <1>1, <1>6 DEF PoolType
  <2>3. p.live - 1 \in Nat /\ p.live - 1 = Running'
    BY <1>1, <1>2, <2>1
  <2> HIDE DEF p
  <2> QED
    BY <1>1, <2>1, <2>2, <2>3, PoolMade
<1>7. CASE \/ a = "run" /\ b = "run" /\ pool' = p
           \/ a \in {"idle", "wait"} /\ b \in {"wait", "done"} /\ pool' = p
  <2>1. Held' = Held /\ Running' = Running /\ Opening' = Opening /\ Connections' = Connections
    BY <1>7 DEF Moved
  <2> QED
    BY <1>1, <1>7, <2>1 DEF PoolInv
<1> QED
  BY <1>3, <1>4, <1>5, <1>6, <1>7

\* A caller's step with the pool.
LEMMA PoolOfCaller ==
  ASSUME CallersInv, LanesInv, PoolInv, NEW c \in Callers, CallerStep(c)
  PROVE  PoolInv'
<1> USE DEF Others, NotLanes
<1> DEFINE k == caller[c]
<1>0. /\ conf' = conf /\ conf.size \in Nat /\ Typed(k)
      /\ \A place \in {"wait", "permit", "connect", "setup", "run", "checkin", "dispatched"} : place \in Active
      /\ \A h : Becomes(c, h) => Moved(k.pc, h.pc)
  <2>1. conf' = conf
    BY DEF CallerStep, Start, Acquire, Saturated, TakeIdle, Connect, SetUp, ConnectFails, Run,
           QueryFails, RequestTimeout, Checkin, Cancel, LateLands, Dispatch, DispatchSaturated,
           LeaveLane
  <2>2. conf.size \in Nat /\ Typed(k)
    BY ConfParts DEF CallersInv, Own
  <2>3. \A h : Becomes(c, h) => Moved(k.pc, h.pc)
    BY CountsMove
  <2>4. \A place \in {"wait", "permit", "connect", "setup", "run", "checkin", "dispatched"} : place \in Active
    BY DEF Active, Waiting, Holding
  <2> QED
    BY <2>1, <2>2, <2>3, <2>4
<1>1. ASSUME NEW place PROVE [k EXCEPT !.pc = place].pc = place
  BY <1>0 DEF Typed, Fields
<1> HIDE DEF k
<1>2. CASE ~Postgres
  <2>1. pool' = pool
    BY <1>2 DEF CallerStep, Start, Acquire, Saturated, TakeIdle, Connect, SetUp, ConnectFails, Run,
           QueryFails, RequestTimeout, Checkin, Cancel, LateLands, Dispatch, DispatchSaturated,
           LeaveLane, sessions
  <2> QED
    BY <1>0, <1>2, <2>1 DEF PoolInv, Postgres
<1>3. CASE Postgres
  <2> USE <1>3
  <2>1. CASE Start(c)
    <3>1. k.pc = "idle" /\ pool' = pool
      BY <2>1 DEF Start, sessions, k
    <3>2. PICK h : Becomes(c, h) /\ h.pc \in {"wait", "done"}
      BY <2>1, StartTo
    <3>3. Moved("idle", h.pc)
      BY <1>0, <3>1, <3>2
    <3> QED
      BY <1>0, <3>1, <3>2, <3>3, PoolMoves
  <2>2. CASE Acquire(c)
    <3>1. k.pc = "wait" /\ pool.free > 0 /\ pool' = [pool EXCEPT !.free = @ - 1]
          /\ Becomes(c, [k EXCEPT !.pc = "permit"])
      BY <2>2 DEF Acquire, k
    <3>2. Moved("wait", "permit")
      BY <1>0, <1>1, <3>1
    <3> QED
      BY <1>0, <3>1, <3>2, PoolMoves
  <2>3. CASE Saturated(c)
    <3>1. k.pc = "wait" /\ pool' = pool /\ Becomes(c, Failed(c)) /\ Failed(c).pc = "done"
      BY <1>0, <2>3, AfterCall DEF Saturated, k
    <3>2. Moved("wait", "done")
      BY <1>0, <3>1
    <3> QED
      BY <1>0, <3>1, <3>2, PoolMoves
  <2>4. CASE TakeIdle(c)
    <3> DEFINE open == {m \in DOMAIN pool.idle : pool.idle[m] = "open"}
               n == IF open = {} THEN 0 ELSE Max(open)
               popped == Len(pool.idle) - (IF n = 0 THEN 0 ELSE n)
               b == IF n = 0 THEN "connect" ELSE "run"
    <3>1. /\ k.pc = "permit" /\ Becomes(c, [k EXCEPT !.pc = b])
          /\ pool' = [pool EXCEPT !.idle = SubSeq(@, 1, IF n = 0 THEN 0 ELSE n - 1),
                                  !.counted = @ - popped,
                                  !.live = IF n = 0 THEN @ ELSE @ + 1]
      BY <2>4 DEF TakeIdle, k
    <3>2. DOMAIN pool.idle = 1..Len(pool.idle) /\ Len(pool.idle) \in Nat
      BY PoolRead
    <3>3. n \in Nat /\ n <= Len(pool.idle)
      <4>1. CASE open = {}
        BY <3>2, <4>1
      <4>2. CASE open # {}
        <5>1. open \subseteq 1..Len(pool.idle) /\ open \subseteq Nat
          BY <3>2
        <5> HIDE DEF open
        <5>2. IsFiniteSet(open)
          <6>1. IsFiniteSet(1..Len(pool.idle))
            BY <3>2, FS_Interval
          <6> QED
            BY <5>1, <6>1, FS_Subset
        <5>3. Max(open) \in open
          BY <4>2, <5>1, <5>2, GreatestOf
        <5>4. n = Max(open)
          BY <4>2
        <5>5. n \in 1..Len(pool.idle)
          BY <5>1, <5>3, <5>4
        <5> HIDE DEF n
        <5> QED
          BY <3>2, <5>5
      <4> QED
        BY <4>1, <4>2
    <3>4. popped = Len(pool.idle) - n
      BY <3>3
    <3>5. Moved("permit", b)
      BY <1>0, <1>1, <3>1
    <3>6. b = IF n = 0 THEN "connect" ELSE "run"
      OBVIOUS
    <3>7. pool' = [pool EXCEPT !.idle = SubSeq(@, 1, IF n = 0 THEN 0 ELSE n - 1),
                               !.counted = @ - (Len(pool.idle) - n),
                               !.live = IF n = 0 THEN @ ELSE @ + 1]
      <4> HIDE DEF n, popped
      <4> QED
        BY <3>1, <3>4
    <3> HIDE DEF n, b
    <3> QED
      BY <1>0, <3>3, <3>5, <3>6, <3>7, TakeIdleFits
  <2>5. CASE Connect(c)
    <3>1. k.pc = "connect" /\ pool' = [pool EXCEPT !.counted = @ + 1]
          /\ Becomes(c, [k EXCEPT !.pc = "setup"])
      BY <2>5 DEF Connect, k
    <3>2. Moved("connect", "setup")
      BY <1>0, <1>1, <3>1
    <3> QED
      BY <1>0, <3>1, <3>2, PoolMoves
  <2>6. CASE SetUp(c)
    <3>1. k.pc = "setup" /\ pool' = [pool EXCEPT !.live = @ + 1]
          /\ Becomes(c, [k EXCEPT !.pc = "run"])
      BY <2>6 DEF SetUp, k
    <3>2. Moved("setup", "run")
      BY <1>0, <1>1, <3>1
    <3> QED
      BY <1>0, <3>1, <3>2, PoolMoves
  <2>7. CASE ConnectFails(c) \/ QueryFails(c) \/ RequestTimeout(c)
    <3>1. /\ k.pc \in {"wait", "permit", "connect", "setup", "run"} /\ pool' = Dropped(pool, k.pc)
          /\ Becomes(c, Failed(c))
      BY <2>7 DEF ConnectFails, QueryFails, RequestTimeout, k
    <3>2. Failed(c).pc = "done"
      BY <1>0, <3>1, AfterCall DEF k
    <3>3. Moved(k.pc, "done")
      BY <1>0, <3>1, <3>2
    <3> QED
      BY <1>0, <3>1, <3>3, DroppedFits
  <2>8. CASE Cancel(c)
    <3>1. /\ k.pc \in {"wait", "permit", "connect", "setup", "run", "checkin"}
          /\ pool' = Dropped(pool, k.pc) /\ Becomes(c, [k EXCEPT !.pc = "gone"])
      BY <2>8 DEF Cancel, Waiting, Holding, k
    <3>2. Moved(k.pc, "gone")
      BY <1>0, <1>1, <3>1
    <3> QED
      BY <1>0, <3>1, <3>2, DroppedFits
  <2>9. ASSUME NEW open \in BOOLEAN, Run(c, open) PROVE PoolInv'
    <3> DEFINE s == Statement(c)
    <3>0. k.pc = "run" /\ k.pc \in Active
      BY <1>0, <2>9 DEF Run, k
    <3>1. CASE s.next # ""
      <4> DEFINE h == [k EXCEPT !.at = s.next, !.held = s.held]
      <4>1. Becomes(c, h) /\ pool' = pool
        BY <2>9, <3>1 DEF Run, k
      <4>2. h.pc = "run"
        BY <1>0, <3>0 DEF Typed, Fields
      <4> HIDE DEF h
      <4>3. Moved("run", "run")
        BY <1>0, <3>0, <4>1, <4>2
      <4> QED
        BY <1>0, <4>1, <4>3, PoolMoves
    <3>2. CASE s.next = "" /\ open
      <4> DEFINE h == [k EXCEPT !.pc = "checkin", !.reply = s.reply]
      <4>1. Becomes(c, h) /\ pool' = [pool EXCEPT !.live = @ - 1]
        BY <2>9, <3>2 DEF Run, k
      <4>2. h.pc = "checkin"
        BY <1>0, <3>0 DEF Typed, Fields
      <4> HIDE DEF h
      <4>3. Moved("run", "checkin")
        BY <1>0, <3>0, <4>1, <4>2
      <4> QED
        BY <1>0, <4>1, <4>3, PoolMoves
    <3>3. CASE s.next = "" /\ ~open
      <4> DEFINE h == Continued(c, s.reply)
      <4>1. Becomes(c, h) /\ pool' = Dropped(pool, "run")
        BY <2>9, <3>3 DEF Run
      <4>2. h.pc \in {"wait", "done"}
        BY <3>0, <3>3, AfterCall DEF k
      <4> HIDE DEF h
      <4>3. Moved("run", h.pc)
        BY <1>0, <3>0, <4>1
      <4> QED
        BY <1>0, <4>1, <4>2, <4>3, DroppedFits
    <3> QED
      BY <3>1, <3>2, <3>3
  <2>10. CASE Checkin(c)
    <3> DEFINE h == Continued(c, k.reply)
    <3>1. /\ k.pc = "checkin" /\ Becomes(c, h)
          /\ pool' = [pool EXCEPT !.idle = IF Len(@) < conf.size THEN Append(@, "open") ELSE @,
                                  !.counted = IF Len(pool.idle) < conf.size THEN @ ELSE @ - 1,
                                  !.free = @ + 1]
      BY <2>10 DEF Checkin, k
    <3>2. h.pc \in {"wait", "done"}
      BY <1>0, <3>1, AfterCall DEF k
    <3> HIDE DEF h
    <3>3. Moved("checkin", h.pc)
      BY <1>0, <3>1
    <3> QED
      BY <1>0, <3>1, <3>2, <3>3, CheckinFits
  <2>11. CASE LateLands(c)
    <3>1. pool' = pool /\ caller' = caller
      BY <2>11 DEF LateLands
    <3> QED
      BY <1>0, <3>1 DEF PoolInv, Held, Running, Opening, Connections, In
  <2>12. ~Dispatch(c) /\ ~DispatchSaturated(c) /\ ~LeaveLane(c)
    BY DEF Dispatch, DispatchSaturated, LeaveLane, Sqlite, Postgres
  <2> QED
    BY <2>1, <2>2, <2>3, <2>4, <2>5, <2>6, <2>7, <2>8, <2>9, <2>10, <2>11, <2>12 DEF CallerStep
<1> QED
  BY <1>2, <1>3

\* Steps of no caller, and a closure's.
LEMMA PoolOfOthers ==
  ASSUME CallersInv, LanesInv, PoolInv,
         \/ \E n \in DOMAIN pool.idle : IdleDies(n)
         \/ \E l \in Lanes : Lock(l) \/ \E ok \in BOOLEAN : Execute(l, ok)
         \/ IndexLock \/ IndexAppend
         \/ \E r \in Replicas : BootFinder(r) \/ FinderStep(r) \/ StopFinder(r)
  PROVE  PoolInv'
<1> USE DEF Others, NotLanes, NotFinder, sessions
<1>1. ASSUME conf' = conf, pool' = pool, caller' = caller PROVE PoolInv'
  BY <1>1 DEF PoolInv, Postgres, Held, Running, Opening, Connections, In
<1>2. ASSUME NEW n \in DOMAIN pool.idle, IdleDies(n) PROVE PoolInv'
  <2> DEFINE i == [pool.idle EXCEPT ![n] = "closed"]
  <2>1. /\ pool \in PoolType /\ pool' = [pool EXCEPT !.idle = i] /\ conf' = conf /\ caller' = caller
    BY <1>2 DEF IdleDies, PoolInv
  <2>2. pool.idle \in Seq({"open", "closed"})
    BY <2>1 DEF PoolType
  <2>3. i \in Seq({"open", "closed"}) /\ Len(i) = Len(pool.idle)
    BY <2>2
  <2> HIDE DEF i
  <2>4. /\ pool' \in PoolType /\ pool'.idle = i /\ pool'.free = pool.free
        /\ pool'.live = pool.live /\ pool'.counted = pool.counted
    BY <2>1, <2>3 DEF PoolType
  <2> QED
    BY <2>1, <2>3, <2>4 DEF PoolInv, Postgres, Held, Running, Opening, Connections, In
<1>3. ASSUME NEW l \in Lanes, NEW ok \in BOOLEAN, Execute(l, ok) PROVE PoolInv'
  <2>1. conf' = conf /\ pool' = pool /\ lane[l].slot # None
    BY <1>3 DEF Execute
  <2>2. ~Postgres
    BY <2>1 DEF LanesInv
  <2> QED
    BY <2>1, <2>2 DEF PoolInv, Postgres
<1>4. ASSUME \/ \E l \in Lanes : Lock(l)
             \/ IndexLock \/ IndexAppend
             \/ \E r \in Replicas : BootFinder(r) \/ FinderStep(r) \/ StopFinder(r)
      PROVE  PoolInv'
  <2>1. conf' = conf /\ pool' = pool /\ caller' = caller
    BY <1>4 DEF Lock, IndexLock, IndexAppend, BootFinder, FinderStep, StopFinder, Round, MarkForeign,
       Peek, Fetch, Put, MarkOwn
  <2> QED
    BY <1>1, <2>1
<1> QED
  BY <1>2, <1>3, <1>4

\* Where a caller's step takes it, but for a dispatch.
LEMMA CallerTo ==
  ASSUME CallersInv, NEW c \in Callers, CallerStep(c), ~Dispatch(c), ~LateLands(c)
  PROVE  /\ conf' = conf /\ lane' = lane /\ index' = index
         /\ \E h : /\ Becomes(c, h) /\ h.pc # "dispatched"
                   /\ Sqlite => /\ late' = late /\ h.pc \in {"wait", "done", "gone"}
                                /\ h.pc = "gone" \/ caller[c].pc \in {"idle", "wait"}
<1> USE DEF Others, NotLanes
<1> DEFINE k == caller[c]
           To(h) == /\ Becomes(c, h) /\ h.pc # "dispatched"
                    /\ Sqlite => /\ late' = late /\ h.pc \in {"wait", "done", "gone"}
                                 /\ h.pc = "gone" \/ caller[c].pc \in {"idle", "wait"}
<1>0. conf' = conf /\ lane' = lane /\ index' = index
  BY DEF CallerStep, Start, Acquire, Saturated, TakeIdle, Connect, SetUp, ConnectFails, Run,
         QueryFails, RequestTimeout, Checkin, Cancel, DispatchSaturated, LeaveLane, sessions
<1>1. \A place \in {"wait", "permit", "connect", "setup", "run", "checkin", "dispatched"} : place \in Active
  BY DEF Active, Waiting, Holding
<1>2. Typed(k)
  BY DEF CallersInv, Own
<1>3. ASSUME NEW place PROVE [k EXCEPT !.pc = place].pc = place
  BY <1>2 DEF Typed, Fields
<1>4. k.pc \in Active => Failed(c).pc = "done"
  BY AfterCall
<1>5. Postgres => ~Sqlite
  BY DEF Postgres, Sqlite
<1>6. CASE Start(c)
  <2>1. PICK h : Becomes(c, h) /\ h.pc \in {"wait", "done"}
    BY <1>6, StartTo
  <2>2. k.pc = "idle" /\ late' = late
    BY <1>6 DEF Start
  <2>3. To(h)
    BY <2>1, <2>2
  <2> QED
    BY <1>0, <2>3
<1>7. CASE Acquire(c)
  <2>1. Postgres /\ Becomes(c, [k EXCEPT !.pc = "permit"])
    BY <1>7 DEF Acquire
  <2>2. To([k EXCEPT !.pc = "permit"])
    BY <1>3, <1>5, <2>1
  <2> QED
    BY <1>0, <2>2
<1>8. CASE Connect(c)
  <2>1. Postgres /\ Becomes(c, [k EXCEPT !.pc = "setup"])
    BY <1>8 DEF Connect
  <2>2. To([k EXCEPT !.pc = "setup"])
    BY <1>3, <1>5, <2>1
  <2> QED
    BY <1>0, <2>2
<1>9. CASE SetUp(c)
  <2>1. Postgres /\ Becomes(c, [k EXCEPT !.pc = "run"])
    BY <1>9 DEF SetUp
  <2>2. To([k EXCEPT !.pc = "run"])
    BY <1>3, <1>5, <2>1
  <2> QED
    BY <1>0, <2>2
<1>10. CASE TakeIdle(c)
  <2>1. PICK place \in {"connect", "run"} : Postgres /\ Becomes(c, [k EXCEPT !.pc = place])
    <3> DEFINE open == {m \in DOMAIN pool.idle : pool.idle[m] = "open"}
               n == IF open = {} THEN 0 ELSE Max(open)
               b == IF n = 0 THEN "connect" ELSE "run"
    <3>1. b \in {"connect", "run"}
      OBVIOUS
    <3>2. Postgres /\ Becomes(c, [k EXCEPT !.pc = b])
      BY <1>10 DEF TakeIdle
    <3> HIDE DEF b
    <3> QED
      BY <3>1, <3>2
  <2>2. To([k EXCEPT !.pc = place])
    BY <1>3, <1>5, <2>1
  <2> QED
    BY <1>0, <2>2
<1>11. CASE Saturated(c) \/ ConnectFails(c) \/ QueryFails(c) \/ RequestTimeout(c)
  <2>1. Postgres /\ Becomes(c, Failed(c)) /\ k.pc \in Active
    BY <1>1, <1>11 DEF Saturated, ConnectFails, QueryFails, RequestTimeout
  <2>2. To(Failed(c))
    BY <1>4, <1>5, <2>1
  <2> QED
    BY <1>0, <2>2
<1>12. CASE Cancel(c)
  <2>1. Postgres /\ Becomes(c, [k EXCEPT !.pc = "gone"])
    BY <1>12 DEF Cancel
  <2>2. To([k EXCEPT !.pc = "gone"])
    BY <1>3, <1>5, <2>1
  <2> QED
    BY <1>0, <2>2
<1>13. CASE Checkin(c)
  <2> DEFINE h == Continued(c, k.reply)
  <2>1. Postgres /\ k.pc = "checkin" /\ Becomes(c, h)
    BY <1>13 DEF Checkin
  <2>2. h.pc \in {"wait", "done"}
    BY <1>1, <2>1, AfterCall
  <2> HIDE DEF h
  <2>3. To(h)
    BY <1>5, <2>1, <2>2
  <2> QED
    BY <1>0, <2>3
<1>14. ASSUME NEW open \in BOOLEAN, Run(c, open)
       PROVE  \E h : To(h)
  <2> DEFINE s == Statement(c)
  <2>0. k.pc = "run" /\ Postgres
    BY <1>14 DEF Run
  <2>1. CASE s.next # ""
    <3> DEFINE h == [k EXCEPT !.at = s.next, !.held = s.held]
    <3>1. Becomes(c, h) /\ h.pc = "run"
      BY <1>2, <1>14, <2>0, <2>1 DEF Run, Typed, Fields
    <3> HIDE DEF h
    <3>2. To(h)
      BY <1>5, <2>0, <3>1
    <3> QED
      BY <3>2
  <2>2. CASE s.next = "" /\ open
    <3> DEFINE h == [k EXCEPT !.pc = "checkin", !.reply = s.reply]
    <3>1. Becomes(c, h) /\ h.pc = "checkin"
      BY <1>2, <1>14, <2>2 DEF Run, Typed, Fields
    <3> HIDE DEF h
    <3>2. To(h)
      BY <1>5, <2>0, <3>1
    <3> QED
      BY <3>2
  <2>3. CASE s.next = "" /\ ~open
    <3> DEFINE h == Continued(c, s.reply)
    <3>1. Becomes(c, h)
      BY <1>14, <2>3 DEF Run
    <3>2. h.pc \in {"wait", "done"}
      BY <1>1, <2>0, <2>3, AfterCall
    <3> HIDE DEF h
    <3>3. To(h)
      BY <1>5, <2>0, <3>1, <3>2
    <3> QED
      BY <3>3
  <2> QED
    BY <2>1, <2>2, <2>3
<1>15. CASE DispatchSaturated(c)
  <2>1. k.pc = "wait" /\ late' = late /\ Becomes(c, Failed(c))
    BY <1>15 DEF DispatchSaturated
  <2>2. To(Failed(c))
    BY <1>1, <1>4, <2>1
  <2> QED
    BY <1>0, <2>2
<1>16. CASE LeaveLane(c)
  <2>1. late' = late /\ Becomes(c, [k EXCEPT !.pc = "gone"])
    BY <1>16 DEF LeaveLane
  <2>2. To([k EXCEPT !.pc = "gone"])
    BY <1>3, <2>1
  <2> QED
    BY <1>0, <2>2
<1> HIDE DEF To
<1>17. CASE \E open \in BOOLEAN : Run(c, open)
  BY <1>0, <1>14, <1>17 DEF To
<1> QED
  BY <1>6, <1>7, <1>8, <1>9, <1>10, <1>11, <1>12, <1>13, <1>15, <1>16, <1>17 DEF CallerStep

LaneType == [Lanes -> [slot : Callers \cup {None}, mutex : Callers \cup {None, "index"}]]

\* A caller's step leaves the lanes to their closures; a dispatch takes one.
LEMMA LanesOfCaller ==
  ASSUME CallersInv, LanesInv, NEW c \in Callers, CallerStep(c)
  PROVE  LanesInv'
<1>0. /\ DOMAIN caller = Callers /\ conf.backend \in {"postgres", "sqlite"} /\ None \notin Callers
      /\ "index" \notin Callers \cup {None} /\ lane \in LaneType
  BY ConfParts, ManagementAssumption DEF CallersInv, LanesInv, LaneType
<1>1. CASE LateLands(c)
  <2>1. /\ c \in late /\ conf' = conf /\ lane' = lane /\ index' = index /\ caller' = caller
    BY <1>1 DEF LateLands, Others
  <2>2. ~Sqlite
    BY <2>1 DEF LanesInv
  <2> QED
    BY <2>1, <2>2 DEF LanesInv, Sqlite, Postgres
<1>2. CASE Dispatch(c)
  <2> DEFINE l == LaneOf(c)
             h == [caller[c] EXCEPT !.pc = "dispatched"]
  <2>1. /\ Sqlite /\ caller[c].pc = "wait" /\ lane[l].slot = None /\ Becomes(c, h)
        /\ lane' = [lane EXCEPT ![l].slot = c]
        /\ conf' = conf /\ late' = late /\ index' = index
    BY <1>2 DEF Dispatch, NotLanes
  <2>2. h.pc = "dispatched" /\ h.call = caller[c].call
    <3>1. Typed(caller[c])
      BY DEF CallersInv, Own
    <3> QED
      BY <3>1 DEF Typed, Fields
  <2>3. l \in Lanes /\ LaneOf(c)' = l
    BY <1>0, <2>1, <2>2 DEF LaneOf, Lanes, Becomes
  <2>4. \A d \in Callers \ {c} : caller'[d] = caller[d] /\ LaneOf(d)' = LaneOf(d)
    BY <1>0, <2>1 DEF Becomes, LaneOf
  <2>5. caller'[c].pc = "dispatched"
    BY <1>0, <2>1, <2>2 DEF Becomes
  <2> HIDE DEF h, l
  <2>6. /\ lane' \in LaneType /\ lane'[l].slot = c /\ lane'[l].mutex = lane[l].mutex
        /\ \A m \in Lanes \ {l} : lane'[m] = lane[m]
    BY <1>0, <2>1, <2>3 DEF LaneType
  <2>7. late = {} /\ \A d \in Callers : caller'[d].pc \notin Holding
    BY <2>1, <2>4, <2>5 DEF LanesInv, Holding
  <2>8. ASSUME NEW d \in Callers, caller'[d].pc = "dispatched" PROVE lane'[LaneOf(d)'].slot = d
    <3>1. CASE d = c
      BY <2>3, <2>6, <3>1
    <3>2. CASE d # c
      <4>1. lane[LaneOf(d)].slot = d /\ LaneOf(d) \in Lanes
        BY <2>1, <2>4, <2>8, <3>2 DEF LanesInv, LaneOf, Lanes
      <4>2. LaneOf(d) # l
        BY <1>0, <2>1, <4>1
      <4> QED
        BY <2>4, <2>6, <3>2, <4>1, <4>2
    <3> QED
      BY <3>1, <3>2
  <2>9. ASSUME NEW m \in Lanes, lane'[m].slot # None
        PROVE  \/ caller'[lane'[m].slot].pc = "gone"
               \/ caller'[lane'[m].slot].pc = "dispatched" /\ LaneOf(lane[m].slot)' = m
    <3>1. CASE m = l
      BY <2>3, <2>5, <2>6, <3>1 DEF LaneOf
    <3>2. CASE m # l
      <4> DEFINE d == lane[m].slot
      <4>1. lane'[m].slot = d /\ d \in Callers
        BY <1>0, <2>6, <2>9, <3>2 DEF LaneType
      <4>2. caller[d].pc = "gone" \/ (caller[d].pc = "dispatched" /\ LaneOf(d) = m)
        BY <2>1, <2>9, <4>1 DEF LanesInv
      <4>3. d # c
        BY <2>1, <4>2
      <4>4. caller'[d] = caller[d] /\ LaneOf(d)' = LaneOf(d)
        BY <2>4, <4>1, <4>3
      <4> QED
        BY <2>1, <4>1, <4>2, <4>4 DEF LaneOf
    <3> QED
      BY <3>1, <3>2
  <2>10. ASSUME NEW m \in Lanes
         PROVE  \/ lane'[m].mutex \in {None, lane'[m].slot}
                \/ m = "writer" /\ lane'[m].mutex = "index" /\ index = "locked"
    BY <2>1, <2>6 DEF LanesInv
  <2> QED
    BY <2>1, <2>6, <2>7, <2>8, <2>9, <2>10 DEF LanesInv, LaneType, Sqlite, Postgres
<1>3. CASE ~LateLands(c) /\ ~Dispatch(c)
  <2>1. /\ conf' = conf /\ lane' = lane /\ index' = index
        /\ \E h : /\ Becomes(c, h) /\ h.pc # "dispatched"
                  /\ Sqlite => /\ late' = late /\ h.pc \in {"wait", "done", "gone"}
                               /\ h.pc = "gone" \/ caller[c].pc \in {"idle", "wait"}
    BY <1>3, CallerTo
  <2>2. PICK h : /\ Becomes(c, h) /\ h.pc # "dispatched"
                 /\ Sqlite => /\ late' = late /\ h.pc \in {"wait", "done", "gone"}
                              /\ h.pc = "gone" \/ caller[c].pc \in {"idle", "wait"}
    BY <2>1
  <2>3. /\ caller'[c] = h /\ \A d \in Callers \ {c} : caller'[d] = caller[d]
    BY <1>0, <2>2 DEF Becomes
  <2>4. CASE Postgres
    BY <2>1, <2>2, <2>3, <2>4 DEF LanesInv, Postgres, Sqlite
  <2>5. CASE Sqlite
    <3>1. late' = {} /\ \A d \in Callers : caller'[d].pc \notin Holding
      BY <2>2, <2>3, <2>5 DEF LanesInv, Holding
    <3>2. \A d \in Callers : caller'[d].pc = "dispatched" => lane[LaneOf(d)'].slot = d
      <4>1. \A d \in Callers \ {c} : LaneOf(d)' = LaneOf(d)
        BY <2>1, <2>3 DEF LaneOf
      <4> QED
        BY <2>2, <2>3, <2>5, <4>1 DEF LanesInv
    <3>3. ASSUME NEW m \in Lanes, lane[m].slot # None
          PROVE  \/ caller'[lane[m].slot].pc = "gone"
                 \/ caller'[lane[m].slot].pc = "dispatched" /\ LaneOf(lane[m].slot)' = m
      <4> DEFINE d == lane[m].slot
      <4>1. d \in Callers
        BY <1>0, <3>3 DEF LaneType
      <4>2. caller[d].pc = "gone" \/ (caller[d].pc = "dispatched" /\ LaneOf(d) = m)
        BY <2>5, <3>3 DEF LanesInv
      <4>3. CASE d = c
        <5>1. h.pc = "gone"
          BY <2>2, <2>5, <4>2, <4>3
        <5> QED
          BY <2>3, <4>3, <5>1
      <4>4. CASE d # c
        <5>1. caller'[d] = caller[d]
          BY <2>3, <4>1, <4>4
        <5> QED
          BY <2>1, <4>2, <5>1 DEF LaneOf
      <4> QED
        BY <4>3, <4>4
    <3> QED
      BY <2>1, <2>5, <3>1, <3>2, <3>3 DEF LanesInv, Postgres, Sqlite
  <2> QED
    BY <1>0, <2>4, <2>5 DEF Postgres, Sqlite
<1> QED
  BY <1>1, <1>2, <1>3

\* A closure gives its lane back, and its caller goes on.
LEMMA LanesOfClosure ==
  ASSUME CallersInv, LanesInv, NEW l \in Lanes, NEW ok \in BOOLEAN, Execute(l, ok)
  PROVE  LanesInv'
<1> DEFINE c == lane[l].slot
           k == caller[c]
           h == IF k.pc = "gone" THEN k ELSE IF ok THEN Continued(c, Statement(c).reply) ELSE Failed(c)
<1>1. /\ c # None /\ conf' = conf /\ late' = late /\ index' = index
      /\ lane' = [lane EXCEPT ![l] = [slot |-> None, mutex |-> None]]
      /\ Becomes(c, h)
  BY DEF Execute, NotLanes
<1>2. /\ DOMAIN caller = Callers /\ None \notin Callers /\ lane \in LaneType
      /\ conf.backend \in {"postgres", "sqlite"}
  BY ManagementAssumption, ConfParts DEF CallersInv, LanesInv, LaneType
<1>3. /\ Sqlite /\ ~Postgres /\ c \in Callers /\ late = {}
      /\ k.pc = "gone" \/ (k.pc = "dispatched" /\ LaneOf(c) = l)
  <2>1. c \in Callers
    BY <1>1, <1>2 DEF LaneType
  <2>2. Sqlite /\ ~Postgres
    BY <1>1, <1>2 DEF LanesInv, Sqlite, Postgres
  <2> QED
    BY <1>1, <2>1, <2>2 DEF LanesInv
<1>4. (k.pc = "gone" => h = k) /\ (k.pc # "gone" => h.pc \in {"wait", "done"})
  <2>1. CASE k.pc = "gone"
    BY <2>1
  <2>2. CASE k.pc # "gone"
    <3>1. k.pc \in Active
      BY <1>3, <2>2 DEF Active
    <3>2. Speaks(c)
      BY <1>3, <3>1, ActiveSpeaks
    <3>3. Statement(c).next = ""
      BY <1>3, <3>2, ClosureWhole
    <3>4. Failed(c).pc = "done" /\ Continued(c, Statement(c).reply).pc \in {"wait", "done"}
      BY <1>3, <3>1, <3>3, AfterCall
    <3> QED
      BY <2>2, <3>4
  <2> QED
    BY <2>1, <2>2
<1> HIDE DEF c, h
<1>5. caller'[c] = h /\ \A d \in Callers \ {c} : caller'[d] = caller[d] /\ LaneOf(d)' = LaneOf(d)
  BY <1>1, <1>2, <1>3 DEF Becomes, LaneOf
<1>6. /\ lane' \in LaneType /\ lane'[l].slot = None /\ lane'[l].mutex = None
      /\ \A m \in Lanes \ {l} : lane'[m] = lane[m]
  BY <1>1, <1>2 DEF LaneType
<1>7. \A d \in Callers : caller'[d].pc \notin Holding
  <2>1. h.pc \notin Holding
    BY <1>3, <1>4 DEF Holding
  <2> QED
    BY <1>3, <1>5, <2>1 DEF LanesInv
<1>8. ASSUME NEW d \in Callers, caller'[d].pc = "dispatched" PROVE lane'[LaneOf(d)'].slot = d
  <2>1. d # c
    BY <1>3, <1>4, <1>5, <1>8
  <2>2. lane[LaneOf(d)].slot = d /\ LaneOf(d) \in Lanes
    BY <1>3, <1>5, <1>8, <2>1 DEF LanesInv, LaneOf, Lanes
  <2>3. LaneOf(d) # l
    BY <2>1, <2>2 DEF c
  <2> QED
    BY <1>5, <1>6, <2>1, <2>2, <2>3
<1>9. ASSUME NEW m \in Lanes, lane'[m].slot # None
      PROVE  \/ caller'[lane'[m].slot].pc = "gone"
             \/ caller'[lane'[m].slot].pc = "dispatched" /\ LaneOf(lane[m].slot)' = m
  <2> DEFINE d == lane[m].slot
  <2>1. m # l /\ lane'[m].slot = d /\ d \in Callers
    BY <1>2, <1>6, <1>9 DEF LaneType
  <2>2. caller[d].pc = "gone" \/ (caller[d].pc = "dispatched" /\ LaneOf(d) = m)
    BY <1>3, <1>9, <2>1 DEF LanesInv
  <2>3. CASE d = c
    <3>1. k.pc = "gone"
      BY <1>3, <2>1, <2>2, <2>3
    <3> QED
      BY <1>4, <1>5, <2>1, <2>3, <3>1
  <2>4. CASE d # c
    <3>1. caller'[d] = caller[d]
      BY <1>5, <2>1, <2>4
    <3> QED
      BY <1>1, <2>1, <2>2, <3>1 DEF LaneOf
  <2> QED
    BY <2>3, <2>4
<1>10. ASSUME NEW m \in Lanes
       PROVE  \/ lane'[m].mutex \in {None, lane'[m].slot}
              \/ m = "writer" /\ lane'[m].mutex = "index" /\ index = "locked"
  BY <1>3, <1>6 DEF LanesInv
<1> QED
  BY <1>1, <1>3, <1>6, <1>7, <1>8, <1>9, <1>10 DEF LanesInv, LaneType, Sqlite, Postgres

\* Steps that move no caller.
LEMMA LanesOfOthers ==
  ASSUME CallersInv, LanesInv,
         \/ \E n \in DOMAIN pool.idle : IdleDies(n)
         \/ \E l \in Lanes : Lock(l)
         \/ IndexLock \/ IndexAppend
         \/ \E r \in Replicas : BootFinder(r) \/ FinderStep(r) \/ StopFinder(r)
  PROVE  LanesInv'
<1> USE DEF Others, NotLanes, NotFinder, sessions
<1>0. lane \in LaneType /\ "writer" \in Lanes
  BY DEF LanesInv, LaneType, Lanes
<1>1. ASSUME NEW l \in Lanes, conf' = conf, caller' = caller, late' = late,
             NEW x \in Callers \cup {None, "index"}, lane' = [lane EXCEPT ![l].mutex = x],
             index' \in {"idle", "locked", "done"},
             \/ x \in {None, lane[l].slot}
             \/ l = "writer" /\ x = "index" /\ index' = "locked",
             index' = index \/ l = "writer"
      PROVE  LanesInv'
  <2>1. /\ lane' \in LaneType /\ lane'[l].mutex = x
        /\ \A m \in Lanes : lane'[m].slot = lane[m].slot /\ (m # l => lane'[m].mutex = lane[m].mutex)
    BY <1>0, <1>1 DEF LaneType
  <2>2. \A c : LaneOf(c)' = LaneOf(c)
    BY <1>1 DEF LaneOf
  <2>3. \A c : LaneOf(c) \in Lanes
    BY DEF LaneOf, Lanes
  <2>4. ASSUME Sqlite, NEW m \in Lanes
        PROVE  \/ lane'[m].mutex \in {None, lane'[m].slot}
               \/ m = "writer" /\ lane'[m].mutex = "index" /\ index' = "locked"
    <3>1. CASE m = l
      BY <1>1, <2>1, <3>1
    <3>2. CASE m # l
      BY <1>1, <2>1, <2>4, <3>2 DEF LanesInv
    <3> QED
      BY <3>1, <3>2
  <2> QED
    BY <1>1, <2>1, <2>2, <2>3, <2>4 DEF LanesInv, LaneType, Sqlite, Postgres
<1>2. ASSUME NEW l \in Lanes, Lock(l) PROVE LanesInv'
  <2> DEFINE x == lane[l].slot
  <2>1. /\ lane' = [lane EXCEPT ![l].mutex = x] /\ conf' = conf /\ caller' = caller
        /\ late' = late /\ index' = index
    BY <1>2 DEF Lock
  <2>2. x \in Callers \cup {None, "index"} /\ index \in {"idle", "locked", "done"} /\ x = lane[l].slot
    BY <1>0 DEF LaneType, LanesInv
  <2> HIDE DEF x
  <2> QED
    BY <1>1, <2>1, <2>2
<1>3. CASE IndexLock
  <2>1. /\ lane' = [lane EXCEPT !["writer"].mutex = "index"] /\ conf' = conf /\ caller' = caller
        /\ late' = late /\ index' = "locked" /\ Sqlite
    BY <1>3 DEF IndexLock
  <2> QED
    BY <1>0, <1>1, <2>1
<1>4. CASE IndexAppend
  <2>1. /\ lane' = [lane EXCEPT !["writer"].mutex = None] /\ conf' = conf /\ caller' = caller
        /\ late' = late /\ index' = "done"
    BY <1>4 DEF IndexAppend
  <2> QED
    BY <1>0, <1>1, <2>1
<1>5. ASSUME \/ \E n \in DOMAIN pool.idle : IdleDies(n)
             \/ \E r \in Replicas : BootFinder(r) \/ FinderStep(r) \/ StopFinder(r)
      PROVE  LanesInv'
  <2>1. conf' = conf /\ lane' = lane /\ caller' = caller /\ late' = late /\ index' = index
    BY <1>5 DEF IdleDies, BootFinder, FinderStep, StopFinder, Round, MarkForeign,
       Peek, Fetch, Put, MarkOwn
  <2> QED
    BY <2>1 DEF LanesInv, LaneOf, Sqlite, Postgres
<1> QED
  BY <1>2, <1>3, <1>4, <1>5

\* A replica that has begun has a source.
LEMMA FindersStep ==
  ASSUME FindersInv, StoreNext
  PROVE  FindersInv'
<1> DEFINE Steps == {"off", "sleep", "stale", "peek", "fetch", "put", "failed", "gone"}
<1>1. ASSUME NEW r \in Replicas, NEW place \in Steps, NEW first \in BOOLEAN, NEW missed \in BOOLEAN,
             conf' = conf, conf.sources[r] # None,
             finder' = [finder EXCEPT ![r] = [pc |-> place, first |-> first, missed |-> missed]]
      PROVE  FindersInv'
  BY <1>1 DEF FindersInv
<1>2. ASSUME NEW r \in Replicas, BootFinder(r) \/ FinderStep(r) \/ StopFinder(r)
      PROVE  FindersInv'
  <2> DEFINE f == finder[r].first
             m == finder[r].missed
             To == \E place \in Steps, first \in BOOLEAN, missed \in BOOLEAN :
                     finder' = [finder EXCEPT ![r] =
                                  [pc |-> place, first |-> first, missed |-> missed]]
             Turned == \/ \E place \in Steps : Turns(r, place)
                       \/ RoundDone(r)
                       \/ \E ok \in BOOLEAN : MarkForeign(r, ok)
  <2>1. conf' = conf /\ conf.sources[r] # None /\ f \in BOOLEAN /\ m \in BOOLEAN
    BY <1>2 DEF FindersInv, BootFinder, FinderStep, StopFinder, Round, MarkForeign, Peek, Fetch,
       Put, MarkOwn, NotFinder
  <2>2. To
    <3>1. ASSUME NEW place \in Steps, Turns(r, place) PROVE To
      BY <2>1, <3>1 DEF Turns
    <3>2. ASSUME RoundDone(r) PROVE To
      BY <2>1, <3>2 DEF RoundDone
    <3>3. ASSUME NEW ok \in BOOLEAN, MarkForeign(r, ok) PROVE To
      <4>1. FreshForeign(db'.listing, conf.sources[r]) \in BOOLEAN
        BY DEF FreshForeign
      <4>2. finder' = [finder EXCEPT ![r] =
                         [pc |-> "fetch", first |-> f,
                          missed |-> FreshForeign(db'.listing, conf.sources[r])]]
        BY <3>3 DEF MarkForeign
      <4> HIDE DEF f
      <4> QED
        BY <2>1, <4>1, <4>2
    <3>4. Turned
      <4>1. CASE Round(r)
        BY <4>1 DEF Round
      <4>2. ASSUME NEW ok \in BOOLEAN, Fetch(r, ok) PROVE Turned
        BY <4>2 DEF Fetch
      <4>3. CASE ~Round(r) /\ ~\E ok \in BOOLEAN : Fetch(r, ok)
        BY <1>2, <4>3 DEF BootFinder, FinderStep, StopFinder, Peek, Put, MarkOwn
      <4> QED
        BY <4>1, <4>2, <4>3
    <3> QED
      BY <3>1, <3>2, <3>3, <3>4
  <2> QED
    BY <1>1, <2>1, <2>2
<1>3. ASSUME finder' = finder, conf' = conf PROVE FindersInv'
  BY <1>3 DEF FindersInv
<1>4. ASSUME ~ \E r \in Replicas : BootFinder(r) \/ FinderStep(r) \/ StopFinder(r)
      PROVE  finder' = finder /\ conf' = conf
  <2> USE DEF Others, NotLanes
  <2>1. ASSUME NEW c \in Callers, CallerStep(c) PROVE finder' = finder /\ conf' = conf
    BY <2>1 DEF CallerStep, Start, Acquire, Saturated, TakeIdle, Connect, SetUp, ConnectFails, Run,
       QueryFails, RequestTimeout, Checkin, Cancel, LateLands, Dispatch, DispatchSaturated,
       LeaveLane
  <2> QED
    BY <1>4, <2>1 DEF StoreNext, IdleDies, Lock, Execute, IndexLock, IndexAppend
<1> QED
  BY <1>2, <1>3, <1>4

-----------------------------------------------------------------------------
(* The theorems *)

LEMMA StoreInitially ==
  ASSUME StoreInit
  PROVE  StoreInv
<1>1. /\ conf \in Configs /\ db = conf.tables /\ late = {}
      /\ pool = [free |-> conf.size, idle |-> <<>>, live |-> 0, counted |-> 0]
      /\ lane = [l \in Lanes |-> [slot |-> None, mutex |-> None]]
      /\ caller = [c \in Callers |-> NewCaller] /\ index = "idle"
      /\ finder = [r \in Replicas |-> [pc |-> "off", first |-> TRUE, missed |-> FALSE]]
      /\ always = [c \in Callers |-> {}] /\ ever = [c \in Callers |-> {}]
  BY DEF StoreInit
<1>2. conf.size \in Nat /\ Sound(db)
  BY <1>1, ConfParts
<1> DEFINE k == NewCaller
<1>3. /\ DOMAIN k = Fields /\ k.pc = "idle" /\ k.call = "" /\ k.at = "" /\ k.status = ""
      /\ k.seen = <<>> /\ k.cursor = 0 /\ k.todo = {}
  BY DEF NewCaller, Fields
<1> HIDE DEF k
<1>4. ASSUME NEW c, NEW al, NEW ev PROVE Own(c, k, db, al, ev)
  <2>1. Typed(k)
    <3>1. <<>> \in Seq(Ids)
      OBVIOUS
    <3> QED
      BY <1>3, <3>1 DEF Typed
  <2>2. Asked(c, k)
    BY <1>3 DEF Asked, Active, Waiting, Holding
  <2>3. Knows(c, k, db, al, ev) /\ Honest(c, k, db, al, ev)
    BY <1>3 DEF Knows, Honest, Active, Waiting, Holding
  <2> QED
    BY <2>1, <2>2, <2>3 DEF Own
<1>5. CallersInv
  BY <1>1, <1>2, <1>4 DEF CallersInv, k
<1>6. \A c \in Callers : caller[c].pc = "idle"
  BY <1>1, <1>3 DEF k
<1>7. LanesInv
  BY <1>1, <1>6 DEF LanesInv, Holding
<1>8. PoolInv
  <2>1. /\ In(Holding) = {} /\ In({"run"}) = {} /\ In({"connect"} \cup Connected) = {}
        /\ In(Connected) = {}
    BY <1>6 DEF In, Holding, Connected
  <2>2. Held = 0 /\ Running = 0 /\ Opening = 0 /\ Connections = 0
    BY <2>1, FS_EmptySet DEF Held, Running, Opening, Connections
  <2>3. /\ pool.free = conf.size /\ pool.live = 0 /\ pool.counted = 0 /\ pool.idle = <<>>
        /\ pool \in PoolType
    BY <1>1, <1>2 DEF PoolType
  <2>4. Len(pool.idle) = 0
    BY <2>3
  <2> QED
    BY <1>2, <2>2, <2>3, <2>4 DEF PoolInv
<1>9. FindersInv
  BY <1>1 DEF FindersInv
<1> QED
  BY <1>5, <1>7, <1>8, <1>9 DEF StoreInv

LEMMA StoreStep ==
  ASSUME StoreInv, [StoreNext]_storeVars
  PROVE  StoreInv'
<1> USE DEF StoreInv
<1>1. CASE UNCHANGED storeVars
  <2>1. /\ conf' = conf /\ db' = db /\ late' = late /\ pool' = pool /\ lane' = lane
        /\ caller' = caller /\ index' = index /\ finder' = finder /\ always' = always /\ ever' = ever
    BY <1>1 DEF storeVars, sessions
  <2>2. CallersInv'
    BY <2>1, NothingMoves, TablesStep DEF StoresNothing
  <2>3. LanesInv'
    BY <2>1 DEF LanesInv, LaneOf, Sqlite, Postgres
  <2>4. PoolInv'
    BY <2>1 DEF PoolInv, Postgres, Held, Running, Opening, Connections, In
  <2>5. FindersInv'
    BY <2>1 DEF FindersInv
  <2> QED
    BY <2>2, <2>3, <2>4, <2>5
<1>2. CASE StoreNext
  <2>1. FindersInv'
    BY <1>2, FindersStep
  <2>2. ASSUME NEW c \in Callers, CallerStep(c) PROVE CallersInv' /\ LanesInv' /\ PoolInv'
    BY <2>2, CallerKeeps, LanesOfCaller, PoolOfCaller
  <2>3. ASSUME NEW l \in Lanes, NEW ok \in BOOLEAN, Execute(l, ok)
        PROVE  CallersInv' /\ LanesInv' /\ PoolInv'
    BY <2>3, ExecuteKeeps, LanesOfClosure, PoolOfOthers
  <2>4. ASSUME \/ \E n \in DOMAIN pool.idle : IdleDies(n)
               \/ \E l \in Lanes : Lock(l)
               \/ IndexLock \/ IndexAppend
        PROVE  CallersInv' /\ LanesInv' /\ PoolInv'
    BY <2>4, SessionsKeep, LanesOfOthers, PoolOfOthers
  <2>5. ASSUME NEW r \in Replicas, BootFinder(r) \/ FinderStep(r) \/ StopFinder(r)
        PROVE  CallersInv' /\ LanesInv' /\ PoolInv'
    BY <2>5, FinderKeeps, LanesOfOthers, PoolOfOthers
  <2> QED
    BY <1>2, <2>1, <2>2, <2>3, <2>4, <2>5 DEF StoreNext
<1> QED
  BY <1>1, <1>2

\* The callers', the lanes', the pool's and the replicas' parts hold of every state
\* of the management API over the Store.
THEOREM StoreInvariant == StoreSpec => []StoreInv
<1>1. StoreInit => StoreInv
  BY StoreInitially
<1>2. StoreInv /\ [StoreNext]_storeVars => StoreInv'
  BY StoreStep
<1> QED
  BY <1>1, <1>2, PTL DEF StoreSpec

\* Session::drop, OpenedClient::drop and dispatch lose no permit, session or lane,
\* and use none twice, for any number of callers, size of the pool and faults.
THEOREM SessionsAreConserved == StoreSpec => []SessionsConserved
<1>1. StoreInv => SessionsConserved
  <2> SUFFICES ASSUME StoreInv PROVE SessionsConserved
    OBVIOUS
  <2>1. CallersInv /\ LanesInv /\ PoolInv /\ FindersInv
    BY DEF StoreInv
  <2>2. StoreTypeOK
    <3>1. ASSUME NEW c \in Callers
          PROVE  [f \in DOMAIN caller[c] \ {"held", "reply"} |-> caller[c][f]] \in CallerType
      <4> DEFINE k == caller[c]
      <4>1. Typed(k)
        BY <2>1 DEF CallersInv, Own
      <4>2. DOMAIN k \ {"held", "reply"} = {"pc", "call", "at", "seen", "cursor", "todo", "status"}
        BY <4>1 DEF Typed, Fields
      <4> HIDE DEF k
      <4> DEFINE g == [f \in {"pc", "call", "at", "seen", "cursor", "todo", "status"} |-> k[f]]
      <4>3. g = [pc |-> k.pc, call |-> k.call, at |-> k.at, seen |-> k.seen, cursor |-> k.cursor,
                 todo |-> k.todo, status |-> k.status]
        OBVIOUS
      <4>4. g \in CallerType
        BY <4>1, <4>3 DEF Typed, CallerType, Active
      <4> QED
        BY <4>2, <4>4 DEF k
    <3>2. conf \in Configs /\ db \in Tables /\ late \subseteq Callers
      BY <2>1 DEF CallersInv, Sound
    <3> QED
      BY <2>1, <3>1, <3>2 DEF StoreTypeOK, LanesInv, PoolInv, FindersInv
  <2>3. Postgres => /\ pool.free + Cardinality(In(Holding)) = conf.size
                    /\ pool.live = Cardinality(In({"run"}))
                    /\ Len(pool.idle) + Cardinality(In({"connect"} \cup Connected)) <= conf.size
                    /\ pool.counted >= Len(pool.idle) + Cardinality(In(Connected))
    BY <2>1 DEF PoolInv, Held, Running, Opening, Connections
  <2>4. Sqlite => /\ \A c \in In({"dispatched"}) : lane[LaneOf(c)].slot = c
                  /\ \A l \in Lanes :
                       \/ lane[l].mutex \in {None, lane[l].slot}
                       \/ l = "writer" /\ lane[l].mutex = "index" /\ index = "locked"
    BY <2>1 DEF LanesInv, In
  <2> QED
    BY <2>2, <2>3, <2>4 DEF SessionsConserved
<1> QED
  BY <1>1, StoreInvariant, PTL

\* Every answer is true of some moment of its request, for any tables, requests
\* and callers, however their statements interleave, fail or land late.
THEOREM AnswersAreHonest == StoreSpec => []AnswersHonest
<1>1. StoreInv => AnswersHonest
  <2> SUFFICES ASSUME StoreInv PROVE AnswersHonest
    OBVIOUS
  <2>1. CallersInv
    BY DEF StoreInv
  <2>2. NothingLeft(db)
    BY <2>1 DEF CallersInv, Sound
  <2>3. \A c \in Callers : Honest(c, caller[c], db, always[c], ever[c])
    BY <2>1 DEF CallersInv, Own
  <2> QED
    BY <2>2, <2>3 DEF AnswersHonest, Honest
<1> QED
  BY <1>1, StoreInvariant, PTL
=============================================================================
