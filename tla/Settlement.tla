----------------------------- MODULE Settlement -----------------------------
(***************************************************************************)
(* The process's settlement capacity (crates/gateway/src/settlement.rs).   *)
(*                                                                         *)
(* A request takes one unit of capacity when it is admitted (try_reserve), *)
(* and hands it to the one detached task that settles it (spawn).  The     *)
(* task waits for an execution slot, runs its future, and a guard returns  *)
(* everything on Drop, however the task ends.  Shutdown waits for the      *)
(* spawned tasks (await_idle).                                             *)
(*                                                                         *)
(* The counters are separate atomics, updated one at a time by threads     *)
(* that run concurrently, so each fetch_add / fetch_sub is an action of    *)
(* its own: pc[w] is the place of settlement w in that code.               *)
(***************************************************************************)
EXTENDS Naturals, Sequences, FiniteSets, SequencesExt

CONSTANTS
  Work,            \* the settlements: one reservation, and the task it becomes
  MaxPending,      \* max_pending_settlements, 0 is "off" (no semaphore)
  MaxInFlight,     \* max_in_flight_settlements, 0 is "off"
  HasQueueWait,    \* settlement_queue_wait_ms > 0
  HasDeadline      \* settlement_timeout_ms > 0

ASSUME SettlementAssumption ==
  /\ IsFiniteSet(Work)
  /\ MaxPending \in Nat
  /\ MaxInFlight \in Nat
  /\ HasQueueWait \in BOOLEAN
  /\ HasDeadline \in BOOLEAN

VARIABLES
  pc,              \* where each settlement is in the code
  stage,           \* Guard::stage
  outcome,         \* Guard::outcome, "None" until set
  failureRecorded, \* Guard::failure_recorded
  seq,             \* Guard::sequence
  reported,        \* the axond.settlement.failures increments of each settlement
  pending,         \* free permits of Shared::pending
  executing,       \* free permits of Shared::executing
  waiters,         \* tasks parked on Shared::executing, in FIFO order
  reserved, queued, running, spawned,  \* Shared's stage counters
  backlog,         \* the keys of Shared::backlog
  sequence,        \* Shared::sequence
  finished,        \* version of the Shared::finished watch channel
  waiter,          \* where the shutdown path is in await_idle
  seen,            \* the version its receiver has seen
  report,          \* Backlog::spawned as await_idle returned it
  before,          \* history: settlements tracked when await_idle subscribed
  runtime          \* "up" until the process's runtime is dropped

guardVars == <<stage, outcome, failureRecorded, seq, reported>>
semaphores == <<pending, executing, waiters>>
counters == <<reserved, queued, running, spawned>>
tracking == <<backlog, sequence, finished>>
idleVars == <<waiter, seen, report, before>>
vars == <<pc, guardVars, semaphores, counters, tracking, idleVars, runtime>>

(***************************************************************************)
(* The places of the code.  A reservation is "permitted" between its       *)
(* try_acquire and its count, and "returning" between its count and its    *)
(* permit.  Guard::enqueue runs from "consumed" to "spawned",              *)
(* start_executing from "granted" to "executing", and Drop for Guard from  *)
(* "dropping" to "ended".                                                  *)
(***************************************************************************)
Places == {"free", "shed", "permitted", "reserved", "returning",
           "consumed", "drawn", "listed", "counted", "spawned", "waiting",
           "granted", "cutover", "executing", "overdue", "exiting",
           "dropping", "left", "uncounted", "unlisted", "announced", "ended"}

Outcomes == {"Completed", "QueueTimeout", "ExecutionTimeout", "Panicked",
             "Cancelled"}

At(w, p, q) == pc[w] = p /\ pc' = [pc EXCEPT ![w] = q]

TypeOK ==
  /\ pc \in [Work -> Places]
  /\ stage \in [Work -> {"Queued", "Executing"}]
  /\ outcome \in [Work -> Outcomes \cup {"None"}]
  /\ failureRecorded \in [Work -> BOOLEAN]
  /\ seq \in [Work -> Nat]
  /\ reported \in [Work -> Seq(Outcomes)]
  /\ pending \in Nat /\ executing \in Nat /\ waiters \in Seq(Work)
  /\ reserved \in Nat /\ queued \in Nat /\ running \in Nat /\ spawned \in Nat
  /\ backlog \in SUBSET Nat /\ sequence \in Nat /\ finished \in Nat
  /\ waiter \in {"off", "checking", "parked", "returning", "done"}
  /\ seen \in Nat /\ report \in Nat /\ before \in SUBSET Work
  /\ runtime \in {"up", "down"}

Init ==
  /\ pc = [w \in Work |-> "free"]
  /\ stage = [w \in Work |-> "Queued"]
  /\ outcome = [w \in Work |-> "None"]
  /\ failureRecorded = [w \in Work |-> FALSE]
  /\ seq = [w \in Work |-> 0]
  /\ reported = [w \in Work |-> <<>>]
  /\ pending = MaxPending /\ executing = MaxInFlight /\ waiters = <<>>
  /\ reserved = 0 /\ queued = 0 /\ running = 0 /\ spawned = 0
  /\ backlog = {} /\ sequence = 0 /\ finished = 0
  /\ waiter = "off" /\ seen = 0 /\ report = 0 /\ before = {}
  /\ runtime = "up"

-----------------------------------------------------------------------------
(* Reservation *)

\* try_reserve: the permit is taken first ...
TakePermit(w) ==
  /\ At(w, "free", "permitted")
  /\ MaxPending # 0 => pending > 0
  /\ pending' = IF MaxPending = 0 THEN pending ELSE pending - 1
  /\ UNCHANGED <<guardVars, executing, waiters, counters, tracking, idleVars, runtime>>

\* ... then counted.
CountReserved(w) ==
  /\ At(w, "permitted", "reserved")
  /\ reserved' = reserved + 1
  /\ UNCHANGED <<guardVars, semaphores, queued, running, spawned, tracking, idleVars, runtime>>

\* reserve at capacity sheds the request; try_spawn hands its future back.
RefuseReserve(w) ==
  /\ MaxPending # 0 /\ pending = 0
  /\ At(w, "free", "shed")
  /\ UNCHANGED <<guardVars, semaphores, counters, tracking, idleVars, runtime>>

\* Drop for SettlementReservation that was never spawned.  spawn outside a
\* runtime drops its reservation the same way.
DropReservation(w) ==
  /\ At(w, "reserved", "returning")
  /\ reserved' = reserved - 1
  /\ UNCHANGED <<guardVars, semaphores, queued, running, spawned, tracking, idleVars, runtime>>

ReleasePermit(w) == pending' = IF MaxPending = 0 THEN pending ELSE pending + 1

ReturnPermit(w) ==
  /\ At(w, "returning", "ended")
  /\ ReleasePermit(w)
  /\ UNCHANGED <<guardVars, executing, waiters, counters, tracking, idleVars, runtime>>

-----------------------------------------------------------------------------
(* spawn: Guard::enqueue, then the task *)

\* Mutant: the permit drops with the reservation instead of moving to the guard.
BugConsume(w) ==
  /\ runtime = "up"
  /\ At(w, "reserved", "consumed")
  /\ reserved' = reserved - 1
  /\ pending' = pending + 1
  /\ UNCHANGED <<guardVars, executing, waiters, queued, running, spawned, tracking, idleVars, runtime>>

\* SettlementReservation::consume: the permit moves to the guard.
Consume(w) ==
  /\ runtime = "up"
  /\ At(w, "reserved", "consumed")
  /\ reserved' = reserved - 1
  /\ UNCHANGED <<guardVars, semaphores, queued, running, spawned, tracking, idleVars, runtime>>

\* The sequence number is drawn ...
Draw(w) ==
  /\ At(w, "consumed", "drawn")
  /\ sequence' = sequence + 1
  /\ seq' = [seq EXCEPT ![w] = sequence]
  /\ UNCHANGED <<stage, outcome, failureRecorded, reported, semaphores, counters,
                 backlog, finished, idleVars, runtime>>

\* ... and the backlog entry inserted under its lock.
List(w) ==
  /\ At(w, "drawn", "listed")
  /\ backlog' = backlog \cup {seq[w]}
  /\ UNCHANGED <<guardVars, semaphores, counters, sequence, finished, idleVars, runtime>>

CountQueued(w) ==
  /\ At(w, "listed", "counted")
  /\ queued' = queued + 1
  /\ UNCHANGED <<guardVars, semaphores, reserved, running, spawned, tracking, idleVars, runtime>>

CountSpawned(w) ==
  /\ At(w, "counted", "spawned")
  /\ spawned' = spawned + 1
  /\ UNCHANGED <<guardVars, semaphores, reserved, queued, running, tracking, idleVars, runtime>>

\* The task's first poll of acquire_execution_slot: with max_in_flight off
\* there is nothing to wait for, otherwise the task joins the FIFO queue.
PollSlot(w) ==
  /\ runtime = "up"
  /\ At(w, "spawned", IF MaxInFlight = 0 THEN "granted" ELSE "waiting")
  /\ waiters' = IF MaxInFlight = 0 THEN waiters ELSE Append(waiters, w)
  /\ UNCHANGED <<guardVars, pending, executing, counters, tracking, idleVars, runtime>>

\* The semaphore hands its free permits to the longest waiting tasks.
Assigned(i) == i <= executing

AcquireSlot(w) ==
  /\ runtime = "up"
  /\ At(w, "waiting", "granted")
  /\ \E i \in 1..Len(waiters) :
        /\ waiters[i] = w /\ Assigned(i)
        /\ waiters' = RemoveAt(waiters, i)
  /\ executing' = executing - 1
  /\ UNCHANGED <<guardVars, pending, counters, tracking, idleVars, runtime>>

\* The queue wait expires.  timeout polls the acquire first, so a task whose
\* permit is assigned is not timed out.  The future is never started.
QueueTimeout(w) ==
  /\ runtime = "up" /\ HasQueueWait
  /\ At(w, "waiting", "dropping")
  /\ \E i \in 1..Len(waiters) :
        /\ waiters[i] = w /\ ~Assigned(i)
        /\ waiters' = RemoveAt(waiters, i)
  /\ outcome' = [outcome EXCEPT ![w] = "QueueTimeout"]
  /\ UNCHANGED <<stage, failureRecorded, seq, reported, pending, executing, counters,
                 tracking, idleVars, runtime>>

\* start_executing decrements queued ...
LeaveQueue(w) ==
  /\ At(w, "granted", "cutover")
  /\ queued' = queued - 1
  /\ UNCHANGED <<guardVars, semaphores, reserved, running, spawned, tracking, idleVars, runtime>>

\* ... and only then increments running.
StartRunning(w) ==
  /\ At(w, "cutover", "executing")
  /\ running' = running + 1
  /\ stage' = [stage EXCEPT ![w] = "Executing"]
  /\ UNCHANGED <<outcome, failureRecorded, seq, reported, semaphores, reserved, queued,
                 spawned, tracking, idleVars, runtime>>

\* The future ends within its deadline, by returning or by panicking.
FutureEnds(w) ==
  /\ runtime = "up"
  /\ At(w, "executing", "exiting")
  /\ \E o \in {"Completed", "Panicked"} : outcome' = [outcome EXCEPT ![w] = o]
  /\ UNCHANGED <<stage, failureRecorded, seq, reported, semaphores, counters, tracking,
                 idleVars, runtime>>

\* note_execution_timeout: the miss is reported at once, the future and the
\* slot are kept.
MissDeadline(w) ==
  /\ runtime = "up" /\ HasDeadline
  /\ At(w, "executing", "overdue")
  /\ outcome' = [outcome EXCEPT ![w] = "ExecutionTimeout"]
  /\ reported' = [reported EXCEPT ![w] =
                    IF failureRecorded[w] THEN @ ELSE Append(@, "ExecutionTimeout")]
  /\ failureRecorded' = [failureRecorded EXCEPT ![w] = TRUE]
  /\ UNCHANGED <<stage, seq, semaphores, counters, tracking, idleVars, runtime>>

\* Mutant: the late result replaces the outcome.
BugLateEnd(w) ==
  /\ runtime = "up"
  /\ At(w, "overdue", "exiting")
  /\ outcome' = [outcome EXCEPT ![w] = "Panicked"]
  /\ UNCHANGED <<stage, failureRecorded, seq, reported, semaphores, counters, tracking,
                 idleVars, runtime>>

\* The overdue future ends; whether it returned or panicked, the outcome the
\* guard already has stands.
LateEnd(w) ==
  /\ runtime = "up"
  /\ At(w, "overdue", "exiting")
  /\ UNCHANGED <<guardVars, semaphores, counters, tracking, idleVars, runtime>>

\* The runtime is dropped under a parked or running task: its future, then
\* its slot, then its guard are dropped.
AbortWaiting(w) ==
  /\ runtime = "down"
  /\ \/ At(w, "spawned", "dropping") /\ UNCHANGED waiters
     \/ /\ At(w, "waiting", "dropping")
        /\ \E i \in 1..Len(waiters) :
              waiters[i] = w /\ waiters' = RemoveAt(waiters, i)
  /\ UNCHANGED <<guardVars, pending, executing, counters, tracking, idleVars, runtime>>

AbortRunning(w) ==
  /\ runtime = "down"
  /\ \/ At(w, "executing", "exiting")
     \/ At(w, "overdue", "exiting")
  /\ UNCHANGED <<guardVars, semaphores, counters, tracking, idleVars, runtime>>

\* The execution slot is declared after the guard, so it is dropped first.
DropSlot(w) ==
  /\ At(w, "exiting", "dropping")
  /\ executing' = IF MaxInFlight = 0 THEN executing ELSE executing + 1
  /\ UNCHANGED <<guardVars, pending, waiters, counters, tracking, idleVars, runtime>>

-----------------------------------------------------------------------------
(* Drop for Guard *)

LeaveStage(w) ==
  /\ At(w, "dropping", "left")
  /\ IF stage[w] = "Queued"
     THEN queued' = queued - 1 /\ UNCHANGED running
     ELSE running' = running - 1 /\ UNCHANGED queued
  /\ UNCHANGED <<guardVars, semaphores, reserved, spawned, tracking, idleVars, runtime>>

UncountSpawned(w) ==
  /\ At(w, "left", "uncounted")
  /\ spawned' = spawned - 1
  /\ UNCHANGED <<guardVars, semaphores, reserved, queued, running, tracking, idleVars, runtime>>

\* Outcome::failure_reason of the guard's outcome; a guard without one was
\* dropped by an abort.
FinalOutcome(w) == IF outcome[w] = "None" THEN "Cancelled" ELSE outcome[w]

\* Mutant: Drop returns early, before the announcement, unless it failed.
BugUnlist(w) ==
  /\ At(w, "uncounted", IF FinalOutcome(w) = "Completed" THEN "announced" ELSE "unlisted")
  /\ backlog' = backlog \ {seq[w]}
  /\ reported' = [reported EXCEPT ![w] =
                    IF FinalOutcome(w) # "Completed" /\ ~failureRecorded[w]
                    THEN Append(@, FinalOutcome(w)) ELSE @]
  /\ UNCHANGED <<stage, outcome, failureRecorded, seq, semaphores, counters, sequence,
                 finished, idleVars, runtime>>

Unlist(w) ==
  /\ At(w, "uncounted", "unlisted")
  /\ backlog' = backlog \ {seq[w]}
  /\ reported' = [reported EXCEPT ![w] =
                    IF FinalOutcome(w) # "Completed" /\ ~failureRecorded[w]
                    THEN Append(@, FinalOutcome(w)) ELSE @]
  /\ UNCHANGED <<stage, outcome, failureRecorded, seq, semaphores, counters, sequence,
                 finished, idleVars, runtime>>

Announce(w) ==
  /\ At(w, "unlisted", "announced")
  /\ finished' = finished + 1
  /\ UNCHANGED <<guardVars, semaphores, counters, backlog, sequence, idleVars, runtime>>

\* The permit is a field of the guard: it drops after Drop::drop returns.
DropPermit(w) ==
  /\ At(w, "announced", "ended")
  /\ ReleasePermit(w)
  /\ UNCHANGED <<guardVars, executing, waiters, counters, tracking, idleVars, runtime>>

-----------------------------------------------------------------------------
(* await_idle, called once on the shutdown path *)

\* The settlements whose spawn has completed and whose guard has not finished
\* being counted: what the spawned counter counts.
TrackedPlaces == {"spawned", "waiting", "granted", "cutover", "executing",
                  "overdue", "exiting", "dropping", "left"}
Tracked == {w \in Work : pc[w] \in TrackedPlaces}

Subscribe ==
  /\ waiter = "off" /\ waiter' = "checking"
  /\ seen' = finished
  /\ before' = Tracked
  /\ UNCHANGED <<pc, guardVars, semaphores, counters, tracking, report, runtime>>

\* The loop's condition: Settlements::unsettled is the spawned counter.
Check ==
  /\ waiter = "checking"
  /\ waiter' = IF spawned = 0 THEN "returning" ELSE "parked"
  /\ UNCHANGED <<pc, guardVars, semaphores, counters, tracking, seen, report, before, runtime>>

\* finished.changed(): returns once the channel holds an unseen version.
Wake ==
  /\ waiter = "parked" /\ seen # finished
  /\ waiter' = "checking"
  /\ seen' = finished
  /\ UNCHANGED <<pc, guardVars, semaphores, counters, tracking, report, before, runtime>>

\* The caller's bound runs out.
WaitTimeout ==
  /\ waiter = "parked"
  /\ waiter' = "returning"
  /\ UNCHANGED <<pc, guardVars, semaphores, counters, tracking, seen, report, before, runtime>>

\* backlog(): what main reports as unsettled.
Report ==
  /\ waiter = "returning" /\ waiter' = "done"
  /\ report' = spawned
  /\ UNCHANGED <<pc, guardVars, semaphores, counters, tracking, seen, before, runtime>>

\* main returns after the flushes and the runtime is dropped.
Teardown ==
  /\ waiter = "done" /\ runtime = "up"
  /\ runtime' = "down"
  /\ UNCHANGED <<pc, guardVars, semaphores, counters, tracking, idleVars>>

-----------------------------------------------------------------------------

Reservation(w) ==
  \/ TakePermit(w) \/ CountReserved(w) \/ RefuseReserve(w)
  \/ DropReservation(w) \/ ReturnPermit(w)

Enqueue(w) == Consume(w) \/ Draw(w) \/ List(w) \/ CountQueued(w) \/ CountSpawned(w)

Task(w) ==
  \/ PollSlot(w) \/ AcquireSlot(w) \/ QueueTimeout(w)
  \/ LeaveQueue(w) \/ StartRunning(w)
  \/ FutureEnds(w) \/ MissDeadline(w) \/ LateEnd(w)
  \/ AbortWaiting(w) \/ AbortRunning(w) \/ DropSlot(w)

GuardDrop(w) ==
  LeaveStage(w) \/ UncountSpawned(w) \/ Unlist(w) \/ Announce(w) \/ DropPermit(w)

AwaitIdle == Subscribe \/ Check \/ Wake \/ WaitTimeout \/ Report

\* Everything has ended and the process exits.
Exited ==
  /\ runtime = "down" /\ \A w \in Work : pc[w] \in {"free", "shed", "ended"}
  /\ UNCHANGED vars

Next ==
  \/ \E w \in Work : Reservation(w) \/ Enqueue(w) \/ Task(w) \/ GuardDrop(w)
  \/ AwaitIdle \/ Teardown \/ Exited

Spec == Init /\ [][Next]_vars

-----------------------------------------------------------------------------
(* Properties *)

\* The settlements that own a permit of the pending semaphore: from try_acquire
\* until the reservation's or the guard's field drops.
PermitPlaces == Places \ {"free", "shed", "ended"}
Permitted == {w \in Work : pc[w] \in PermitPlaces}

\* The settlements that own an execution slot.
SlotPlaces == {"granted", "cutover", "executing", "overdue", "exiting"}
Slotted == {w \in Work : pc[w] \in SlotPlaces}

\* The settlements between the increment and the decrement of each counter.
InReserved == {w \in Work : pc[w] = "reserved"}
InQueued == {w \in Work : \/ pc[w] \in {"counted", "spawned", "waiting", "granted"}
                          \/ pc[w] = "dropping" /\ stage[w] = "Queued"}
InRunning == {w \in Work : \/ pc[w] \in {"executing", "overdue", "exiting"}
                           \/ pc[w] = "dropping" /\ stage[w] = "Executing"}

\* Capacity is returned exactly once on every exit (settlement.rs:31): the free
\* permits and the settlements that own one always add up to max_pending, so
\* the process never carries more than max_pending settlements, in any stage.
CapacityConserved ==
  MaxPending # 0 => pending + Cardinality(Permitted) = MaxPending

\* At most max_in_flight futures run against the Store, those that missed
\* their deadline and are still running included (settlement.rs:24): a late
\* charge cannot outrun the bound.
SlotsConserved ==
  MaxInFlight # 0 => executing + Cardinality(Slotted) = MaxInFlight

\* Every counter equals the number of settlements between its increment and
\* its decrement, whatever the interleaving and however each task ended.
CountersExact ==
  /\ reserved = Cardinality(InReserved)
  /\ queued = Cardinality(InQueued)
  /\ running = Cardinality(InRunning)
  /\ spawned = Cardinality(Tracked)

\* What a settlement holds, over every way it can end: its permit, its slot and
\* its place in the counters, each returned once and none kept.
Conserved == CapacityConserved /\ SlotsConserved /\ CountersExact

\* What shutdown reports as settled is settled: when await_idle returns a zero
\* count, timed out or not, every settlement that was tracked when it was
\* called has finished (settlement.rs:356).
QuietReport == waiter = "done" /\ report = 0 => before \cap Tracked = {}

\* The wake-up await_idle sleeps on is never lost (settlement.rs:138): if the
\* last tracked settlement is gone and no guard is still about to announce,
\* a parked waiter has an unseen version and returns.
NoLostWakeup ==
  waiter = "parked" /\ Tracked = {}
    => \/ seen # finished
       \/ \E w \in Work : pc[w] \in {"uncounted", "unlisted"}

\* await_idle, against the guards that drop while it subscribes, checks and
\* sleeps: it neither sleeps through the last end nor reports it too early.
AwaitsTheLast == QuietReport /\ NoLostWakeup

ListedPlaces == TrackedPlaces \cup {"listed", "counted", "uncounted"}
Listed == {w \in Work : pc[w] \in ListedPlaces}

\* What the metrics say of a settlement.  The backlog, which oldest_age reads,
\* holds one entry per listed settlement and two never share a key, so no guard
\* removes another's entry; a settlement that did not complete is counted once,
\* under the reason it first failed with, and one that completed is not
\* (settlement.rs:269).
ReportsExact ==
  /\ backlog = {seq[w] : w \in Listed}
  /\ \A v, w \in Listed : seq[v] = seq[w] => v = w
  /\ \A w \in Work :
       /\ Len(reported[w]) <= 1
       /\ pc[w] \in {"unlisted", "announced"} =>
            reported[w] = IF FinalOutcome(w) = "Completed" THEN <<>> ELSE <<FinalOutcome(w)>>
=============================================================================
