----------------------------- MODULE Admission -----------------------------
(***************************************************************************)
(* The process's admission gate (admission.rs): a ceiling per tenant, a    *)
(* global ceiling with a bounded queue behind it, a ceiling on streams.    *)
(*                                                                         *)
(* A permit is built ceiling by ceiling and gives back what it holds from  *)
(* Drop, so a request that is refused, times out in the queue, or loses    *)
(* its caller while it waits leaves by the same way as one that is served. *)
(* Every action is one operation on shared state: the tenant table under   *)
(* its mutex, one semaphore, or the atomic queue depth.                    *)
(*                                                                         *)
(* The global semaphore is tokio's (external): its waiters queue in FIFO   *)
(* order and a returned permit is assigned to the first of them.           *)
(***************************************************************************)
EXTENDS Naturals, Sequences, FiniteSets, SequencesExt

CONSTANTS
  Requests,   \* connections, each of which sends one request after another
  Tenants,
  Limits      \* the limits the process may be configured with

\* As in AdmissionConfig, a bound of zero turns that ceiling off.
LimitType == [max_in_flight : Nat, max_in_flight_streams : Nat,
              max_in_flight_per_tenant : Nat, max_tenants : Nat, queue_capacity : Nat]

ASSUME AdmissionAssumption ==
  /\ IsFiniteSet(Requests) /\ IsFiniteSet(Tenants)
  /\ Limits \subseteq LimitType

VARIABLES
  limits,    \* AdmissionLimits, fixed at boot
  pc,        \* where the request is in admit
  tenant,    \* its namespace
  kind,      \* its RequestKind
  holds,     \* the fields of its AdmissionPermit that are Some
  active,    \* TenantTable::active, the tenants without an entry at zero
  free,      \* permits of the global semaphore
  waiters,   \* ... and its queue
  assigned,  \* ... the waiters given a permit they have not picked up
  streams,   \* permits of the stream semaphore
  slots,     \* permits of the queue's semaphore
  current    \* QueueState::current

table == <<limits, tenant, kind>>
semaphore == <<free, waiters, assigned>>
queue == <<slots, current>>
vars == <<table, pc, holds, active, semaphore, streams, queue>>

Points == {"idle", "acquire", "full", "slotted", "counted", "waiting", "leaving",
           "uncounted", "stream", "admitted", "dropping"}
Kinds == {"Buffered", "Streamed"}
Resources == {"global", "stream", "tenant"}

TypeOK ==
  /\ limits \in Limits
  /\ pc \in [Requests -> Points]
  /\ tenant \in [Requests -> Tenants]
  /\ kind \in [Requests -> Kinds]
  /\ holds \in [Requests -> SUBSET Resources]
  /\ active \in [Tenants -> Nat]
  /\ free \in Nat /\ streams \in Nat /\ slots \in Nat /\ current \in Nat
  /\ waiters \in Seq(Requests)
  /\ assigned \subseteq Requests

Init ==
  /\ limits \in Limits
  /\ pc = [r \in Requests |-> "idle"]
  /\ tenant \in [Requests -> Tenants]
  /\ kind \in [Requests -> Kinds]
  /\ holds = [r \in Requests |-> {}]
  /\ active = [t \in Tenants |-> 0]
  /\ free = limits.max_in_flight
  /\ waiters = <<>> /\ assigned = {}
  /\ streams = limits.max_in_flight_streams
  /\ slots = limits.queue_capacity
  /\ current = 0

-----------------------------------------------------------------------------

Goto(r, p, q) == pc[r] = p /\ pc' = [pc EXCEPT ![r] = q]

Take(r, x) == holds' = [holds EXCEPT ![r] = @ \cup {x}]
Drop(r, x) == x \in holds[r] /\ holds' = [holds EXCEPT ![r] = @ \ {x}]

\* Mutant: a returned permit goes back to the pool past those that wait.
BugRelease(rest) == free' = free + 1 /\ waiters' = rest /\ UNCHANGED assigned

\* The global semaphore takes a permit back while rest wait for one.
Release(rest) ==
  IF rest = <<>>
  THEN free' = free + 1 /\ waiters' = rest /\ UNCHANGED assigned
  ELSE /\ waiters' = Tail(rest) /\ assigned' = assigned \cup {Head(rest)}
       /\ UNCHANGED free

-----------------------------------------------------------------------------
(* TenantTable::reserve *)

Entries == {t \in Tenants : active[t] > 0}

TenantFull(t) ==
  \/ active[t] = 0 /\ Cardinality(Entries) >= limits.max_tenants
  \/ active[t] >= limits.max_in_flight_per_tenant

Reserve(r) ==
  /\ LET t == tenant[r] IN
     IF limits.max_in_flight_per_tenant = 0
     THEN UNCHANGED <<holds, active>>
     ELSE /\ ~TenantFull(t)
          /\ active' = [active EXCEPT ![t] = @ + 1] /\ Take(r, "tenant")
  /\ Goto(r, "idle", IF limits.max_in_flight > 0 THEN "acquire" ELSE "stream")
  /\ UNCHANGED <<table, semaphore, streams, queue>>

\* Refused at the tenant gate: nothing is held.  The connection's next request
\* may be another tenant's, and of another kind.
RefuseTenant(r, t, k) ==
  /\ limits.max_in_flight_per_tenant > 0 /\ TenantFull(tenant[r])
  /\ Goto(r, "idle", "idle")
  /\ tenant' = [tenant EXCEPT ![r] = t] /\ kind' = [kind EXCEPT ![r] = k]
  /\ UNCHANGED <<limits, holds, active, semaphore, streams, queue>>

-----------------------------------------------------------------------------
(* acquire_global *)

TryGlobal(r) ==
  /\ free > 0 /\ free' = free - 1 /\ Take(r, "global")
  /\ Goto(r, "acquire", "stream")
  /\ UNCHANGED <<table, active, waiters, assigned, streams, queue>>

\* No permit: on to the queue, or shed when there is none.
GlobalFull(r) ==
  /\ free = 0
  /\ Goto(r, "acquire", IF limits.queue_capacity > 0 THEN "full" ELSE "dropping")
  /\ UNCHANGED <<table, holds, active, semaphore, streams, queue>>

\* QueueState::try_acquire: the slot, then the depth.
TakeQueueSlot(r) ==
  /\ slots > 0 /\ slots' = slots - 1
  /\ Goto(r, "full", "slotted")
  /\ UNCHANGED <<table, holds, active, semaphore, streams, current>>

QueueFull(r) ==
  /\ slots = 0 /\ Goto(r, "full", "dropping")
  /\ UNCHANGED <<table, holds, active, semaphore, streams, queue>>

CountQueued(r) ==
  /\ Goto(r, "slotted", "counted") /\ current' = current + 1
  /\ UNCHANGED <<table, holds, active, semaphore, streams, slots>>

\* The first poll of acquire_owned.
Enqueue(r) ==
  /\ IF free > 0
     THEN /\ free' = free - 1 /\ Take(r, "global")
          /\ Goto(r, "counted", "leaving") /\ UNCHANGED waiters
     ELSE /\ waiters' = Append(waiters, r)
          /\ Goto(r, "counted", "waiting") /\ UNCHANGED <<free, holds>>
  /\ UNCHANGED <<table, active, assigned, streams, queue>>

PickUp(r) ==
  /\ r \in assigned /\ assigned' = assigned \ {r} /\ Take(r, "global")
  /\ Goto(r, "waiting", "leaving")
  /\ UNCHANGED <<table, active, free, waiters, streams, queue>>

\* A waiter gives up its place in the semaphore's queue.
Withdraw(r) ==
  \E i \in 1..Len(waiters) : waiters[i] = r /\ waiters' = RemoveAt(waiters, i)

\* The queue wait expires.  timeout polls the semaphore before its timer, so a
\* permit already assigned is picked up instead.
QueueTimeout(r) ==
  /\ r \notin assigned /\ Goto(r, "waiting", "leaving") /\ Withdraw(r)
  /\ UNCHANGED <<table, holds, active, free, assigned, streams, queue>>

\* Mutant: the future dropped with a permit assigned to it loses the permit.
BugCancel(r) ==
  /\ Goto(r, "waiting", "leaving")
  /\ assigned' = assigned \ {r} /\ UNCHANGED free
  /\ IF r \in assigned THEN UNCHANGED waiters ELSE Withdraw(r)
  /\ UNCHANGED <<table, holds, active, streams, queue>>

\* The caller is gone: the future is dropped while it waits.  A permit already
\* assigned to it goes to the next waiter.
Cancel(r) ==
  /\ Goto(r, "waiting", "leaving")
  /\ IF r \in assigned
     THEN IF waiters = <<>>
          THEN free' = free + 1 /\ assigned' = assigned \ {r} /\ UNCHANGED waiters
          ELSE /\ assigned' = (assigned \ {r}) \cup {Head(waiters)}
               /\ waiters' = Tail(waiters) /\ UNCHANGED free
     ELSE Withdraw(r) /\ UNCHANGED <<free, assigned>>
  /\ UNCHANGED <<table, holds, active, streams, queue>>

\* Drop for QueuedRequest: the depth, and then the fields, the slot among them.
Uncount(r) ==
  /\ Goto(r, "leaving", "uncounted") /\ current' = current - 1
  /\ UNCHANGED <<table, holds, active, semaphore, streams, slots>>

ReturnQueueSlot(r) ==
  /\ slots' = slots + 1
  /\ Goto(r, "uncounted", IF "global" \in holds[r] THEN "stream" ELSE "dropping")
  /\ UNCHANGED <<table, holds, active, semaphore, streams, current>>

-----------------------------------------------------------------------------
(* The stream gate, and Drop for AdmissionPermit *)

Bounded(r) == kind[r] = "Streamed" /\ limits.max_in_flight_streams > 0

Admit(r) ==
  /\ ~Bounded(r) /\ Goto(r, "stream", "admitted")
  /\ UNCHANGED <<table, holds, active, semaphore, streams, queue>>

TakeStream(r) ==
  /\ Bounded(r) /\ streams > 0 /\ streams' = streams - 1 /\ Take(r, "stream")
  /\ Goto(r, "stream", "admitted")
  /\ UNCHANGED <<table, active, semaphore, queue>>

RefuseStream(r) ==
  /\ Bounded(r) /\ streams = 0 /\ Goto(r, "stream", "dropping")
  /\ UNCHANGED <<table, holds, active, semaphore, streams, queue>>

\* The response is over, or its body is dropped.
Finish(r) ==
  /\ Goto(r, "admitted", "dropping")
  /\ UNCHANGED <<table, holds, active, semaphore, streams, queue>>

DropGlobal(r) ==
  /\ pc[r] = "dropping" /\ Drop(r, "global")
  /\ Release(waiters)
  /\ UNCHANGED <<table, pc, active, streams, queue>>

DropStream(r) ==
  /\ pc[r] = "dropping" /\ "global" \notin holds[r] /\ Drop(r, "stream")
  /\ streams' = streams + 1
  /\ UNCHANGED <<table, pc, active, semaphore, queue>>

\* Mutant: the tenant's entry is dropped with its first slot.
BugDropTenant(r) ==
  /\ pc[r] = "dropping" /\ holds[r] = {"tenant"} /\ Drop(r, "tenant")
  /\ active' = [active EXCEPT ![tenant[r]] = 0]
  /\ UNCHANGED <<table, pc, semaphore, streams, queue>>

\* TenantTable::release
DropTenant(r) ==
  /\ pc[r] = "dropping" /\ holds[r] = {"tenant"} /\ Drop(r, "tenant")
  /\ active' = [active EXCEPT ![tenant[r]] = IF @ = 0 THEN 0 ELSE @ - 1]
  /\ UNCHANGED <<table, pc, semaphore, streams, queue>>

\* The connection's next request.
Again(r, t, k) ==
  /\ holds[r] = {} /\ Goto(r, "dropping", "idle")
  /\ tenant' = [tenant EXCEPT ![r] = t] /\ kind' = [kind EXCEPT ![r] = k]
  /\ UNCHANGED <<limits, holds, active, semaphore, streams, queue>>

-----------------------------------------------------------------------------

\* What the runtime does of itself, and what a response does: end.
Run(r) ==
  \/ TryGlobal(r) \/ GlobalFull(r) \/ TakeQueueSlot(r) \/ QueueFull(r) \/ CountQueued(r)
  \/ Enqueue(r) \/ PickUp(r) \/ Uncount(r) \/ ReturnQueueSlot(r)
  \/ Admit(r) \/ TakeStream(r) \/ RefuseStream(r)
  \/ Finish(r) \/ DropGlobal(r) \/ DropStream(r) \/ DropTenant(r)

Next ==
  \E r \in Requests :
    \/ Run(r) \/ Reserve(r) \/ QueueTimeout(r) \/ Cancel(r)
    \/ \E t \in Tenants, k \in Kinds : RefuseTenant(r, t, k) \/ Again(r, t, k)

Spec == Init /\ [][Next]_vars

\* Tasks that can run do, and every response ends (max_stream_duration, the
\* upstream timeouts, or the caller).  Nothing is assumed of the queue wait.
FairSpec == Spec /\ \A r \in Requests : WF_vars(Run(r))

-----------------------------------------------------------------------------
(* Properties *)

Holders(x) == {r \in Requests : x \in holds[r]}

\* A request whose depth is counted.
Counted(r) == pc[r] \in {"counted", "waiting", "leaving"}
Slotted(r) == Counted(r) \/ pc[r] \in {"slotted", "uncounted"}

\* The global ceiling and its queue: a permit is free, held by one request, or
\* assigned to one that waits, and none is free while a request waits for one,
\* so a newcomer's try_acquire never overtakes the queue.  The depth is "an
\* exact observation of the slots currently owned" (admission.rs:287) and never
\* passes the capacity, so neither expect in QueueState can fire.
QueueConserved ==
  /\ TypeOK
  /\ limits.max_in_flight > 0 =>
       /\ free + Cardinality(Holders("global")) + Cardinality(assigned) = limits.max_in_flight
       /\ free > 0 => waiters = <<>>
  /\ current = Cardinality({r \in Requests : Counted(r)})
  /\ current <= limits.queue_capacity
  /\ slots + Cardinality({r \in Requests : Slotted(r)}) = limits.queue_capacity

\* The tenant and stream ceilings, across every way a request ends: an entry
\* counts the requests of its tenant and the table stays within max_tenants, so
\* no release is lost or saturates; a stream slot is held only past the queue.
CeilingsKept ==
  /\ limits.max_in_flight_per_tenant > 0 =>
       /\ \A t \in Tenants :
            /\ active[t] = Cardinality({r \in Holders("tenant") : tenant[r] = t})
            /\ active[t] <= limits.max_in_flight_per_tenant
       /\ Cardinality(Entries) <= limits.max_tenants
  /\ streams + Cardinality(Holders("stream")) = limits.max_in_flight_streams
  /\ \A r \in Holders("stream") : pc[r] \in {"admitted", "dropping"}

\* Whatever callers do, a request that waits for the global ceiling gets it or
\* leaves the queue, because every permit is passed on to the first in line.
QueuedIsServed ==
  \A r \in Requests : pc[r] = "waiting" ~> pc[r] # "waiting"
=============================================================================
