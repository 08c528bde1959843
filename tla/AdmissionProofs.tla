-------------------------- MODULE AdmissionProofs --------------------------
(***************************************************************************)
(* The ceilings of the admission gate, for any finite sets of requests and *)
(* tenants and whatever limits the process is configured with.             *)
(*                                                                         *)
(* Each counter is tied to the set of requests that own a unit of it.  The *)
(* global semaphore adds its queue: a permit it hands over must go to a    *)
(* request that has none yet, so the requests that wait are in line once,  *)
(* and those in line hold nothing of it (Lined).                           *)
(***************************************************************************)
EXTENDS Admission, FiniteSetTheorems, SequenceTheorems, TLAPS

InLine(r) == \E i \in 1..Len(waiters) : waiters[i] = r

\* Who is in the semaphore's queue: exactly the requests that wait and have no
\* permit assigned, each of them once.
Lined ==
  /\ \A r \in Requests : pc[r] = "waiting" <=> InLine(r) \/ r \in assigned
  /\ \A r \in assigned : ~InLine(r)
  /\ \A i, j \in 1..Len(waiters) : waiters[i] = waiters[j] => i = j

\* Where a request may be when its permit holds a ceiling.
MayHold(p, h) ==
  /\ p = "idle" => h = {}
  /\ "global" \in h => p \in {"leaving", "uncounted", "stream", "admitted", "dropping"}
  /\ "stream" \in h => p \in {"admitted", "dropping"}

HoldsMatch == \A r \in Requests : MayHold(pc[r], holds[r])

\* The parts of QueueConserved and CeilingsKept.
GlobalConserved ==
  limits.max_in_flight > 0 =>
    /\ free + Cardinality(Holders("global")) + Cardinality(assigned) = limits.max_in_flight
    /\ free > 0 => waiters = <<>>

Queued == {r \in Requests : Counted(r)}
InSlot == {r \in Requests : Slotted(r)}

QueueExact ==
  /\ current = Cardinality(Queued)
  /\ slots + Cardinality(InSlot) = limits.queue_capacity

Of(t) == {r \in Holders("tenant") : tenant[r] = t}

TenantsExact ==
  limits.max_in_flight_per_tenant > 0 =>
    /\ \A t \in Tenants : active[t] = Cardinality(Of(t))
    /\ \A t \in Tenants : active[t] <= limits.max_in_flight_per_tenant
    /\ Cardinality(Entries) <= limits.max_tenants

StreamsExact == streams + Cardinality(Holders("stream")) = limits.max_in_flight_streams

\* The inductive invariant.
IInv ==
  /\ TypeOK /\ Lined /\ HoldsMatch
  /\ GlobalConserved /\ QueueExact /\ TenantsExact /\ StreamsExact

-----------------------------------------------------------------------------
(* Counting, and the queue *)

\* A set of requests is finite.
LEMMA RequestsFinite ==
  ASSUME NEW S \in SUBSET Requests
  PROVE  IsFiniteSet(S) /\ Cardinality(S) \in Nat
  BY FS_Subset, FS_CardinalityType, AdmissionAssumption

\* Adding one request moves a count up by one.
LEMMA CardAdd ==
  ASSUME NEW S \in SUBSET Requests, NEW r \in Requests, r \notin S
  PROVE  Cardinality(S \cup {r}) = Cardinality(S) + 1
  BY RequestsFinite, FS_AddElement

\* Removing one moves it down by one, and it was positive.
LEMMA CardRemove ==
  ASSUME NEW S \in SUBSET Requests, NEW r \in S
  PROVE  Cardinality(S \ {r}) = Cardinality(S) - 1 /\ Cardinality(S) > 0
<1>1. Cardinality(S \ {r}) = Cardinality(S) - 1
  BY RequestsFinite, FS_RemoveElement
<1>2. S \ {r} \in SUBSET Requests
  OBVIOUS
<1> QED
  BY <1>1, <1>2, RequestsFinite

\* Limits are natural numbers.
LEMMA LimitsType ==
  TypeOK => /\ limits.max_in_flight \in Nat /\ limits.max_in_flight_streams \in Nat
            /\ limits.max_in_flight_per_tenant \in Nat /\ limits.max_tenants \in Nat
            /\ limits.queue_capacity \in Nat
  BY AdmissionAssumption DEF TypeOK, LimitType

\* A waiter that withdraws leaves a queue of the others, in their order.
LEMMA RemoveAtLemma ==
  ASSUME NEW s \in Seq(Requests), NEW k \in 1..Len(s)
  PROVE  /\ RemoveAt(s, k) \in Seq(Requests)
         /\ Len(RemoveAt(s, k)) = Len(s) - 1
         /\ \A i \in 1..(Len(s) - 1) :
              RemoveAt(s, k)[i] = IF i < k THEN s[i] ELSE s[i + 1]
<1> DEFINE a == SubSeq(s, 1, k - 1)  b == SubSeq(s, k + 1, Len(s))
<1>1. a \in Seq(Requests) /\ Len(a) = k - 1 /\ \A i \in 1..(k - 1) : a[i] = s[i]
  OBVIOUS
<1>2. b \in Seq(Requests) /\ Len(b) = Len(s) - k /\ \A i \in 1..(Len(s) - k) : b[i] = s[k + i]
  OBVIOUS
<1>3. RemoveAt(s, k) = a \o b
  BY DEF RemoveAt
<1> HIDE DEF a, b
<1>4. /\ a \o b \in Seq(Requests) /\ Len(a \o b) = Len(s) - 1
      /\ \A i \in 1..(Len(s) - 1) :
           (a \o b)[i] = IF i <= k - 1 THEN a[i] ELSE b[i - (k - 1)]
  <2>1. /\ a \o b \in Seq(Requests) /\ Len(a \o b) = Len(a) + Len(b)
        /\ \A i \in 1..(Len(a) + Len(b)) :
             (a \o b)[i] = IF i <= Len(a) THEN a[i] ELSE b[i - Len(a)]
    BY <1>1, <1>2, ConcatProperties
  <2>2. Len(a) + Len(b) = Len(s) - 1
    BY <1>1, <1>2
  <2> QED
    BY <2>1, <2>2, <1>1
<1>5. ASSUME NEW i \in 1..(Len(s) - 1), i >= k PROVE b[i - (k - 1)] = s[i + 1]
  <2>1. i - (k - 1) \in 1..(Len(s) - k) /\ k + (i - (k - 1)) = i + 1
    BY <1>5
  <2> QED
    BY <2>1, <1>2
<1> QED
  BY <1>1, <1>3, <1>4, <1>5

-----------------------------------------------------------------------------
(* One lemma per part of the invariant: what each action does to it *)

\* The limits are read at boot and never change.
LEMMA LimitsFixed == [Next]_vars => limits' = limits
<1> SUFFICES ASSUME [Next]_vars PROVE limits' = limits
  OBVIOUS
<1> USE DEF table
<1>1. ASSUME NEW r \in Requests, Run(r) PROVE limits' = limits
  BY <1>1 DEF Run, TryGlobal, GlobalFull, TakeQueueSlot, QueueFull, CountQueued, Enqueue,
     PickUp, Uncount, ReturnQueueSlot, Admit, TakeStream, RefuseStream, Finish, DropGlobal,
     DropStream, DropTenant
<1>2. ASSUME NEW r \in Requests, Reserve(r) \/ QueueTimeout(r) \/ Cancel(r)
      PROVE  limits' = limits
  BY <1>2 DEF Reserve, QueueTimeout, Cancel
<1>3. ASSUME NEW r \in Requests, NEW t \in Tenants, NEW k \in Kinds,
             RefuseTenant(r, t, k) \/ Again(r, t, k)
      PROVE  limits' = limits
  BY <1>3 DEF RefuseTenant, Again
<1> QED
  BY <1>1, <1>2, <1>3 DEF Next, vars

\* Where a request stands and what its permit holds move together.
LEMMA HoldsStep == TypeOK /\ HoldsMatch /\ [Next]_vars => HoldsMatch'
<1> SUFFICES ASSUME TypeOK, HoldsMatch, [Next]_vars PROVE HoldsMatch'
  OBVIOUS
<1> USE DEF Goto, Take, Drop
<1>0. /\ pc \in [Requests -> Points] /\ holds \in [Requests -> SUBSET Resources]
      /\ \A r \in Requests : MayHold(pc[r], holds[r])
  BY DEF TypeOK, HoldsMatch
<1>a. ASSUME NEW r \in Requests, NEW q, NEW h,
             pc' = [pc EXCEPT ![r] = q], holds' = [holds EXCEPT ![r] = h], MayHold(q, h)
      PROVE  HoldsMatch'
  BY <1>0, <1>a DEF HoldsMatch
<1>b. ASSUME NEW r \in Requests, NEW q, MayHold(q, holds[r]),
             pc' = [pc EXCEPT ![r] = q], holds' = holds
      PROVE  HoldsMatch'
  BY <1>0, <1>b DEF HoldsMatch
<1>1. ASSUME NEW r \in Requests, Reserve(r) PROVE HoldsMatch'
  <2> DEFINE q == IF limits.max_in_flight > 0 THEN "acquire" ELSE "stream"
  <2>1. pc[r] = "idle" /\ pc' = [pc EXCEPT ![r] = q]
        /\ (holds' = holds \/ holds' = [holds EXCEPT ![r] = holds[r] \cup {"tenant"}])
    BY <1>1 DEF Reserve
  <2>2. MayHold(q, holds[r]) /\ MayHold(q, holds[r] \cup {"tenant"})
    BY <1>0, <2>1 DEF MayHold
  <2> HIDE DEF q
  <2> QED
    BY <1>a, <1>b, <2>1, <2>2
<1>2. ASSUME NEW r \in Requests, NEW t \in Tenants, NEW k \in Kinds,
             RefuseTenant(r, t, k) \/ Again(r, t, k)
      PROVE  HoldsMatch'
  <2>1. MayHold("idle", holds[r])
    BY <1>0, <1>2 DEF RefuseTenant, Again, MayHold
  <2> QED
    BY <1>b, <1>2, <2>1 DEF RefuseTenant, Again
<1>3. ASSUME NEW r \in Requests,
             TryGlobal(r) \/ (Enqueue(r) /\ free > 0) \/ PickUp(r) \/ TakeStream(r)
      PROVE  HoldsMatch'
  <2>1. CASE TryGlobal(r)
    <3>1. MayHold("stream", holds[r] \cup {"global"})
      BY <1>0, <2>1 DEF TryGlobal, MayHold
    <3> QED
      BY <1>a, <2>1, <3>1 DEF TryGlobal
  <2>2. CASE (Enqueue(r) /\ free > 0) \/ PickUp(r)
    <3>1. MayHold("leaving", holds[r] \cup {"global"})
      BY <1>0, <2>2 DEF Enqueue, PickUp, MayHold
    <3> QED
      BY <1>a, <2>2, <3>1 DEF Enqueue, PickUp
  <2>3. CASE TakeStream(r)
    <3>1. MayHold("admitted", holds[r] \cup {"stream"})
      BY <1>0, <2>3 DEF TakeStream, MayHold
    <3> QED
      BY <1>a, <2>3, <3>1 DEF TakeStream
  <2> QED
    BY <1>3, <2>1, <2>2, <2>3
<1>4. ASSUME NEW r \in Requests,
             \/ GlobalFull(r) \/ TakeQueueSlot(r) \/ QueueFull(r) \/ CountQueued(r)
             \/ (Enqueue(r) /\ ~(free > 0)) \/ QueueTimeout(r) \/ Cancel(r) \/ Uncount(r)
             \/ ReturnQueueSlot(r) \/ Admit(r) \/ RefuseStream(r) \/ Finish(r)
      PROVE  HoldsMatch'
  <2>1. PICK q : /\ pc' = [pc EXCEPT ![r] = q] /\ holds' = holds
                 /\ q \in {"full", "dropping", "slotted", "counted", "waiting", "leaving",
                           "uncounted", "stream", "admitted"}
                 /\ q \in {"full", "slotted", "counted", "waiting"} =>
                      pc[r] \in {"acquire", "full", "slotted", "counted"}
                 /\ q \in {"leaving", "uncounted", "stream"} =>
                      pc[r] \in {"waiting", "leaving", "uncounted"}
    BY <1>4 DEF GlobalFull, TakeQueueSlot, QueueFull, CountQueued, Enqueue, QueueTimeout,
       Cancel, Uncount, ReturnQueueSlot, Admit, RefuseStream, Finish
  <2>2. MayHold(q, holds[r])
    BY <1>0, <2>1 DEF MayHold
  <2> QED
    BY <1>b, <2>1, <2>2
<1>5. ASSUME NEW r \in Requests, DropGlobal(r) \/ DropStream(r) \/ DropTenant(r)
      PROVE  HoldsMatch'
  <2>1. PICK x \in Resources : holds' = [holds EXCEPT ![r] = holds[r] \ {x}] /\ pc' = pc
    BY <1>5 DEF DropGlobal, DropStream, DropTenant, Resources
  <2>2. MayHold(pc[r], holds[r] \ {x})
    BY <1>0 DEF MayHold
  <2> QED
    BY <1>0, <2>1, <2>2 DEF HoldsMatch
<1>6. CASE UNCHANGED vars
  BY <1>6 DEF vars, HoldsMatch
<1> QED
  BY <1>1, <1>2, <1>3, <1>4, <1>5, <1>6 DEF Next, Run

\* What a step does to the semaphore's queue: nothing; one joins it at the end;
\* one withdraws; its head is assigned a permit; or a permit is picked up.
LEMMA LinedStep == TypeOK /\ Lined /\ [Next]_vars => Lined'
<1> SUFFICES ASSUME TypeOK, Lined, [Next]_vars PROVE Lined'
  OBVIOUS
<1> USE DEF Goto
<1>0. waiters \in Seq(Requests) /\ assigned \subseteq Requests /\ pc \in [Requests -> Points]
  BY DEF TypeOK
<1>1. ASSUME UNCHANGED <<waiters, assigned>>,
             \A r \in Requests : pc'[r] = "waiting" <=> pc[r] = "waiting"
      PROVE  Lined'
  BY <1>1 DEF Lined, InLine
<1>2. ASSUME NEW r \in Requests, pc[r] = "counted", pc' = [pc EXCEPT ![r] = "waiting"],
             waiters' = Append(waiters, r), UNCHANGED assigned
      PROVE  Lined'
  <2>1. ~InLine(r) /\ r \notin assigned
    BY <1>2 DEF Lined
  <2>2. /\ Len(waiters') = Len(waiters) + 1 /\ waiters'[Len(waiters) + 1] = r
        /\ \A i \in 1..Len(waiters) : waiters'[i] = waiters[i]
    BY <1>0, <1>2, AppendProperties
  <2>3. \A q : InLine(q)' <=> InLine(q) \/ q = r
    BY <1>0, <2>2 DEF InLine
  <2>4. \A i, j \in 1..Len(waiters') : waiters'[i] = waiters'[j] => i = j
    BY <1>0, <2>1, <2>2 DEF Lined, InLine
  <2> QED
    BY <1>0, <1>2, <2>1, <2>3, <2>4 DEF Lined, Points
<1>3. ASSUME NEW r \in Requests, pc[r] = "waiting", pc' = [pc EXCEPT ![r] = "leaving"],
             r \notin assigned, Withdraw(r), UNCHANGED assigned
      PROVE  Lined'
  <2>1. PICK k \in 1..Len(waiters) : waiters[k] = r /\ waiters' = RemoveAt(waiters, k)
    BY <1>3 DEF Withdraw
  <2>2. /\ waiters' \in Seq(Requests) /\ Len(waiters') = Len(waiters) - 1
        /\ \A i \in 1..(Len(waiters) - 1) :
             waiters'[i] = IF i < k THEN waiters[i] ELSE waiters[i + 1]
    BY <1>0, <2>1, RemoveAtLemma
  <2>3. \A q : InLine(q)' <=> InLine(q) /\ q # r
    <3>1. ASSUME NEW q, InLine(q)' PROVE InLine(q) /\ q # r
      BY <1>0, <2>1, <2>2, <3>1 DEF InLine, Lined
    <3>2. ASSUME NEW q, InLine(q), q # r PROVE InLine(q)'
      <4>1. PICK i \in 1..Len(waiters) : waiters[i] = q
        BY <3>2 DEF InLine
      <4>2. CASE i < k
        BY <1>0, <2>1, <2>2, <4>1, <4>2 DEF InLine
      <4>3. CASE i > k
        <5>1. i - 1 \in 1..Len(waiters') /\ waiters'[i - 1] = waiters[(i - 1) + 1]
          BY <1>0, <2>2, <4>3
        <5>2. waiters'[i - 1] = q
          BY <5>1, <4>1
        <5> QED
          BY <5>1, <5>2 DEF InLine
      <4> QED
        BY <2>1, <3>2, <4>1, <4>2, <4>3
    <3> QED
      BY <3>1, <3>2
  <2>4. \A i, j \in 1..Len(waiters') : waiters'[i] = waiters'[j] => i = j
    BY <1>0, <2>1, <2>2 DEF Lined
  <2> QED
    BY <1>0, <1>3, <2>3, <2>4 DEF Lined, Points
<1>4. ASSUME waiters # <<>>, waiters' = Tail(waiters),
             NEW S \in SUBSET assigned, assigned' = (assigned \ S) \cup {Head(waiters)},
             \A r \in Requests : pc'[r] = "waiting" <=> pc[r] = "waiting" /\ r \notin S
      PROVE  Lined'
  <2>1. /\ Len(waiters') = Len(waiters) - 1 /\ Head(waiters) \in Requests
        /\ \A i \in 1..(Len(waiters) - 1) : waiters'[i] = waiters[i + 1]
        /\ Len(waiters) \in Nat \ {0} /\ Head(waiters) = waiters[1]
    BY <1>0, <1>4, HeadTailProperties
  <2>2. \A q : InLine(q)' <=> InLine(q) /\ q # Head(waiters)
    <3>1. ASSUME NEW q, InLine(q)' PROVE InLine(q) /\ q # Head(waiters)
      BY <1>0, <2>1, <3>1 DEF InLine, Lined
    <3>2. ASSUME NEW q, InLine(q), q # Head(waiters) PROVE InLine(q)'
      <4>1. PICK i \in 1..Len(waiters) : waiters[i] = q
        BY <3>2 DEF InLine
      <4>2. i - 1 \in 1..Len(waiters') /\ waiters'[i - 1] = waiters[(i - 1) + 1]
        BY <2>1, <3>2, <4>1
      <4>3. waiters'[i - 1] = q
        BY <4>1, <4>2
      <4> QED
        BY <4>2, <4>3 DEF InLine
    <3> QED
      BY <3>1, <3>2
  <2>3. \A i, j \in 1..Len(waiters') : waiters'[i] = waiters'[j] => i = j
    BY <1>0, <2>1 DEF Lined
  <2>4. InLine(Head(waiters)) /\ Head(waiters) \notin assigned
    BY <2>1 DEF InLine, Lined
  <2> QED
    BY <1>0, <1>4, <2>1, <2>2, <2>3, <2>4 DEF Lined
<1>5. ASSUME NEW r \in assigned, assigned' = assigned \ {r}, UNCHANGED waiters,
             pc[r] = "waiting", pc' = [pc EXCEPT ![r] = "leaving"]
      PROVE  Lined'
  BY <1>0, <1>5 DEF Lined, InLine, Points
<1>6. ASSUME NEW r \in Requests,
             \/ \E t \in Tenants, k \in Kinds : RefuseTenant(r, t, k) \/ Again(r, t, k)
             \/ Reserve(r) \/ TryGlobal(r)
             \/ GlobalFull(r) \/ TakeQueueSlot(r) \/ QueueFull(r) \/ CountQueued(r)
             \/ Uncount(r) \/ ReturnQueueSlot(r) \/ Admit(r) \/ TakeStream(r)
             \/ RefuseStream(r) \/ Finish(r) \/ DropStream(r) \/ DropTenant(r)
      PROVE  Lined'
  <2>1. UNCHANGED <<waiters, assigned>>
    BY <1>6 DEF Reserve, RefuseTenant, Again, TryGlobal, GlobalFull, TakeQueueSlot, QueueFull,
       CountQueued, Uncount, ReturnQueueSlot, Admit, TakeStream, RefuseStream, Finish,
       DropStream, DropTenant, semaphore
  <2>2. \A q \in Requests : pc'[q] = "waiting" <=> pc[q] = "waiting"
    BY <1>0, <1>6 DEF Reserve, RefuseTenant, Again, TryGlobal, GlobalFull, TakeQueueSlot,
       QueueFull, CountQueued, Uncount, ReturnQueueSlot, Admit, TakeStream, RefuseStream,
       Finish, DropStream, DropTenant
  <2> QED
    BY <1>1, <2>1, <2>2
<1>7. ASSUME NEW r \in Requests, Enqueue(r) PROVE Lined'
  <2>1. CASE free > 0
    BY <1>0, <1>1, <1>7, <2>1 DEF Enqueue
  <2>2. CASE ~(free > 0)
    BY <1>2, <1>7, <2>2 DEF Enqueue
  <2> QED
    BY <2>1, <2>2
<1>8. ASSUME NEW r \in Requests, PickUp(r) PROVE Lined'
  BY <1>5, <1>8 DEF PickUp
<1>9. ASSUME NEW r \in Requests, QueueTimeout(r) PROVE Lined'
  BY <1>3, <1>9 DEF QueueTimeout
<1>10. ASSUME NEW r \in Requests, Cancel(r) PROVE Lined'
  <2>1. CASE r \notin assigned
    BY <1>3, <1>10, <2>1 DEF Cancel
  <2>2. CASE r \in assigned /\ waiters = <<>>
    BY <1>5, <1>10, <2>2 DEF Cancel
  <2>3. CASE r \in assigned /\ waiters # <<>>
    <3>1. \A q \in Requests : pc'[q] = "waiting" <=> pc[q] = "waiting" /\ q \notin {r}
      BY <1>0, <1>10 DEF Cancel
    <3> QED
      BY <1>4, <1>10, <2>3, <3>1 DEF Cancel
  <2> QED
    BY <2>1, <2>2, <2>3
<1>11. ASSUME NEW r \in Requests, DropGlobal(r) PROVE Lined'
  <2>1. CASE waiters = <<>>
    BY <1>1, <1>11, <2>1 DEF DropGlobal, Release
  <2>2. CASE waiters # <<>>
    <3>1. /\ {} \in SUBSET assigned /\ assigned' = (assigned \ {}) \cup {Head(waiters)}
          /\ waiters' = Tail(waiters)
          /\ \A q \in Requests : pc'[q] = "waiting" <=> pc[q] = "waiting" /\ q \notin {}
      BY <1>11, <2>2 DEF DropGlobal, Release
    <3> QED
      BY <1>4, <2>2, <3>1
  <2> QED
    BY <2>1, <2>2
<1>12. CASE UNCHANGED vars
  BY <1>1, <1>12 DEF vars, semaphore
<1> QED
  BY <1>6, <1>7, <1>8, <1>9, <1>10, <1>11, <1>12 DEF Next, Run

\* A permit of the global semaphore is free, held, or assigned to one that
\* waits; and it is free only while nobody is in line.
LEMMA GlobalStep ==
  TypeOK /\ Lined /\ HoldsMatch /\ GlobalConserved /\ [Next]_vars => GlobalConserved'
<1> SUFFICES ASSUME TypeOK, Lined, HoldsMatch, GlobalConserved, [Next]_vars,
                    limits.max_in_flight > 0
             PROVE  /\ free' + Cardinality(Holders("global")') + Cardinality(assigned')
                         = limits.max_in_flight
                    /\ free' > 0 => waiters' = <<>>
  BY LimitsFixed DEF GlobalConserved
<1> DEFINE H == Holders("global")
<1> USE DEF Goto, Take, Drop
<1>0. /\ waiters \in Seq(Requests) /\ assigned \in SUBSET Requests /\ free \in Nat
      /\ pc \in [Requests -> Points] /\ holds \in [Requests -> SUBSET Resources]
      /\ H \in SUBSET Requests /\ Cardinality(H) \in Nat /\ Cardinality(assigned) \in Nat
      /\ limits.max_in_flight \in Nat
  BY RequestsFinite, LimitsType DEF TypeOK, Holders
<1>1. /\ free + Cardinality(H) + Cardinality(assigned) = limits.max_in_flight
      /\ free > 0 => waiters = <<>>
  BY DEF GlobalConserved
<1>a. ASSUME NEW r \in Requests, pc[r] \in {"acquire", "counted", "waiting"}
      PROVE  r \notin H
  BY <1>a DEF HoldsMatch, MayHold, Holders
<1>b. ASSUME NEW r \in Requests, r \notin H, holds' = [holds EXCEPT ![r] = @ \cup {"global"}]
      PROVE  Cardinality(H') = Cardinality(H) + 1
  <2>1. H' = H \cup {r}
    BY <1>0, <1>b DEF Holders
  <2> QED
    BY <1>0, <1>b, <2>1, CardAdd
<1>c. ASSUME NEW r \in Requests, "global" \in holds[r], holds' = [holds EXCEPT ![r] = @ \ {"global"}]
      PROVE  Cardinality(H') = Cardinality(H) - 1
  <2>1. H' = H \ {r} /\ r \in H
    BY <1>0, <1>c DEF Holders
  <2> QED
    BY <1>0, <2>1, CardRemove
<1>d. ASSUME waiters # <<>>
      PROVE  Head(waiters) \in Requests /\ Head(waiters) \notin assigned /\ free = 0
  <2>1. Len(waiters) \in Nat \ {0} /\ Head(waiters) = waiters[1] /\ Head(waiters) \in Requests
    BY <1>0, <1>d, HeadTailProperties
  <2> QED
    BY <1>0, <1>1, <1>d, <2>1 DEF Lined, InLine
<1>2. ASSUME NEW r \in Requests, TryGlobal(r) \/ (Enqueue(r) /\ free > 0)
      PROVE  /\ free' + Cardinality(H') + Cardinality(assigned') = limits.max_in_flight
             /\ free' > 0 => waiters' = <<>>
  <2>1. /\ free > 0 /\ free' = free - 1 /\ UNCHANGED <<waiters, assigned>>
        /\ pc[r] \in {"acquire", "counted"}
        /\ holds' = [holds EXCEPT ![r] = @ \cup {"global"}]
    BY <1>2 DEF TryGlobal, Enqueue
  <2>2. Cardinality(H') = Cardinality(H) + 1
    BY <1>a, <1>b, <2>1
  <2> HIDE DEF H
  <2> QED
    BY <1>0, <1>1, <2>1, <2>2
<1>3. ASSUME NEW r \in Requests, Enqueue(r), ~(free > 0)
      PROVE  /\ free' + Cardinality(H') + Cardinality(assigned') = limits.max_in_flight
             /\ free' > 0 => waiters' = <<>>
  BY <1>0, <1>1, <1>3 DEF Enqueue, Holders
<1>4. ASSUME NEW r \in Requests, PickUp(r)
      PROVE  /\ free' + Cardinality(H') + Cardinality(assigned') = limits.max_in_flight
             /\ free' > 0 => waiters' = <<>>
  <2>1. /\ r \in assigned /\ assigned' = assigned \ {r} /\ UNCHANGED <<free, waiters>>
        /\ pc[r] = "waiting" /\ holds' = [holds EXCEPT ![r] = @ \cup {"global"}]
    BY <1>4 DEF PickUp
  <2>2. Cardinality(H') = Cardinality(H) + 1
    BY <1>a, <1>b, <2>1
  <2>3. Cardinality(assigned') = Cardinality(assigned) - 1
    BY <1>0, <2>1, CardRemove
  <2> HIDE DEF H
  <2> QED
    BY <1>0, <1>1, <2>1, <2>2, <2>3
<1>5. ASSUME NEW r \in Requests, QueueTimeout(r) \/ (Cancel(r) /\ r \notin assigned)
      PROVE  /\ free' + Cardinality(H') + Cardinality(assigned') = limits.max_in_flight
             /\ free' > 0 => waiters' = <<>>
  <2>1. Withdraw(r) /\ UNCHANGED <<free, assigned, holds>>
    BY <1>5 DEF QueueTimeout, Cancel
  <2>2. waiters # <<>>
    BY <1>0, <2>1 DEF Withdraw
  <2> QED
    BY <1>1, <1>d, <2>1, <2>2 DEF Holders
<1>6. ASSUME NEW r \in Requests, Cancel(r), r \in assigned
      PROVE  /\ free' + Cardinality(H') + Cardinality(assigned') = limits.max_in_flight
             /\ free' > 0 => waiters' = <<>>
  <2>0. H' = H
    BY <1>6 DEF Cancel, Holders
  <2> HIDE DEF H
  <2>1. Cardinality(assigned \ {r}) = Cardinality(assigned) - 1
    BY <1>0, <1>6, CardRemove
  <2>2. CASE waiters = <<>>
    <3>1. free' = free + 1 /\ assigned' = assigned \ {r} /\ waiters' = <<>>
      BY <1>6, <2>2 DEF Cancel
    <3> QED
      BY <1>0, <1>1, <2>0, <2>1, <3>1
  <2>3. CASE waiters # <<>>
    <3>1. /\ assigned' = (assigned \ {r}) \cup {Head(waiters)} /\ UNCHANGED free
          /\ Head(waiters) \notin assigned \ {r} /\ assigned \ {r} \in SUBSET Requests
      BY <1>0, <1>6, <1>d, <2>3 DEF Cancel
    <3>2. Cardinality(assigned') = Cardinality(assigned \ {r}) + 1
      BY <3>1, <1>d, <2>3, CardAdd
    <3> QED
      BY <1>0, <1>1, <1>d, <2>0, <2>1, <2>3, <3>1, <3>2
  <2> QED
    BY <2>2, <2>3
<1>7. ASSUME NEW r \in Requests, DropGlobal(r)
      PROVE  /\ free' + Cardinality(H') + Cardinality(assigned') = limits.max_in_flight
             /\ free' > 0 => waiters' = <<>>
  <2>1. Cardinality(H') = Cardinality(H) - 1
    BY <1>c, <1>7 DEF DropGlobal
  <2> HIDE DEF H
  <2>2. CASE waiters = <<>>
    BY <1>0, <1>1, <1>7, <2>1, <2>2 DEF DropGlobal, Release
  <2>3. CASE waiters # <<>>
    <3>1. assigned' = assigned \cup {Head(waiters)} /\ UNCHANGED free
      BY <1>7, <2>3 DEF DropGlobal, Release
    <3>2. Cardinality(assigned') = Cardinality(assigned) + 1
      BY <1>0, <1>d, <2>3, <3>1, CardAdd
    <3> QED
      BY <1>0, <1>1, <1>d, <2>1, <2>3, <3>1, <3>2
  <2> QED
    BY <2>2, <2>3
<1>8. ASSUME NEW r \in Requests,
             \/ \E t \in Tenants, k \in Kinds : RefuseTenant(r, t, k) \/ Again(r, t, k)
             \/ Reserve(r)
             \/ GlobalFull(r) \/ TakeQueueSlot(r) \/ QueueFull(r) \/ CountQueued(r)
             \/ Uncount(r) \/ ReturnQueueSlot(r) \/ Admit(r) \/ TakeStream(r)
             \/ RefuseStream(r) \/ Finish(r) \/ DropStream(r) \/ DropTenant(r)
      PROVE  H' = H /\ UNCHANGED semaphore
  <2>1. UNCHANGED semaphore
    BY <1>8 DEF Reserve, RefuseTenant, Again, GlobalFull, TakeQueueSlot, QueueFull,
       CountQueued, Uncount, ReturnQueueSlot, Admit, TakeStream, RefuseStream, Finish,
       DropStream, DropTenant
  <2>2. \/ UNCHANGED holds
        \/ \E x \in {"stream", "tenant"} :
             \/ holds' = [holds EXCEPT ![r] = @ \cup {x}]
             \/ holds' = [holds EXCEPT ![r] = @ \ {x}]
    BY <1>8 DEF Reserve, RefuseTenant, Again, GlobalFull, TakeQueueSlot, QueueFull,
       CountQueued, Uncount, ReturnQueueSlot, Admit, TakeStream, RefuseStream, Finish,
       DropStream, DropTenant
  <2> QED
    BY <1>0, <2>1, <2>2 DEF Holders
<1>9. CASE UNCHANGED vars
  BY <1>1, <1>9 DEF vars, semaphore, Holders
<1> HIDE DEF H
<1>10. ASSUME H' = H, UNCHANGED semaphore
       PROVE  /\ free' + Cardinality(H') + Cardinality(assigned') = limits.max_in_flight
              /\ free' > 0 => waiters' = <<>>
  BY <1>1, <1>10 DEF semaphore
<1> QED
  BY <1>2, <1>3, <1>4, <1>5, <1>6, <1>7, <1>8, <1>9, <1>10 DEF Next, Run, H

\* A queue slot is owned from TakeQueueSlot to ReturnQueueSlot, and the depth
\* is counted strictly within that.
LEMMA QueueStep == TypeOK /\ QueueExact /\ [Next]_vars => QueueExact'
<1> SUFFICES ASSUME TypeOK, QueueExact, [Next]_vars PROVE QueueExact'
  OBVIOUS
<1> USE DEF Goto
<1>0. /\ pc \in [Requests -> Points] /\ slots \in Nat /\ current \in Nat
      /\ Queued \in SUBSET Requests /\ InSlot \in SUBSET Requests
      /\ Cardinality(Queued) \in Nat /\ Cardinality(InSlot) \in Nat
      /\ limits.queue_capacity \in Nat /\ limits' = limits
  BY RequestsFinite, LimitsType, LimitsFixed DEF TypeOK, Queued, InSlot
<1>1. current = Cardinality(Queued) /\ slots + Cardinality(InSlot) = limits.queue_capacity
  BY DEF QueueExact
<1>2. ASSUME NEW r \in Requests, TakeQueueSlot(r) PROVE QueueExact'
  <2>1. /\ Queued' = Queued /\ r \notin InSlot /\ InSlot' = InSlot \cup {r}
        /\ slots' = slots - 1 /\ current' = current
    BY <1>0, <1>2 DEF TakeQueueSlot, Queued, InSlot, Slotted, Counted
  <2>2. Cardinality(InSlot') = Cardinality(InSlot) + 1
    BY <1>0, <2>1, CardAdd
  <2> QED
    BY <1>0, <1>1, <2>1, <2>2 DEF QueueExact
<1>3. ASSUME NEW r \in Requests, ReturnQueueSlot(r) PROVE QueueExact'
  <2>1. /\ Queued' = Queued /\ r \in InSlot /\ InSlot' = InSlot \ {r}
        /\ slots' = slots + 1 /\ current' = current
    BY <1>0, <1>3 DEF ReturnQueueSlot, Queued, InSlot, Slotted, Counted
  <2>2. Cardinality(InSlot') = Cardinality(InSlot) - 1
    BY <1>0, <2>1, CardRemove
  <2> QED
    BY <1>0, <1>1, <2>1, <2>2 DEF QueueExact
<1>4. ASSUME NEW r \in Requests, CountQueued(r) PROVE QueueExact'
  <2>1. /\ InSlot' = InSlot /\ r \notin Queued /\ Queued' = Queued \cup {r}
        /\ slots' = slots /\ current' = current + 1
    BY <1>0, <1>4 DEF CountQueued, Queued, InSlot, Slotted, Counted
  <2>2. Cardinality(Queued') = Cardinality(Queued) + 1
    BY <1>0, <2>1, CardAdd
  <2> QED
    BY <1>0, <1>1, <2>1, <2>2 DEF QueueExact
<1>5. ASSUME NEW r \in Requests, Uncount(r) PROVE QueueExact'
  <2>1. /\ InSlot' = InSlot /\ r \in Queued /\ Queued' = Queued \ {r}
        /\ slots' = slots /\ current' = current - 1
    BY <1>0, <1>5 DEF Uncount, Queued, InSlot, Slotted, Counted
  <2>2. Cardinality(Queued') = Cardinality(Queued) - 1
    BY <1>0, <2>1, CardRemove
  <2> QED
    BY <1>0, <1>1, <2>1, <2>2 DEF QueueExact
<1>6. ASSUME InSlot' = InSlot, Queued' = Queued, UNCHANGED queue PROVE QueueExact'
  BY <1>0, <1>1, <1>6 DEF QueueExact, queue
<1>7. ASSUME NEW r \in Requests,
             \/ \E t \in Tenants, k \in Kinds : RefuseTenant(r, t, k) \/ Again(r, t, k)
             \/ Reserve(r) \/ TryGlobal(r) \/ GlobalFull(r) \/ QueueFull(r) \/ Admit(r)
             \/ TakeStream(r) \/ RefuseStream(r) \/ Finish(r)
             \/ DropGlobal(r) \/ DropStream(r) \/ DropTenant(r)
      PROVE  InSlot' = InSlot /\ Queued' = Queued /\ UNCHANGED queue
  BY <1>0, <1>7 DEF RefuseTenant, Again, Reserve, TryGlobal, GlobalFull, QueueFull, Admit,
     TakeStream, RefuseStream, Finish, DropGlobal, DropStream, DropTenant, Queued, InSlot,
     Slotted, Counted
<1>8. ASSUME NEW r \in Requests, Enqueue(r) \/ PickUp(r) \/ QueueTimeout(r) \/ Cancel(r)
      PROVE  InSlot' = InSlot /\ Queued' = Queued /\ UNCHANGED queue
  <2>1. /\ UNCHANGED queue /\ pc[r] \in {"counted", "waiting"}
        /\ \E q \in {"waiting", "leaving"} : pc' = [pc EXCEPT ![r] = q]
    BY <1>8 DEF Enqueue, PickUp, QueueTimeout, Cancel
  <2> QED
    BY <1>0, <2>1 DEF Queued, InSlot, Slotted, Counted
<1>9. CASE UNCHANGED vars
  BY <1>6, <1>9 DEF vars, queue, Queued, InSlot, Slotted, Counted
<1> QED
  BY <1>2, <1>3, <1>4, <1>5, <1>6, <1>7, <1>8, <1>9 DEF Next, Run

\* A stream slot is held from TakeStream to DropStream.
LEMMA StreamsStep == TypeOK /\ HoldsMatch /\ StreamsExact /\ [Next]_vars => StreamsExact'
<1> SUFFICES ASSUME TypeOK, HoldsMatch, StreamsExact, [Next]_vars PROVE StreamsExact'
  OBVIOUS
<1> USE DEF Goto, Take, Drop
<1> DEFINE H == Holders("stream")
<1>0. /\ holds \in [Requests -> SUBSET Resources] /\ streams \in Nat
      /\ H \in SUBSET Requests /\ Cardinality(H) \in Nat
      /\ limits.max_in_flight_streams \in Nat /\ limits' = limits
  BY RequestsFinite, LimitsType, LimitsFixed DEF TypeOK, Holders
<1>1. streams + Cardinality(H) = limits.max_in_flight_streams
  BY DEF StreamsExact
<1>2. ASSUME NEW r \in Requests, TakeStream(r) PROVE StreamsExact'
  <2>1. r \notin H /\ H' = H \cup {r} /\ streams' = streams - 1
    BY <1>0, <1>2 DEF TakeStream, Holders, HoldsMatch, MayHold
  <2>2. Cardinality(H') = Cardinality(H) + 1
    BY <1>0, <2>1, CardAdd
  <2> QED
    BY <1>0, <1>1, <2>1, <2>2 DEF StreamsExact
<1>3. ASSUME NEW r \in Requests, DropStream(r) PROVE StreamsExact'
  <2>1. r \in H /\ H' = H \ {r} /\ streams' = streams + 1
    BY <1>0, <1>3 DEF DropStream, Holders
  <2>2. Cardinality(H') = Cardinality(H) - 1
    BY <1>0, <2>1, CardRemove
  <2> QED
    BY <1>0, <1>1, <2>1, <2>2 DEF StreamsExact
<1>4. ASSUME H' = H, UNCHANGED streams PROVE StreamsExact'
  BY <1>0, <1>1, <1>4 DEF StreamsExact
<1>5. ASSUME NEW r \in Requests,
             \/ \E t \in Tenants, k \in Kinds : RefuseTenant(r, t, k) \/ Again(r, t, k)
             \/ Reserve(r) \/ TryGlobal(r) \/ GlobalFull(r) \/ TakeQueueSlot(r)
             \/ QueueFull(r) \/ CountQueued(r) \/ Enqueue(r) \/ PickUp(r)
             \/ QueueTimeout(r) \/ Cancel(r) \/ Uncount(r) \/ ReturnQueueSlot(r)
             \/ Admit(r) \/ RefuseStream(r) \/ Finish(r) \/ DropGlobal(r) \/ DropTenant(r)
      PROVE  H' = H /\ UNCHANGED streams
  <2>1. UNCHANGED streams
    BY <1>5 DEF RefuseTenant, Again, Reserve, TryGlobal, GlobalFull, TakeQueueSlot,
       QueueFull, CountQueued, Enqueue, PickUp, QueueTimeout, Cancel, Uncount,
       ReturnQueueSlot, Admit, RefuseStream, Finish, DropGlobal, DropTenant
  <2>2. \/ UNCHANGED holds
        \/ \E x \in {"global", "tenant"} :
             \/ holds' = [holds EXCEPT ![r] = @ \cup {x}]
             \/ holds' = [holds EXCEPT ![r] = @ \ {x}]
    BY <1>5 DEF RefuseTenant, Again, Reserve, TryGlobal, GlobalFull, TakeQueueSlot,
       QueueFull, CountQueued, Enqueue, PickUp, QueueTimeout, Cancel, Uncount,
       ReturnQueueSlot, Admit, RefuseStream, Finish, DropGlobal, DropTenant
  <2> QED
    BY <1>0, <2>1, <2>2 DEF Holders
<1>6. CASE UNCHANGED vars
  BY <1>4, <1>6 DEF vars, Holders
<1> QED
  BY <1>2, <1>3, <1>4, <1>5, <1>6 DEF Next, Run

\* An entry of the tenant table counts the requests that hold one of its slots,
\* whose tenant does not change before they give it back.
LEMMA TenantsStep == TypeOK /\ HoldsMatch /\ TenantsExact /\ [Next]_vars => TenantsExact'
<1> SUFFICES ASSUME TypeOK, HoldsMatch, TenantsExact, [Next]_vars,
                    limits.max_in_flight_per_tenant > 0
             PROVE  /\ \A t \in Tenants : active'[t] = Cardinality(Of(t)')
                    /\ \A t \in Tenants : active'[t] <= limits.max_in_flight_per_tenant
                    /\ Cardinality(Entries') <= limits.max_tenants
  BY LimitsFixed DEF TenantsExact
<1> DEFINE Exact == /\ \A t \in Tenants : active'[t] = Cardinality(Of(t)')
                    /\ \A t \in Tenants : active'[t] <= limits.max_in_flight_per_tenant
                    /\ Cardinality(Entries') <= limits.max_tenants
<1> USE DEF Goto, Take, Drop
<1>0. /\ pc \in [Requests -> Points] /\ tenant \in [Requests -> Tenants]
      /\ holds \in [Requests -> SUBSET Resources] /\ active \in [Tenants -> Nat]
      /\ \A t \in Tenants : Of(t) \in SUBSET Requests /\ Cardinality(Of(t)) \in Nat
      /\ limits.max_in_flight_per_tenant \in Nat /\ limits.max_tenants \in Nat
  BY RequestsFinite, LimitsType DEF TypeOK, Of, Holders
<1>1. /\ \A t \in Tenants : active[t] = Cardinality(Of(t))
      /\ \A t \in Tenants : active[t] <= limits.max_in_flight_per_tenant
      /\ Cardinality(Entries) <= limits.max_tenants
  BY DEF TenantsExact
<1>2. IsFiniteSet(Entries) /\ Entries \in SUBSET Tenants /\ Cardinality(Entries) \in Nat
  BY FS_Subset, FS_CardinalityType, AdmissionAssumption DEF Entries
<1>3. ASSUME NEW r \in Requests, Reserve(r) PROVE Exact
  <2>0. PICK u \in Tenants : u = tenant[r]
    BY <1>0
  <2>1. /\ u \in Tenants /\ ~TenantFull(u) /\ active' = [active EXCEPT ![u] = @ + 1]
        /\ holds' = [holds EXCEPT ![r] = @ \cup {"tenant"}] /\ tenant' = tenant
        /\ "tenant" \notin holds[r]
    BY <1>0, <1>3, <2>0 DEF Reserve, HoldsMatch, MayHold, table
  <2>2. /\ r \notin Of(u) /\ Of(u)' = Of(u) \cup {r}
        /\ \A t \in Tenants \ {u} : Of(t)' = Of(t)
    BY <1>0, <2>0, <2>1 DEF Of, Holders
  <2>3. Cardinality(Of(u)') = Cardinality(Of(u)) + 1
    BY <1>0, <2>1, <2>2, CardAdd
  <2>4. \A t \in Tenants : active'[t] = Cardinality(Of(t)')
    <3> TAKE t \in Tenants
    <3>1. CASE t = u
      BY <1>0, <1>1, <2>1, <2>3, <3>1
    <3>2. CASE t # u
      BY <1>0, <1>1, <2>1, <2>2, <3>2
    <3> QED
      BY <3>1, <3>2
  <2>5. \A t \in Tenants : active'[t] <= limits.max_in_flight_per_tenant
    BY <1>0, <1>1, <2>1 DEF TenantFull
  <2>6. Entries' = Entries \cup {u}
    BY <1>0, <2>1 DEF Entries
  <2>7. Cardinality(Entries') <= limits.max_tenants
    <3>1. CASE u \in Entries
      BY <1>1, <2>6, <3>1, FS_AddElement, <1>2
    <3>2. CASE u \notin Entries
      <4>1. active[u] = 0
        BY <1>0, <2>1, <3>2 DEF Entries
      <4>2. Cardinality(Entries) < limits.max_tenants
        BY <1>0, <1>2, <2>1, <4>1 DEF TenantFull
      <4>3. Cardinality(Entries') = Cardinality(Entries) + 1
        BY <1>2, <2>6, <3>2, FS_AddElement
      <4> QED
        BY <1>0, <1>2, <4>2, <4>3
    <3> QED
      BY <3>1, <3>2
  <2> QED
    BY <2>4, <2>5, <2>7
<1>4. ASSUME NEW r \in Requests, DropTenant(r) PROVE Exact
  <2>0. PICK u \in Tenants : u = tenant[r]
    BY <1>0
  <2>1. /\ u \in Tenants /\ active' = [active EXCEPT ![u] = IF @ = 0 THEN 0 ELSE @ - 1]
        /\ holds' = [holds EXCEPT ![r] = @ \ {"tenant"}] /\ tenant' = tenant
        /\ "tenant" \in holds[r]
    BY <1>0, <1>4, <2>0 DEF DropTenant, table
  <2>2. /\ r \in Of(u) /\ Of(u)' = Of(u) \ {r}
        /\ \A t \in Tenants \ {u} : Of(t)' = Of(t)
    BY <1>0, <2>0, <2>1 DEF Of, Holders
  <2>3. Cardinality(Of(u)') = Cardinality(Of(u)) - 1 /\ Cardinality(Of(u)) > 0
    BY <1>0, <2>1, <2>2, CardRemove
  <2>4. active[u] > 0
    BY <1>0, <1>1, <2>1, <2>3
  <2>a. active'[u] = active[u] - 1 /\ \A t \in Tenants \ {u} : active'[t] = active[t]
    BY <1>0, <2>1, <2>4
  <2>5. \A t \in Tenants : active'[t] = Cardinality(Of(t)')
    <3> TAKE t \in Tenants
    <3>1. CASE t = u
      BY <1>0, <1>1, <2>a, <2>3, <3>1
    <3>2. CASE t # u
      BY <1>0, <1>1, <2>a, <2>2, <3>2
    <3> QED
      BY <3>1, <3>2
  <2>6. \A t \in Tenants : active'[t] <= limits.max_in_flight_per_tenant
    BY <1>0, <1>1, <2>1, <2>4, <2>a
  <2>7. Entries' \in SUBSET Entries
    BY <1>0, <2>1, <2>4, <2>a DEF Entries
  <2>8. Cardinality(Entries') <= limits.max_tenants
    <3>1. Cardinality(Entries') <= Cardinality(Entries) /\ IsFiniteSet(Entries')
      BY <1>2, <2>7, FS_Subset
    <3>2. Cardinality(Entries') \in Nat
      BY <3>1, FS_CardinalityType
    <3> QED
      BY <1>0, <1>1, <1>2, <3>1, <3>2
  <2> QED
    BY <2>5, <2>6, <2>8
<1>5. ASSUME NEW r \in Requests, NEW t \in Tenants, NEW k \in Kinds,
             RefuseTenant(r, t, k) \/ Again(r, t, k)
      PROVE  UNCHANGED active /\ \A u \in Tenants : Of(u)' = Of(u)
  <2>1. /\ UNCHANGED <<active, holds>> /\ tenant' = [tenant EXCEPT ![r] = t]
        /\ "tenant" \notin holds[r]
    BY <1>0, <1>5 DEF RefuseTenant, Again, HoldsMatch, MayHold
  <2> QED
    BY <1>0, <2>1 DEF Of, Holders
<1>6. ASSUME NEW r \in Requests,
             \/ TryGlobal(r) \/ GlobalFull(r) \/ TakeQueueSlot(r)
             \/ QueueFull(r) \/ CountQueued(r) \/ Enqueue(r) \/ PickUp(r)
             \/ QueueTimeout(r) \/ Cancel(r) \/ Uncount(r) \/ ReturnQueueSlot(r)
             \/ Admit(r) \/ TakeStream(r) \/ RefuseStream(r) \/ Finish(r)
             \/ DropGlobal(r) \/ DropStream(r)
      PROVE  UNCHANGED active /\ \A u \in Tenants : Of(u)' = Of(u)
  <2>1. UNCHANGED <<active, tenant>>
    BY <1>6 DEF TryGlobal, GlobalFull, TakeQueueSlot, QueueFull, CountQueued, Enqueue,
       PickUp, QueueTimeout, Cancel, Uncount, ReturnQueueSlot, Admit, TakeStream,
       RefuseStream, Finish, DropGlobal, DropStream, table
  <2>2. \/ UNCHANGED holds
        \/ \E x \in {"global", "stream"} :
             \/ holds' = [holds EXCEPT ![r] = @ \cup {x}]
             \/ holds' = [holds EXCEPT ![r] = @ \ {x}]
    BY <1>6 DEF TryGlobal, GlobalFull, TakeQueueSlot, QueueFull, CountQueued, Enqueue,
       PickUp, QueueTimeout, Cancel, Uncount, ReturnQueueSlot, Admit, TakeStream,
       RefuseStream, Finish, DropGlobal, DropStream
  <2> QED
    BY <1>0, <2>1, <2>2 DEF Of, Holders
<1>7. CASE UNCHANGED vars
  BY <1>1, <1>7 DEF vars, table, Of, Holders, Entries
<1>8. ASSUME UNCHANGED active, \A u \in Tenants : Of(u)' = Of(u) PROVE Exact
  BY <1>1, <1>8 DEF Entries
<1> QED
  BY <1>3, <1>4, <1>5, <1>6, <1>7, <1>8 DEF Next, Run

\* Types: a count is decremented only when a request owns a unit of it.
LEMMA TypeStep == TypeOK /\ QueueExact /\ [Next]_vars => TypeOK'
<1> SUFFICES ASSUME TypeOK, QueueExact, [Next]_vars PROVE TypeOK'
  OBVIOUS
<1> USE DEF Goto, Take, Drop
<1>0. /\ limits \in Limits /\ limits' = limits
      /\ pc \in [Requests -> Points] /\ tenant \in [Requests -> Tenants]
      /\ kind \in [Requests -> Kinds] /\ holds \in [Requests -> SUBSET Resources]
      /\ active \in [Tenants -> Nat]
      /\ free \in Nat /\ streams \in Nat /\ slots \in Nat /\ current \in Nat
      /\ waiters \in Seq(Requests) /\ assigned \subseteq Requests
  BY LimitsFixed DEF TypeOK
<1>a. pc' \in [Requests -> Points]
  <2>1. pc' = pc \/ \E r \in Requests, q \in Points : pc' = [pc EXCEPT ![r] = q]
    <3>1. ASSUME NEW r \in Requests, Run(r)
          PROVE  pc' = pc \/ \E q \in Points : pc' = [pc EXCEPT ![r] = q]
      BY <3>1 DEF Run, TryGlobal, GlobalFull, TakeQueueSlot, QueueFull, CountQueued, Enqueue,
         PickUp, Uncount, ReturnQueueSlot, Admit, TakeStream, RefuseStream, Finish,
         DropGlobal, DropStream, DropTenant, Points
    <3>2. ASSUME NEW r \in Requests,
                 \/ Reserve(r) \/ QueueTimeout(r) \/ Cancel(r)
                 \/ \E t \in Tenants, k \in Kinds : RefuseTenant(r, t, k) \/ Again(r, t, k)
          PROVE  \E q \in Points : pc' = [pc EXCEPT ![r] = q]
      BY <3>2 DEF Reserve, QueueTimeout, Cancel, RefuseTenant, Again, Points
    <3> QED
      BY <3>1, <3>2 DEF Next, vars
  <2> QED
    BY <1>0, <2>1
<1>b. holds' \in [Requests -> SUBSET Resources]
  <2>1. holds' = holds \/ \E r \in Requests, x \in Resources :
          \/ holds' = [holds EXCEPT ![r] = @ \cup {x}]
          \/ holds' = [holds EXCEPT ![r] = @ \ {x}]
    <3>1. ASSUME NEW r \in Requests, Run(r)
          PROVE  holds' = holds \/ \E x \in Resources :
                   \/ holds' = [holds EXCEPT ![r] = @ \cup {x}]
                   \/ holds' = [holds EXCEPT ![r] = @ \ {x}]
      BY <3>1 DEF Run, TryGlobal, GlobalFull, TakeQueueSlot, QueueFull, CountQueued, Enqueue,
         PickUp, Uncount, ReturnQueueSlot, Admit, TakeStream, RefuseStream, Finish,
         DropGlobal, DropStream, DropTenant, Resources
    <3>2. ASSUME NEW r \in Requests,
                 \/ Reserve(r) \/ QueueTimeout(r) \/ Cancel(r)
                 \/ \E t \in Tenants, k \in Kinds : RefuseTenant(r, t, k) \/ Again(r, t, k)
          PROVE  holds' = holds \/ \E x \in Resources : holds' = [holds EXCEPT ![r] = @ \cup {x}]
      BY <3>2 DEF Reserve, QueueTimeout, Cancel, RefuseTenant, Again, Resources
    <3> QED
      BY <3>1, <3>2 DEF Next, vars
  <2>2. ASSUME NEW r \in Requests, NEW x \in Resources,
               \/ holds' = [holds EXCEPT ![r] = @ \cup {x}]
               \/ holds' = [holds EXCEPT ![r] = @ \ {x}]
        PROVE  holds' \in [Requests -> SUBSET Resources]
    <3>1. holds[r] \cup {x} \in SUBSET Resources /\ holds[r] \ {x} \in SUBSET Resources
      BY <1>0
    <3> QED
      BY <1>0, <2>2, <3>1
  <2> QED
    BY <1>0, <2>1, <2>2
<1>c. /\ tenant' \in [Requests -> Tenants] /\ kind' \in [Requests -> Kinds]
      /\ active' \in [Tenants -> Nat]
  <2>1. ASSUME NEW r \in Requests,
               \/ TryGlobal(r) \/ GlobalFull(r) \/ TakeQueueSlot(r) \/ QueueFull(r)
               \/ CountQueued(r) \/ Enqueue(r) \/ PickUp(r) \/ Uncount(r)
               \/ ReturnQueueSlot(r) \/ Admit(r) \/ TakeStream(r) \/ RefuseStream(r)
               \/ Finish(r) \/ DropGlobal(r) \/ DropStream(r) \/ QueueTimeout(r) \/ Cancel(r)
        PROVE  UNCHANGED <<tenant, kind, active>>
    BY <2>1 DEF TryGlobal, GlobalFull, TakeQueueSlot, QueueFull, CountQueued, Enqueue,
       PickUp, Uncount, ReturnQueueSlot, Admit, TakeStream, RefuseStream, Finish,
       DropGlobal, DropStream, QueueTimeout, Cancel, table
  <2>2. ASSUME NEW r \in Requests, Reserve(r)
        PROVE  /\ UNCHANGED <<tenant, kind>>
               /\ active' = active \/ active' = [active EXCEPT ![tenant[r]] = @ + 1]
    BY <2>2 DEF Reserve, table
  <2>3. ASSUME NEW r \in Requests, DropTenant(r)
        PROVE  /\ UNCHANGED <<tenant, kind>>
               /\ \E n \in Nat : active' = [active EXCEPT ![tenant[r]] = n]
    <3>1. (IF active[tenant[r]] = 0 THEN 0 ELSE active[tenant[r]] - 1) \in Nat
      BY <1>0
    <3> QED
      BY <2>3, <3>1 DEF DropTenant, table
  <2>4. ASSUME NEW r \in Requests, NEW t \in Tenants, NEW k \in Kinds,
               RefuseTenant(r, t, k) \/ Again(r, t, k)
        PROVE  /\ UNCHANGED active /\ tenant' = [tenant EXCEPT ![r] = t]
               /\ kind' = [kind EXCEPT ![r] = k]
    BY <2>4 DEF RefuseTenant, Again
  <2>5. CASE UNCHANGED vars
    BY <1>0, <2>5 DEF vars, table
  <2>6. ASSUME NEW r \in Requests,
               \/ UNCHANGED <<tenant, kind, active>>
               \/ /\ UNCHANGED <<tenant, kind>>
                  /\ \E n \in Nat : active' = [active EXCEPT ![tenant[r]] = n]
        PROVE  /\ tenant' \in [Requests -> Tenants] /\ kind' \in [Requests -> Kinds]
               /\ active' \in [Tenants -> Nat]
    BY <1>0, <2>6
  <2>7. ASSUME NEW r \in Requests, Reserve(r)
        PROVE  \/ UNCHANGED <<tenant, kind, active>>
               \/ /\ UNCHANGED <<tenant, kind>>
                  /\ \E n \in Nat : active' = [active EXCEPT ![tenant[r]] = n]
    <3>1. active[tenant[r]] + 1 \in Nat
      BY <1>0
    <3> QED
      BY <2>2, <2>7, <3>1
  <2>8. ASSUME NEW r \in Requests, NEW t \in Tenants, NEW k \in Kinds,
               RefuseTenant(r, t, k) \/ Again(r, t, k)
        PROVE  /\ tenant' \in [Requests -> Tenants] /\ kind' \in [Requests -> Kinds]
               /\ active' \in [Tenants -> Nat]
    <3>1. tenant \in [Requests -> Tenants] /\ kind \in [Requests -> Kinds] /\ active \in [Tenants -> Nat]
      BY <1>0
    <3>2. /\ UNCHANGED active /\ tenant' = [tenant EXCEPT ![r] = t] /\ kind' = [kind EXCEPT ![r] = k]
      BY <2>4, <2>8
    <3> QED
      BY <3>1, <3>2
  <2> QED
    BY <2>1, <2>3, <2>5, <2>6, <2>7, <2>8 DEF Next, Run
<1>d. slots' \in Nat /\ current' \in Nat /\ streams' \in Nat
  <2>1. ASSUME NEW r \in Requests, Uncount(r) PROVE current' \in Nat /\ UNCHANGED <<slots, streams>>
    <3>1. r \in Queued /\ Queued \in SUBSET Requests
      BY <2>1 DEF Uncount, Queued, Counted
    <3>2. current > 0
      BY <3>1, CardRemove DEF QueueExact
    <3> QED
      BY <1>0, <2>1, <3>2 DEF Uncount
  <2>2. ASSUME NEW r \in Requests,
               \/ TryGlobal(r) \/ GlobalFull(r) \/ TakeQueueSlot(r) \/ QueueFull(r)
               \/ CountQueued(r) \/ Enqueue(r) \/ PickUp(r) \/ ReturnQueueSlot(r)
        PROVE  slots' \in Nat /\ current' \in Nat /\ streams' \in Nat
    BY <1>0, <2>2 DEF TryGlobal, GlobalFull, TakeQueueSlot, QueueFull, CountQueued, Enqueue,
       PickUp, ReturnQueueSlot, queue
  <2>3. ASSUME NEW r \in Requests,
               \/ Admit(r) \/ TakeStream(r) \/ RefuseStream(r) \/ Finish(r) \/ DropGlobal(r)
               \/ DropStream(r) \/ DropTenant(r) \/ Reserve(r) \/ QueueTimeout(r) \/ Cancel(r)
               \/ \E t \in Tenants, k \in Kinds : RefuseTenant(r, t, k) \/ Again(r, t, k)
        PROVE  slots' \in Nat /\ current' \in Nat /\ streams' \in Nat
    BY <1>0, <2>3 DEF Admit, TakeStream, RefuseStream, Finish, DropGlobal, DropStream,
       DropTenant, Reserve, QueueTimeout, Cancel, RefuseTenant, Again, queue
  <2>4. CASE UNCHANGED vars
    BY <1>0, <2>4 DEF vars, queue
  <2> QED
    BY <1>0, <2>1, <2>2, <2>3, <2>4 DEF Next, Run
<1>e. free' \in Nat /\ waiters' \in Seq(Requests) /\ assigned' \subseteq Requests
  <2>0. free \in Nat /\ waiters \in Seq(Requests) /\ assigned \subseteq Requests
    BY <1>0
  <2>1. ASSUME waiters # <<>> PROVE Head(waiters) \in Requests /\ Tail(waiters) \in Seq(Requests)
    BY <1>0, <2>1, HeadTailProperties
  <2>2. ASSUME NEW r \in Requests, Withdraw(r) PROVE waiters' \in Seq(Requests)
    BY <1>0, <2>2, RemoveAtLemma DEF Withdraw
  <2>3. ASSUME NEW r \in Requests, Enqueue(r)
        PROVE  free' \in Nat /\ waiters' \in Seq(Requests) /\ assigned' \subseteq Requests
    <3>1. Append(waiters, r) \in Seq(Requests)
      BY <1>0, AppendProperties
    <3>2. /\ assigned' = assigned
          /\ \/ waiters' = waiters /\ free > 0 /\ free' = free - 1
             \/ waiters' = Append(waiters, r) /\ free' = free
      BY <2>3 DEF Enqueue
    <3> QED
      BY <2>0, <3>1, <3>2
  <2>4. ASSUME NEW r \in Requests, TryGlobal(r) \/ PickUp(r) \/ QueueTimeout(r)
        PROVE  free' \in Nat /\ waiters' \in Seq(Requests) /\ assigned' \subseteq Requests
    BY <1>0, <2>2, <2>4 DEF TryGlobal, PickUp, QueueTimeout
  <2>5. ASSUME NEW r \in Requests, Cancel(r)
        PROVE  free' \in Nat /\ waiters' \in Seq(Requests) /\ assigned' \subseteq Requests
    <3>1. \/ free' = free + 1 /\ assigned' = assigned \ {r} /\ waiters' = waiters
          \/ /\ waiters # <<>> /\ waiters' = Tail(waiters) /\ free' = free
             /\ assigned' = (assigned \ {r}) \cup {Head(waiters)}
          \/ Withdraw(r) /\ UNCHANGED <<free, assigned>>
      BY <2>5 DEF Cancel
    <3> QED
      BY <2>0, <2>1, <2>2, <3>1
  <2>6. ASSUME NEW r \in Requests, DropGlobal(r)
        PROVE  free' \in Nat /\ waiters' \in Seq(Requests) /\ assigned' \subseteq Requests
    <3>1. \/ free' = free + 1 /\ assigned' = assigned /\ waiters' = waiters
          \/ /\ waiters # <<>> /\ waiters' = Tail(waiters) /\ free' = free
             /\ assigned' = assigned \cup {Head(waiters)}
      BY <2>6 DEF DropGlobal, Release
    <3> QED
      BY <2>0, <2>1, <3>1
  <2>7. ASSUME NEW r \in Requests,
               \/ GlobalFull(r) \/ TakeQueueSlot(r) \/ QueueFull(r) \/ CountQueued(r)
               \/ Uncount(r) \/ ReturnQueueSlot(r) \/ Admit(r) \/ TakeStream(r)
               \/ RefuseStream(r) \/ Finish(r) \/ DropStream(r) \/ DropTenant(r) \/ Reserve(r)
               \/ \E t \in Tenants, k \in Kinds : RefuseTenant(r, t, k) \/ Again(r, t, k)
        PROVE  UNCHANGED semaphore
    BY <2>7 DEF GlobalFull, TakeQueueSlot, QueueFull, CountQueued, Uncount, ReturnQueueSlot,
       Admit, TakeStream, RefuseStream, Finish, DropStream, DropTenant, Reserve,
       RefuseTenant, Again
  <2>8. CASE UNCHANGED semaphore
    BY <1>0, <2>8 DEF semaphore
  <2> QED
    BY <2>3, <2>4, <2>5, <2>6, <2>7, <2>8 DEF Next, Run, vars
<1> QED
  BY <1>0, <1>a, <1>b, <1>c, <1>d, <1>e DEF TypeOK

-----------------------------------------------------------------------------
(* The theorems *)

\* At boot nothing is held, nobody waits, and every semaphore is full.
LEMMA InitIInv == Init => IInv
<1> SUFFICES ASSUME Init PROVE IInv
  OBVIOUS
<1> USE DEF Init
<1>0. /\ limits.max_in_flight \in Nat /\ limits.max_in_flight_streams \in Nat
      /\ limits.max_in_flight_per_tenant \in Nat /\ limits.max_tenants \in Nat
      /\ limits.queue_capacity \in Nat
  BY AdmissionAssumption DEF LimitType
<1>1. TypeOK
  BY <1>0 DEF TypeOK, Points, Resources
<1>2. Lined
  BY DEF Lined, InLine
<1>3. HoldsMatch
  BY DEF HoldsMatch, MayHold
<1>4. /\ Holders("global") = {} /\ Holders("stream") = {} /\ Entries = {}
      /\ Queued = {} /\ InSlot = {} /\ \A t \in Tenants : Of(t) = {}
  BY DEF Holders, Entries, Queued, InSlot, Slotted, Counted, Of
<1>5. /\ Cardinality(Holders("global")) = 0 /\ Cardinality(Holders("stream")) = 0
      /\ Cardinality(assigned) = 0 /\ Cardinality(Entries) = 0
      /\ Cardinality(Queued) = 0 /\ Cardinality(InSlot) = 0
      /\ \A t \in Tenants : Cardinality(Of(t)) = 0
  BY <1>4, FS_EmptySet
<1>6. GlobalConserved
  BY <1>0, <1>5 DEF GlobalConserved
<1>7. QueueExact /\ StreamsExact
  BY <1>0, <1>5 DEF QueueExact, StreamsExact
<1>8. TenantsExact
  BY <1>0, <1>5 DEF TenantsExact
<1> QED
  BY <1>1, <1>2, <1>3, <1>6, <1>7, <1>8 DEF IInv

\* The inductive invariant holds of every run of the gate.
THEOREM Invariance == Spec => []IInv
<1>1. IInv /\ [Next]_vars => IInv'
  BY TypeStep, LinedStep, HoldsStep, GlobalStep, QueueStep, TenantsStep, StreamsStep DEF IInv
<1> QED
  BY InitIInv, <1>1, PTL DEF Spec

\* No permit, queue slot or queue position is lost or granted twice, whichever
\* way requests are refused, time out in the queue, are dropped by their
\* callers or end, and try_acquire never overtakes the queue.
THEOREM QueueTheorem == Spec => []QueueConserved
<1>1. IInv => QueueConserved
  <2> SUFFICES ASSUME IInv PROVE QueueConserved
    OBVIOUS
  <2>1. Queued \in SUBSET InSlot /\ InSlot \in SUBSET Requests
    BY DEF Queued, InSlot, Slotted
  <2>2. Cardinality(Queued) <= Cardinality(InSlot)
    BY <2>1, RequestsFinite, FS_Subset
  <2>3. Cardinality(Queued) \in Nat /\ Cardinality(InSlot) \in Nat
    BY <2>1, RequestsFinite
  <2>4. current <= limits.queue_capacity
    BY <2>2, <2>3, LimitsType DEF IInv, QueueExact, TypeOK
  <2> QED
    BY <2>4 DEF IInv, QueueConserved, QueueExact, GlobalConserved, Queued, InSlot
<1> QED
  BY Invariance, <1>1, PTL

\* The tenant table counts the requests of each tenant exactly, within both of
\* its bounds, and a stream slot is never lost: no release saturates.
THEOREM CeilingsTheorem == Spec => []CeilingsKept
<1>1. IInv => CeilingsKept
  BY DEF IInv, CeilingsKept, TenantsExact, StreamsExact, HoldsMatch, MayHold, Of, Holders
<1> QED
  BY Invariance, <1>1, PTL

=============================================================================
