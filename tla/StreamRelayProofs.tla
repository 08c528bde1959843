------------------------- MODULE StreamRelayProofs -------------------------
(***************************************************************************)
(* For any number of requests, targets, keys and configurations: a target  *)
(* or a key is out of rotation on its own evidence only, a record counts   *)
(* the targets that were called, and what a caller receives is one         *)
(* completion of one key.                                                  *)
(***************************************************************************)
EXTENDS StreamRelay, FiniteSetTheorems, SequenceTheorems, WellFoundedInduction, TLAPS

\* The breaker of a target counts its faults up to the threshold and is closed
\* below it; a key's health counts its strikes in the same way.
OnFaults(k, n) == IF k.state = "Closed" THEN k.failures = n /\ n < conf.threshold
                  ELSE n = conf.threshold
OnStrikes(h, n) == /\ h.failures = n
                   /\ h.parked # "no" => n = conf.failure_threshold
Evidence == /\ \A t \in Targets : OnFaults(circuit[t], faults[t])
            /\ \A c \in Creds : OnStrikes(health[c], strikes[c])

\* The bound on the attempts of a walk with locals m.
Most(m) == IF m.route \in {"responses", "continuation"} THEN 1 ELSE conf.max_attempts

\* A target has been called and not yet counted as an attempt.
Begun(p, m) == p \in {"lease", "calling"} /\ ~m.fresh

\* Where a walk with locals m may be at point p.
Placed(p, m) ==
  /\ m.index > 0
  /\ p \in {"plan", "lease", "calling"} => m.index <= Len(conf.chain)
  /\ p = "plan" => m.fresh /\ (m.order # <<>> \/ m.plan # <<>> \/ m.parked # <<>>)
  /\ p = "calling" => ~m.fresh
  /\ p \in {"lease", "calling"} => m.plan # <<>>

\* The attempts are the targets called, each position once, and within bound.
Tallied(p, m) ==
  /\ IsFiniteSet(m.called)
  /\ Begun(p, m) => /\ m.index \in m.called /\ \A i \in m.called : i <= m.index
                    /\ Cardinality(m.called) = m.attempts + 1
  /\ ~Begun(p, m) => Cardinality(m.called) = m.attempts
  /\ ~Begun(p, m) /\ p # "relay" => \A i \in m.called : i < m.index
  /\ m.attempts <= Most(m)
  /\ p \in {"plan", "lease", "calling"} => m.attempts < Most(m)

\* A record that agrees with what happened.
Honest(u, t) ==
  u # NoRecord => /\ u.attempts = t.calls
                  /\ t.sources \subseteq {u.credential}
                  /\ "text" \in t.produced => u.charge # "none"
                  /\ t.produced = {} => u.charge = "none"

\* A relay's own measures show what its keys produced.
Measured(m) == /\ "text" \in m.made => m.text \/ m.carried
               /\ m.made = {} => ~(m.text \/ m.usage \/ m.carried)

\* A relay with what it queued: one key's, and nothing while it may still move.
Single(p, m, w) ==
  /\ m.credential = m.serving /\ w \subseteq {m.serving}
  /\ ~m.queued => w = {}
  /\ m.phase = "Rotating" => ~m.queued
  /\ p # "relay" => m = NoRelay /\ w = {}
  /\ p = "relay" => m.serving # "none"
  /\ Measured(m)

RequestInv(r) == /\ Placed(pc[r], walk[r]) /\ Tallied(pc[r], walk[r])
                 /\ Honest(record[r], truth[r])
                 /\ Single(pc[r], relay[r], wire[r])

\* The inductive invariant.
IInv == /\ TypeOK /\ relay \in [Requests -> RelayType] /\ wire \in [Requests -> SUBSET Creds]
        /\ Evidence /\ \A r \in Requests : RequestInv(r)

-----------------------------------------------------------------------------
(* The pool's ladder of weights and its rotation *)

\* A set of naturals that is not empty has a least element.
LEMMA LeastNatural ==
  ASSUME NEW S \in SUBSET Nat, S # {}
  PROVE  \E n \in S : \A m \in S : n <= m
<1> DEFINE R == OpToRel(<, Nat)
<1>1. IsWellFoundedOn(R, Nat)
  BY NatLessThanWellFounded
<1>2. \A x, y \in Nat : <<x, y>> \in R <=> x < y
  BY DEF OpToRel
<1> HIDE DEF R
<1>3. PICK x \in S : \A y \in S : <<y, x>> \notin R
  BY <1>1, WFMin
<1>4. \A y \in S : ~ (y < x)
  BY <1>2, <1>3
<1> QED
  BY <1>4

\* Partial sums of a sequence of naturals exist.
SumsTo(f, w, n) == /\ f \in [0 .. n -> Nat] /\ f[0] = 0
                   /\ \A i \in 1 .. n : f[i] = f[i - 1] + w[i]

LEMMA SumsExist ==
  ASSUME NEW N \in Nat, NEW w \in [1 .. N -> Nat]
  PROVE  \E f : SumsTo(f, w, N)
<1> DEFINE Bad == {n \in 0 .. N : ~ \E f : SumsTo(f, w, n)}
<1>0. N \in 0 .. N
  OBVIOUS
<1> SUFFICES ASSUME Bad # {} PROVE FALSE
  BY <1>0
<1>1. PICK b \in Bad : \A m \in Bad : b <= m
  <2>1. Bad \in SUBSET Nat
    OBVIOUS
  <2> HIDE DEF Bad
  <2> QED
    BY <2>1, LeastNatural
<1>2. b \in 0 .. N /\ ~ \E f : SumsTo(f, w, b)
  OBVIOUS
<1>3. b # 0
  <2>1. SumsTo([i \in 0 .. 0 |-> 0], w, 0)
    BY DEF SumsTo
  <2> QED
    BY <1>2, <2>1
<1>4. b - 1 \in 0 .. N /\ b - 1 \notin Bad
  BY <1>1, <1>2, <1>3
<1>5. PICK f : SumsTo(f, w, b - 1)
  BY <1>4
<1> DEFINE g == [i \in 0 .. b |-> IF i = b THEN f[b - 1] + w[b] ELSE f[i]]
<1>6. SumsTo(g, w, b)
  <2>1. f \in [0 .. b - 1 -> Nat] /\ f[0] = 0 /\ \A i \in 1 .. b - 1 : f[i] = f[i - 1] + w[i]
    BY <1>5 DEF SumsTo
  <2>2. f[b - 1] + w[b] \in Nat
    BY <1>2, <1>3, <2>1
  <2>3. g \in [0 .. b -> Nat] /\ g[0] = 0
    BY <1>2, <1>3, <2>1, <2>2
  <2>4. ASSUME NEW i \in 1 .. b PROVE g[i] = g[i - 1] + w[i]
    BY <1>2, <1>3, <2>1
  <2> QED
    BY <2>3, <2>4 DEF SumsTo
<1> QED
  BY <1>2, <1>6

LEMMA LadderSums ==
  ASSUME conf \in ConfigType, NEW pool \in Seq(Creds)
  PROVE  SumsTo(Ladder(pool), [i \in 1 .. Len(pool) |-> conf.weight[pool[i]]], Len(pool))
<1> DEFINE n == Len(pool)
           w == [i \in 1 .. n |-> conf.weight[pool[i]]]
           Is(f) == f = [i \in 0 .. n |-> IF i = 0 THEN 0 ELSE f[i - 1] + conf.weight[pool[i]]]
<1>1. n \in Nat /\ w \in [1 .. n -> Nat]
  BY DEF ConfigType
<1>2. PICK f : SumsTo(f, w, n)
  <2> HIDE DEF n, w
  <2> QED
    BY <1>1, SumsExist
<1>3. Is(f)
  BY <1>1, <1>2 DEF SumsTo
<1>4. Ladder(pool) = CHOOSE g : Is(g)
  BY DEF Ladder
<1>5. Is(Ladder(pool))
  <2> HIDE DEF Is
  <2> QED
    BY <1>3, <1>4
<1> DEFINE L == Ladder(pool)
<1>6. L = [i \in 0 .. n |-> IF i = 0 THEN 0 ELSE L[i - 1] + conf.weight[pool[i]]]
  BY <1>5
<1> HIDE DEF L
<1>7. L[0] = 0 /\ \A i \in 1 .. n : L[i] = L[i - 1] + w[i]
  BY <1>1, <1>6
<1>8. \A i \in 0 .. n : L[i] \in Nat
  <2> DEFINE Bad == {i \in 0 .. n : L[i] \notin Nat}
  <2> SUFFICES ASSUME Bad # {} PROVE FALSE
    OBVIOUS
  <2>1. PICK b \in Bad : \A m \in Bad : b <= m
    <3>1. Bad \in SUBSET Nat
      BY <1>1
    <3> HIDE DEF Bad
    <3> QED
      BY <3>1, LeastNatural
  <2>2. b \in 1 .. n /\ b - 1 \in 0 .. n /\ b - 1 \notin Bad
    BY <1>1, <1>7, <2>1
  <2>3. L[b - 1] \in Nat /\ w[b] \in Nat
    <3> HIDE DEF w
    <3> QED
      BY <1>1, <2>2
  <2> HIDE DEF w
  <2> QED
    BY <1>7, <2>1, <2>2, <2>3
<1>9. L \in [0 .. n -> Nat]
  BY <1>6, <1>8
<1> QED
  BY <1>7, <1>9 DEF SumsTo, L

LEMMA TotalWeightType ==
  ASSUME conf \in ConfigType, NEW pool \in Seq(Creds)
  PROVE  TotalWeight(pool) \in Nat \ {0}
<1>1. Ladder(pool)[Len(pool)] \in Nat
  BY LadderSums DEF SumsTo
<1> QED
  BY <1>1 DEF TotalWeight

LEMMA StartType ==
  ASSUME conf \in ConfigType, NEW pool \in Seq(Creds), NEW tick \in Nat, pool # <<>>
  PROVE  Start(pool, tick) \in 1 .. Len(pool)
<1> DEFINE above == {i \in 1 .. Len(pool) : tick < Ladder(pool)[i]}
<1>1. Len(pool) \in Nat \ {0}
  BY EmptySeq, LenProperties
<1>2. CASE above = {}
  BY <1>1, <1>2 DEF Start
<1>3. CASE above # {}
  <2>1. above \in SUBSET Nat /\ above \subseteq 1 .. Len(pool)
    BY <1>1
  <2>2. Start(pool, tick) = CHOOSE i \in above : \A j \in above : i <= j
    BY <1>3 DEF Start
  <2> HIDE DEF above
  <2>3. \E i \in above : \A j \in above : i <= j
    BY <1>3, <2>1, LeastNatural
  <2> QED
    BY <2>1, <2>2, <2>3
<1> QED
  BY <1>2, <1>3

LEMMA RotationType ==
  ASSUME conf \in ConfigType, NEW pool \in Seq(Creds), NEW tick \in Nat, pool # <<>>
  PROVE  Rotation(pool, tick) \in Seq(Creds) /\ Rotation(pool, tick) # <<>>
<1> DEFINE n == Len(pool)
           at(i) == ((Start(pool, tick) + i - 2) % n) + 1
<1>1. n \in Nat \ {0} /\ Start(pool, tick) \in 1 .. n /\ pool \in [1 .. n -> Creds]
  BY StartType, EmptySeq, LenProperties
<1>2. ASSUME NEW i \in 1 .. n PROVE at(i) \in 1 .. n
  <2>1. Start(pool, tick) + i - 2 \in Int
    BY <1>1
  <2>2. \A x \in Int : x % n \in 0 .. n - 1
    BY <1>1
  <2>3. (Start(pool, tick) + i - 2) % n \in 0 .. n - 1
    BY <2>1, <2>2
  <2> HIDE DEF n
  <2>4. \A x \in 0 .. n - 1 : x + 1 \in 1 .. n
    BY <1>1
  <2> QED
    BY <2>3, <2>4
<1>3. Rotation(pool, tick) = [i \in 1 .. n |-> pool[at(i)]]
  BY DEF Rotation
<1> HIDE DEF at, n
<1>4. Rotation(pool, tick) \in [1 .. n -> Creds]
  BY <1>1, <1>2, <1>3
<1>5. Rotation(pool, tick) \in Seq(Creds) /\ Len(Rotation(pool, tick)) = n
  BY <1>1, <1>4, IsASeq, LenProperties
<1> QED
  BY <1>1, <1>5, EmptySeq

-----------------------------------------------------------------------------
(* What a step does to the state the walks share *)

Faulted(t) == /\ circuit' = [circuit EXCEPT ![t] = AfterFailure(@)]
              /\ faults' = [faults EXCEPT ![t] = Capped(@ + 1, conf.threshold)]
Probed(t) == circuit' = [circuit EXCEPT ![t] = AfterAllow(@)] /\ UNCHANGED faults
Cools(t) == circuit' = [circuit EXCEPT ![t] = Cooled(@)] /\ UNCHANGED faults
CircuitMoves ==
  \/ UNCHANGED <<circuit, faults>>
  \/ \E t : Faulted(t) \/ RecordTargetSuccess(t) \/ Probed(t) \/ Cools(t)

Retaken(c) == Classified(c) /\ UNCHANGED strikes
Ripens(c) == /\ health[c].parked = "cooling"
             /\ health' = [health EXCEPT ![c].parked = "due"] /\ UNCHANGED strikes
HealthMoves ==
  \/ UNCHANGED <<health, strikes>>
  \/ \E c : CredSuccess(c) \/ CredFailure(c) \/ Retaken(c) \/ Ripens(c)

CursorMoves ==
  \/ UNCHANGED cursor
  \/ \E p \in Providers : cursor' = [cursor EXCEPT ![p] = (@ + 1) % TotalWeight(conf.pool[p])]

SharedMoves == conf' = conf /\ up' \in {up, TRUE} /\ CircuitMoves /\ HealthMoves /\ CursorMoves

LEMMA FailureMoves ==
  ASSUME NEW t, NEW o, RecordTargetFailure(t, o) PROVE CircuitMoves
<1>1. TargetScoped(o) <=> o = "fault"
  BY DEF TargetScoped, AffectsProviderHealth, CredentialExhausted, NeverDispatched
<1>2. CASE o = "fault"
  BY <1>1, <1>2 DEF RecordTargetFailure, CircuitMoves, Faulted
<1>3. CASE o # "fault"
  BY <1>1, <1>3 DEF RecordTargetFailure, CircuitMoves
<1> QED
  BY <1>2, <1>3

\* The walk's own steps and the world's.
LEMMA WalkShares ==
  ASSUME TypeOK, \A r \in Requests : Placed(pc[r], walk[r]), WalkAlone PROVE SharedMoves
<1>1. ASSUME NEW r \in Requests, Arrival(r) PROVE SharedMoves
  BY <1>1 DEF Arrival, Arrive, shared, SharedMoves, CircuitMoves, HealthMoves, CursorMoves
<1>2. ASSUME NEW r \in Requests, WalkStep(r) PROVE SharedMoves
  <2>1. CASE GiveUp(r) \/ SkipOpen(r) \/ Planned(r) \/ OpenLease(r)
    BY <2>1 DEF GiveUp, SkipOpen, Planned, OpenLease, shared, history, SharedMoves, CircuitMoves,
                HealthMoves, CursorMoves
  <2>2. CASE EnterTarget(r)
    <3>1. /\ walk[r].index \in 1 .. Len(conf.chain) /\ conf \in ConfigType
      BY <2>2, DispatchAssumption DEF EnterTarget, Over, TypeOK, WalkType, Placed
    <3>2. conf.provider[Target(r)] \in Providers
      BY <3>1 DEF ConfigType, Target
    <3>3. CursorMoves
      BY <2>2, <3>2 DEF EnterTarget, CursorMoves, Pool
    <3>4. Probed(Target(r)) /\ UNCHANGED <<conf, health, up, strikes>>
      BY <2>2 DEF EnterTarget, Probed
    <3> QED
      BY <3>3, <3>4 DEF SharedMoves, CircuitMoves, HealthMoves
  <2>3. CASE Classify(r)
    <3>1. Retaken(Head(walk[r].order)) /\ UNCHANGED <<conf, circuit, cursor, up, faults>>
      BY <2>3 DEF Classify, Retaken, history
    <3> QED
      BY <3>1 DEF SharedMoves, CircuitMoves, HealthMoves, CursorMoves
  <2> QED
    BY <1>2, <2>1, <2>2, <2>3 DEF WalkStep
<1>3. ASSUME NEW r \in Requests, Reply(r) PROVE SharedMoves
  <2>1. CASE Served(r)
    BY <2>1 DEF Served, SharedMoves, CircuitMoves, HealthMoves, CursorMoves
  <2>2. CASE NextLease(r)
    BY <2>2 DEF NextLease, SharedMoves, CircuitMoves, HealthMoves, CursorMoves
  <2>3. ASSUME NEW o \in Outcomes, AttemptFails(r, o) PROVE SharedMoves
    <3>1. CircuitMoves
      BY <2>3, FailureMoves DEF AttemptFails
    <3>2. HealthMoves
      BY <2>3 DEF AttemptFails, HealthMoves
    <3> QED
      BY <2>3, <3>1, <3>2 DEF AttemptFails, SharedMoves, CursorMoves
  <2> QED
    BY <1>3, <2>1, <2>2, <2>3 DEF Reply
<1>4. CASE World
  <2>1. ASSUME NEW r \in Requests, BudgetSpent(r) \/ Cancel(r) PROVE SharedMoves
    BY <2>1 DEF BudgetSpent, Cancel, shared, history, SharedMoves, CircuitMoves, HealthMoves,
                CursorMoves
  <2>2. ASSUME NEW t \in Targets, CooldownElapses(t) PROVE SharedMoves
    BY <2>2 DEF CooldownElapses, Cools, history, SharedMoves, CircuitMoves, HealthMoves,
                CursorMoves
  <2>3. ASSUME NEW c \in Creds, ParkElapses(c) PROVE SharedMoves
    BY <2>3 DEF ParkElapses, Ripens, history, SharedMoves, CircuitMoves, HealthMoves, CursorMoves
  <2>4. CASE Recovers
    BY <2>4 DEF Recovers, history, SharedMoves, CircuitMoves, HealthMoves, CursorMoves
  <2> QED
    BY <1>4, <2>1, <2>2, <2>3, <2>4 DEF World
<1> QED
  BY <1>1, <1>2, <1>3, <1>4 DEF WalkAlone

\* A relay touches only the health of a key, and an opened stream the circuit
\* of its target.
LEMMA RelayShares ==
  ASSUME NEW r \in Requests, OpenRelay(r) \/ Upstream(r) \/ Downstream(r) PROVE SharedMoves
<1> USE DEF SharedMoves, CircuitMoves, HealthMoves, CursorMoves, KeepShared, KeepKeys, Relaying
<1>1. CASE OpenRelay(r)
  BY <1>1 DEF OpenRelay, Opened
<1>2. CASE Upstream(r)
  <2>1. CASE RateLimitEvent(r) \/ RotationLimited(r)
    BY <2>1 DEF RateLimitEvent, RotationLimited
  <2>2. CASE ~(RateLimitEvent(r) \/ RotationLimited(r))
    BY <1>2, <2>2 DEF Upstream, DataEvent, UpstreamEnds, PassBytes, BadEvent, TooLarge,
                      UpstreamBreaks, DoneEvent, RotationEnds, RotationOpens
  <2> QED
    BY <2>1, <2>2
<1>3. CASE Downstream(r)
  <2>1. CASE Finish(r)
    BY <2>1 DEF Finish
  <2>2. CASE ~Finish(r)
    BY <1>3, <2>2 DEF Downstream, Deliver, TellFailure, SentinelTooLarge, DropBody
  <2> QED
    BY <2>1, <2>2
<1> QED
  BY <1>1, <1>2, <1>3

SharedType ==
  /\ conf \in Configs
  /\ circuit \in [Targets -> [state : {"Closed", "Open", "HalfOpen"},
                              failures : Nat, due : BOOLEAN]]
  /\ health \in [Creds -> [failures : Nat, parked : {"no", "cooling", "due"}]]
  /\ cursor \in [Providers -> Nat]
  /\ up \in BOOLEAN
  /\ faults \in [Targets -> Nat] /\ strikes \in [Creds -> Nat]

LEMMA ConfFacts ==
  ASSUME conf \in Configs
  PROVE  /\ conf \in ConfigType /\ conf.max_attempts \in Nat \ {0}
         /\ conf.threshold \in Nat \ {0} /\ conf.failure_threshold \in Nat \ {0}
         /\ conf.chain \in Seq(Targets) /\ conf.provider \in [Targets -> Providers]
         /\ conf.pool \in [Providers -> Seq(Creds)]
<1>1. conf \in ConfigType
  BY DispatchAssumption
<1> QED
  BY <1>1, DispatchAssumption DEF ConfigType

LEMMA EvidenceStep ==
  ASSUME SharedType, Evidence, SharedMoves PROVE SharedType' /\ Evidence'
<1> DEFINE KType == [state : {"Closed", "Open", "HalfOpen"}, failures : Nat, due : BOOLEAN]
           HType == [failures : Nat, parked : {"no", "cooling", "due"}]
<1>0. /\ conf' = conf /\ conf.threshold \in Nat \ {0} /\ conf.failure_threshold \in Nat \ {0}
      /\ conf \in ConfigType /\ conf.pool \in [Providers -> Seq(Creds)]
  BY ConfFacts DEF SharedType, SharedMoves
<1>1. /\ circuit' \in [Targets -> KType] /\ faults' \in [Targets -> Nat]
      /\ \A t \in Targets : OnFaults(circuit[t], faults[t])'
  <2>1. CASE UNCHANGED <<circuit, faults>>
    BY <1>0, <2>1 DEF SharedType, Evidence, OnFaults
  <2>2. ASSUME NEW t, Faulted(t) \/ RecordTargetSuccess(t) \/ Probed(t) \/ Cools(t)
        PROVE  /\ circuit' \in [Targets -> KType] /\ faults' \in [Targets -> Nat]
               /\ \A x \in Targets : OnFaults(circuit[x], faults[x])'
    <3>1. PICK k, n : /\ circuit' = [circuit EXCEPT ![t] = k] /\ faults' = [faults EXCEPT ![t] = n]
                      /\ \/ k = AfterFailure(circuit[t]) /\ n = Capped(faults[t] + 1, conf.threshold)
                         \/ k = AfterSuccess(circuit[t]) /\ n = 0
                         \/ k = AfterAllow(circuit[t]) /\ n = faults[t]
                         \/ k = Cooled(circuit[t]) /\ n = faults[t]
      <4>1. faults = [faults EXCEPT ![t] = faults[t]]
        BY DEF SharedType
      <4> QED
        BY <2>2, <4>1 DEF Faulted, RecordTargetSuccess, Probed, Cools
    <3>2. ASSUME t \in Targets
          PROVE  /\ k \in KType /\ n \in Nat
                 /\ IF k.state = "Closed" THEN k.failures = n /\ n < conf.threshold
                                          ELSE n = conf.threshold
      <4>1. circuit[t] \in KType /\ faults[t] \in Nat /\ OnFaults(circuit[t], faults[t])
        BY <3>2 DEF SharedType, Evidence
      <4>2. PICK c : c = circuit[t]
        OBVIOUS
      <4>3. PICK f : f = faults[t]
        OBVIOUS
      <4>4. /\ c \in KType /\ f \in Nat /\ conf.threshold \in Nat \ {0}
            /\ IF c.state = "Closed" THEN c.failures = f /\ f < conf.threshold
                                     ELSE f = conf.threshold
        BY <1>0, <4>1, <4>2, <4>3 DEF OnFaults
      <4>5. CASE k = AfterFailure(c) /\ n = Capped(f + 1, conf.threshold)
        <5>1. n = IF f + 1 < conf.threshold THEN f + 1 ELSE conf.threshold
          BY <4>5 DEF Capped
        <5>2. CASE c.state = "Closed"
          <6>1. k = [c EXCEPT !.failures = c.failures + 1,
                              !.state = IF c.failures + 1 >= conf.threshold THEN "Open"
                                        ELSE c.state]
            BY <4>5, <5>2 DEF AfterFailure
          <6>2. /\ k \in KType /\ k.failures = f + 1
                /\ k.state = IF f + 1 >= conf.threshold THEN "Open" ELSE "Closed"
            <7>1. /\ c.failures = f /\ c.failures + 1 \in Nat /\ c.due \in BOOLEAN
                  /\ DOMAIN c = {"state", "failures", "due"}
              BY ONLY <4>4, <5>2
            <7>2. k = [state |-> IF f + 1 >= conf.threshold THEN "Open" ELSE "Closed",
                       failures |-> f + 1, due |-> c.due]
              BY ONLY <4>4, <5>2, <6>1, <7>1
            <7> QED
              BY <7>1, <7>2
          <6>3. n = f + 1 /\ n \in Nat /\ (f + 1 >= conf.threshold => n = conf.threshold)
            BY ONLY <4>4, <5>1, <5>2
          <6> QED
            BY ONLY <4>4, <6>2, <6>3
        <5>3. CASE c.state = "HalfOpen"
          <6>1. k = [state |-> "Open", failures |-> conf.threshold, due |-> FALSE]
            BY <4>5, <5>3 DEF AfterFailure
          <6> QED
            BY ONLY <4>4, <5>1, <5>3, <6>1
        <5>4. CASE c.state = "Open"
          <6>1. k = c
            BY <4>5, <5>4 DEF AfterFailure
          <6> QED
            BY ONLY <4>4, <5>1, <5>4, <6>1
        <5> QED
          BY <4>4, <5>2, <5>3, <5>4
      <4>6. CASE k = AfterSuccess(c) /\ n = 0
        BY ONLY <4>4, <4>6 DEF AfterSuccess
      <4>7. CASE k = AfterAllow(c) /\ n = f
        BY ONLY <4>4, <4>7 DEF AfterAllow
      <4>8. CASE k = Cooled(c) /\ n = f
        BY ONLY <4>4, <4>8 DEF Cooled
      <4> QED
        BY <3>1, <4>2, <4>3, <4>5, <4>6, <4>7, <4>8
    <3>3. circuit' \in [Targets -> KType] /\ faults' \in [Targets -> Nat]
      BY <3>1, <3>2 DEF SharedType
    <3>4. ASSUME NEW x \in Targets PROVE OnFaults(circuit[x], faults[x])'
      <4>1. CASE x = t
        BY <1>0, <3>1, <3>2, <4>1 DEF SharedType, OnFaults
      <4>2. CASE x # t
        BY <1>0, <3>1, <4>2 DEF SharedType, Evidence, OnFaults
      <4> QED
        BY <4>1, <4>2
    <3> QED
      BY <3>3, <3>4
  <2> QED
    BY <2>1, <2>2 DEF SharedMoves, CircuitMoves
<1>2. /\ health' \in [Creds -> HType] /\ strikes' \in [Creds -> Nat]
      /\ \A c \in Creds : OnStrikes(health[c], strikes[c])'
  <2>1. CASE UNCHANGED <<health, strikes>>
    BY <1>0, <2>1 DEF SharedType, Evidence, OnStrikes
  <2>2. ASSUME NEW c, CredSuccess(c) \/ CredFailure(c) \/ Retaken(c) \/ Ripens(c)
        PROVE  /\ health' \in [Creds -> HType] /\ strikes' \in [Creds -> Nat]
               /\ \A x \in Creds : OnStrikes(health[x], strikes[x])'
    <3>1. ASSUME NEW x \in Creds
          PROVE  /\ health'[x] \in HType /\ strikes'[x] \in Nat
                 /\ OnStrikes(health[x], strikes[x])'
      <4>1. health[x] \in HType /\ strikes[x] \in Nat /\ OnStrikes(health[x], strikes[x])
        BY DEF SharedType, Evidence
      <4>2. CASE CredSuccess(c)
        BY <1>0, <4>1, <4>2 DEF SharedType, OnStrikes, CredSuccess
      <4>3. CASE CredFailure(c)
        <5>1. PICK h : h = health[x]
          OBVIOUS
        <5>2. PICK s : s = strikes[x]
          OBVIOUS
        <5>3. PICK n : n = Capped(h.failures + 1, conf.failure_threshold)
          OBVIOUS
        <5>4. x # c => health'[x] = h /\ strikes'[x] = s
          BY <4>3, <5>1, <5>2 DEF SharedType, CredFailure
        <5>5. x = c => /\ health'[x] = [failures |-> n,
                                        parked |-> IF Parks(n) THEN "cooling" ELSE h.parked]
                       /\ strikes'[x] = Capped(s + 1, conf.failure_threshold)
          BY <4>1, <4>3, <5>1, <5>2, <5>3 DEF SharedType, CredFailure
        <5>6. /\ h \in HType /\ s \in Nat /\ h.failures = s
              /\ h.parked # "no" => s = conf.failure_threshold
          BY <4>1, <5>1, <5>2 DEF OnStrikes
        <5>7. /\ n \in Nat /\ n = Capped(s + 1, conf.failure_threshold)
              /\ n <= conf.failure_threshold
              /\ n >= conf.failure_threshold => n = conf.failure_threshold
              /\ s = conf.failure_threshold => n = conf.failure_threshold
          BY ONLY <1>0, <5>3, <5>6 DEF Capped
        <5>8. health'[x] \in HType /\ strikes'[x] \in Nat
          BY <5>4, <5>5, <5>6, <5>7
        <5>9. OnStrikes(health[x], strikes[x])'
          BY <1>0, <5>4, <5>5, <5>6, <5>7 DEF OnStrikes, Parks
        <5> QED
          BY <5>8, <5>9
      <4>4. CASE Retaken(c)
        BY <1>0, <4>1, <4>4 DEF SharedType, OnStrikes, Retaken, Classified, Eligibility
      <4>5. CASE Ripens(c)
        BY <1>0, <4>1, <4>5 DEF SharedType, OnStrikes, Ripens
      <4> QED
        BY <2>2, <4>2, <4>3, <4>4, <4>5
    <3>2. \E f, g : health' = [x \in Creds |-> f[x]] /\ strikes' = [x \in Creds |-> g[x]]
      BY <2>2 DEF SharedType, CredSuccess, CredFailure, Retaken, Classified, Ripens
    <3>3. health' \in [Creds -> HType] /\ strikes' \in [Creds -> Nat]
      BY <3>1, <3>2
    <3> QED
      BY <3>1, <3>3
  <2> QED
    BY <2>1, <2>2 DEF SharedMoves, HealthMoves
<1>3. cursor' \in [Providers -> Nat]
  <2>1. CASE UNCHANGED cursor
    BY <2>1 DEF SharedType
  <2>2. ASSUME NEW p \in Providers,
               cursor' = [cursor EXCEPT ![p] = (@ + 1) % TotalWeight(conf.pool[p])]
        PROVE  cursor' \in [Providers -> Nat]
    <3>1. conf.pool[p] \in Seq(Creds)
      BY <1>0
    <3>2. TotalWeight(conf.pool[p]) \in Nat \ {0}
      BY <1>0, <3>1, TotalWeightType
    <3>3. cursor[p] + 1 \in Nat
      BY DEF SharedType
    <3>4. (cursor[p] + 1) % TotalWeight(conf.pool[p]) \in Nat
      BY <3>2, <3>3
    <3> QED
      BY <2>2, <3>4 DEF SharedType
  <2> QED
    BY <2>1, <2>2 DEF SharedMoves, CursorMoves
<1> QED
  BY <1>0, <1>1, <1>2, <1>3 DEF SharedType, SharedMoves, Evidence

-----------------------------------------------------------------------------
(* What a step does to the walk and to the record of its request *)

WalkTyped(r) == /\ pc[r] \in Points /\ walk[r] \in WalkType
                /\ record[r] \in RecordType /\ truth[r] \in TruthType
WalkKept(r) == /\ WalkTyped(r) /\ Placed(pc[r], walk[r]) /\ Tallied(pc[r], walk[r])
               /\ Honest(record[r], truth[r])

\* The walk goes on to p with locals m, both in order.
Sound(p, m) == p \in Points /\ m \in WalkType /\ Placed(p, m) /\ Tallied(p, m)
Goes(r) == \E p, m : Goto(r, p, m) /\ Sound(p, m)
Settles(r) ==
  \/ Unsettled
  \/ \E u \in RecordType, t \in TruthType :
       /\ record' = [record EXCEPT ![r] = u] /\ truth' = [truth EXCEPT ![r] = t]
       /\ Honest(u, t)

\* A walk that has not begun.
LEMMA FreshWalk ==
  ASSUME conf \in Configs, NEW x \in Routes, NEW b \in BOOLEAN, NEW p \in {"idle", "target"}
  PROVE  Sound(p, Walk(x, b))
<1> DEFINE m == Walk(x, b)
<1>1. m \in WalkType /\ p \in Points
  BY EmptySeq DEF Walk, WalkType, Keys, Points
<1>2. /\ m.called = {} /\ m.attempts = 0 /\ m.index = 1
  BY DEF Walk
<1>3. Most(m) \in Nat \ {0}
  BY ConfFacts DEF Most
<1>4. Cardinality({}) = 0 /\ IsFiniteSet({})
  BY FS_EmptySet
<1>5. Placed(p, m)
  BY <1>2 DEF Placed
<1>6. Tallied(p, m)
  <2> HIDE DEF m
  <2> QED
    BY <1>2, <1>3, <1>4 DEF Tallied, Begun
<1> QED
  BY <1>1, <1>5, <1>6 DEF Sound

LEMMA RecordTypes ==
  /\ \A n \in Nat, c \in Keys, st \in {"none", "Ok", "UpstreamError", "ClientCancelled"},
        g \in {"none", "reported", "partial"} : Usage(n, c, st, g) \in RecordType
  /\ \A n \in Nat, S \in SUBSET Creds, P \in SUBSET Products : Truth(n, S, P) \in TruthType
  /\ NoRecord \in RecordType /\ NoTruth \in TruthType /\ Honest(NoRecord, NoTruth)
  BY DEF Usage, RecordType, Truth, TruthType, NoRecord, NoTruth, Keys, Honest

\* The request is over.
LEMMA LeaveGoes ==
  ASSUME conf \in Configs, NEW r \in Requests, NEW u \in RecordType, NEW t \in TruthType,
         Honest(u, t), Leave(r, u, t)
  PROVE  Goes(r) /\ Settles(r)
<1>1. Sound("idle", NoWalk)
  BY FreshWalk DEF NoWalk, Routes
<1>2. Goes(r)
  BY <1>1 DEF Leave, Goes
<1> QED
  BY <1>2 DEF Leave, Settles

LEMMA EndGoes ==
  ASSUME conf \in Configs, NEW r \in Requests, NEW n \in Nat, NEW c \in Keys,
         n = Cardinality(walk[r].called), End(r, n, c)
  PROVE  Goes(r) /\ Settles(r)
<1> DEFINE u == IF c = "none" THEN NoRecord ELSE Usage(n, c, "UpstreamError", "none")
           t == Truth(Cardinality(walk[r].called), {}, {})
<1>1. u \in RecordType /\ t \in TruthType
  BY RecordTypes
<1>2. Honest(u, t)
  BY DEF Honest, Usage, Truth
<1>3. Leave(r, u, t)
  BY DEF End
<1> HIDE DEF u, t
<1> QED
  BY <1>1, <1>2, <1>3, LeaveGoes

LEMMA PassedGoes ==
  ASSUME conf \in Configs, NEW r \in Requests, Leave(r, NoRecord, NoTruth)
  PROVE  Goes(r) /\ Settles(r)
  BY RecordTypes, LeaveGoes

LEMMA MostIsMax ==
  ASSUME NEW r \in Requests, conf \in Configs
  PROVE  MaxAttempts(r) = Most(walk[r]) /\ MaxAttempts(r) \in Nat \ {0}
  BY ConfFacts DEF MaxAttempts, Most, Pinned

\* On to the next target, from one that was not called or from one whose
\* attempt is now counted.
LEMMA NextTargetGoes ==
  ASSUME conf \in Configs, NEW r \in Requests, NEW m \in WalkType,
         m.index > 0, IsFiniteSet(m.called), \A i \in m.called : i <= m.index,
         Cardinality(m.called) = m.attempts, m.attempts <= Most(m), NextTarget(r, m)
  PROVE  Goes(r) /\ Settles(r)
<1> DEFINE new == [m EXCEPT !.index = @ + 1]
<1>1. m.index \in Nat /\ m.called \subseteq Nat /\ m.index + 1 \in Nat
  BY DEF WalkType
<1>2. /\ new \in WalkType /\ new.index = m.index + 1 /\ new.called = m.called
      /\ new.attempts = m.attempts /\ new.route = m.route
  <2>1. PICK i : i = m.index + 1
    OBVIOUS
  <2>2. new = [m EXCEPT !.index = i] /\ i \in Nat
    BY <1>1, <2>1
  <2> HIDE DEF new
  <2>3. new \in WalkType /\ new.index = i
    BY ONLY <2>2, m \in WalkType DEF WalkType
  <2>4. new.called = m.called /\ new.attempts = m.attempts /\ new.route = m.route
    BY ONLY <2>2, m \in WalkType DEF WalkType
  <2> QED
    BY <2>1, <2>3, <2>4
<1>3. Goto(r, "target", new) /\ Unsettled
  BY DEF NextTarget
<1> HIDE DEF new
<1>4. Most(new) = Most(m)
  BY <1>2 DEF Most
<1>5. \A i \in new.called : i < new.index
  BY <1>1, <1>2
<1>6. Sound("target", new)
  BY <1>1, <1>2, <1>4, <1>5 DEF Sound, Points, Placed, Tallied, Begun
<1> QED
  BY <1>3, <1>6 DEF Goes, Settles

\* An update of a walk that leaves its tally as it was.
SameTally(m, new) == /\ new.called = m.called /\ new.attempts = m.attempts
                     /\ new.index = m.index /\ new.route = m.route

LEMMA TallyKept ==
  ASSUME NEW p, NEW q, NEW m, NEW new, Tallied(p, m), SameTally(m, new),
         Begun(q, new) <=> Begun(p, m), p # "relay",
         q \in {"plan", "lease", "calling"} => m.attempts < Most(m)
  PROVE  Tallied(q, new)
<1>1. Most(new) = Most(m)
  BY DEF Most, SameTally
<1> QED
  BY <1>1 DEF Tallied, SameTally

LEMMA ArriveGoes ==
  ASSUME conf \in Configs, NEW r \in Requests, Arrival(r) PROVE Goes(r) /\ Settles(r)
<1>1. PICK x \in Routes, b \in BOOLEAN : Arrive(r, x, b)
  BY DEF Arrival
<1>2. Sound("target", Walk(x, b))
  BY FreshWalk
<1>3. Goes(r)
  BY <1>1, <1>2 DEF Arrive, Goes
<1> QED
  BY <1>1, <1>3, RecordTypes DEF Arrive, Settles

LEMMA TargetGoes ==
  ASSUME conf \in Configs, cursor \in [Providers -> Nat], NEW r \in Requests, WalkKept(r),
         GiveUp(r) \/ SkipOpen(r) \/ EnterTarget(r)
  PROVE  Goes(r) /\ Settles(r)
<1>1. PICK m : m = walk[r]
  OBVIOUS
<1>2. /\ m \in WalkType /\ pc[r] = "target" /\ m.index > 0 /\ IsFiniteSet(m.called)
      /\ Cardinality(m.called) = m.attempts /\ m.attempts <= Most(m) /\ m.index \in Nat
      /\ \A i \in m.called : i < m.index /\ i <= m.index
      /\ m.attempts \in Nat /\ m.last \in Keys
  <2>1. pc[r] = "target"
    BY DEF GiveUp, SkipOpen, EnterTarget
  <2>2. m \in WalkType /\ Placed("target", m) /\ Tallied("target", m)
    BY <1>1, <2>1 DEF WalkKept, WalkTyped
  <2>3. m.index \in Nat /\ m.called \subseteq Nat /\ m.attempts \in Nat /\ m.last \in Keys
    BY <2>2 DEF WalkType
  <2> QED
    BY <2>1, <2>2, <2>3 DEF Placed, Tallied, Begun
<1>3. ASSUME PassOver(r) PROVE Goes(r) /\ Settles(r)
  BY <1>1, <1>2, <1>3, PassedGoes, NextTargetGoes DEF PassOver
<1>4. CASE GiveUp(r)
  BY <1>1, <1>2, <1>4, EndGoes DEF GiveUp
<1>5. CASE SkipOpen(r)
  BY <1>3, <1>5 DEF SkipOpen
<1>6. CASE EnterTarget(r)
  <2>1. /\ m.index <= Len(conf.chain) /\ m.attempts < Most(m)
        /\ conf.provider[Target(r)] \in Providers /\ Pool(r) \in Seq(Creds)
    <3>1. ~Over(r)
      BY <1>6 DEF EnterTarget
    <3>2. m.index <= Len(conf.chain) /\ m.attempts < Most(m)
      BY <1>1, <1>2, <3>1, MostIsMax, ConfFacts DEF Over
    <3>3. m.index \in 1 .. Len(conf.chain)
      BY <1>2, <3>2, ConfFacts
    <3>4. Target(r) \in Targets
      BY <1>1, <3>3, ConfFacts DEF Target
    <3> QED
      BY <3>2, <3>4, ConfFacts DEF Pool
  <2>2. PICK pool : pool = Pool(r)
    OBVIOUS
  <2>3. CASE pool = <<>>
    BY <1>3, <1>6, <2>2, <2>3 DEF EnterTarget
  <2>4. CASE pool # <<>> /\ Pinned(r)
    <3> DEFINE new == [m EXCEPT !.fresh = TRUE, !.parked = <<>>, !.plan = <<pool[1]>>]
    <3>1. Goto(r, "lease", new) /\ Unsettled
      BY <1>1, <1>6, <2>2, <2>4 DEF EnterTarget
    <3>2. pool[1] \in Creds
      BY <2>1, <2>2, <2>4, EmptySeq, LenProperties
    <3>3. <<pool[1]>> \in Seq(Creds) /\ <<pool[1]>> # <<>> /\ <<>> \in Seq(Creds)
      BY <3>2, EmptySeq
    <3>4. /\ new \in WalkType /\ new.fresh = TRUE /\ new.plan = <<pool[1]>>
          /\ SameTally(m, new)
      BY <1>2, <3>3 DEF WalkType, SameTally
    <3> HIDE DEF new
    <3>5. Placed("lease", new)
      BY <1>2, <2>1, <3>3, <3>4 DEF Placed, SameTally
    <3>6. Tallied("lease", new)
      BY <1>1, <1>2, <2>1, <3>4, TallyKept DEF WalkKept, Begun
    <3>7. Sound("lease", new)
      BY <3>4, <3>5, <3>6 DEF Sound, Points
    <3> QED
      BY <3>1, <3>7 DEF Goes, Settles
  <2>5. CASE pool # <<>> /\ ~Pinned(r)
    <3> DEFINE prov == conf.provider[Target(r)]
               rot == Rotation(pool, cursor[prov])
               new == [m EXCEPT !.fresh = TRUE, !.parked = <<>>, !.plan = <<>>, !.order = rot]
    <3>1. Goto(r, "plan", new) /\ Unsettled
      BY <1>1, <1>6, <2>2, <2>5 DEF EnterTarget
    <3>2. cursor[prov] \in Nat /\ conf \in ConfigType
      BY <2>1, ConfFacts
    <3>3. rot \in Seq(Creds) /\ rot # <<>> /\ <<>> \in Seq(Creds)
      BY <2>1, <2>2, <2>5, <3>2, RotationType, EmptySeq
    <3> HIDE DEF rot
    <3>4. /\ new \in WalkType /\ new.fresh = TRUE /\ new.order = rot /\ SameTally(m, new)
      BY <1>2, <3>3 DEF WalkType, SameTally
    <3> HIDE DEF new
    <3>5. Placed("plan", new)
      BY <1>2, <2>1, <3>3, <3>4 DEF Placed, SameTally
    <3>6. Tallied("plan", new)
      BY <1>1, <1>2, <2>1, <3>4, TallyKept DEF WalkKept, Begun
    <3>7. Sound("plan", new)
      BY <3>4, <3>5, <3>6 DEF Sound, Points
    <3> QED
      BY <3>1, <3>7 DEF Goes, Settles
  <2> QED
    BY <2>3, <2>4, <2>5
<1> QED
  BY <1>4, <1>5, <1>6

LEMMA PlanGoes ==
  ASSUME conf \in Configs, pc \in [Requests -> Points], walk \in [Requests -> WalkType],
         NEW r \in Requests, WalkKept(r), Classify(r) \/ Planned(r)
  PROVE  Goes(r) /\ Settles(r)
<1>1. PICK m : m = walk[r]
  OBVIOUS
<1>2. /\ m \in WalkType /\ pc[r] = "plan" /\ Placed("plan", m) /\ Tallied("plan", m)
      /\ m.attempts < Most(m) /\ m.fresh
      /\ m.order \in Seq(Creds) /\ m.plan \in Seq(Creds) /\ m.parked \in Seq(Creds)
  <2>1. pc[r] = "plan"
    BY DEF Classify, Planned
  <2>2. m \in WalkType /\ Placed("plan", m) /\ Tallied("plan", m)
    BY <1>1, <2>1 DEF WalkKept, WalkTyped
  <2> QED
    BY <2>1, <2>2 DEF Placed, Tallied, WalkType
<1>3. CASE Classify(r)
  <2> DEFINE c == Head(m.order)
             e == Eligibility(c)
             tail == Tail(m.order)
             plan == CASE e = "Healthy" -> Append(m.plan, c)
                       [] e = "Probe" -> <<c>> \o m.plan
                       [] OTHER -> m.plan
             parked == IF e = "Parked" THEN Append(m.parked, c) ELSE m.parked
             new == [m EXCEPT !.order = tail, !.plan = plan, !.parked = parked]
  <2>1. walk' = [walk EXCEPT ![r] = new] /\ UNCHANGED <<pc, record, truth>> /\ m.order # <<>>
    BY <1>1, <1>3 DEF Classify, history
  <2>2. c \in Creds /\ tail \in Seq(Creds)
    BY <1>2, <2>1, HeadTailProperties
  <2>3. e \in {"Healthy", "Probe", "Parked"}
    BY DEF Eligibility
  <2>4. /\ Append(m.plan, c) \in Seq(Creds) /\ Append(m.plan, c) # <<>>
        /\ <<c>> \o m.plan \in Seq(Creds) /\ <<c>> \o m.plan # <<>>
        /\ Append(m.parked, c) \in Seq(Creds) /\ Append(m.parked, c) # <<>>
    <3> HIDE DEF c
    <3>1. /\ <<c>> \in Seq(Creds) /\ <<c>> # <<>>
      BY <2>2
    <3>2. <<c>> \o m.plan \in Seq(Creds) /\ Len(<<c>> \o m.plan) = Len(<<c>>) + Len(m.plan)
      BY <1>2, <3>1, ConcatProperties
    <3>3. <<c>> \o m.plan # <<>>
      BY <1>2, <3>1, <3>2, EmptySeq, LenProperties
    <3> QED
      BY <1>2, <2>2, <3>2, <3>3, AppendProperties
  <2> HIDE DEF c, tail
  <2>5. plan \in Seq(Creds) /\ parked \in Seq(Creds) /\ (plan # <<>> \/ parked # <<>>)
    <3> HIDE DEF e
    <3> QED
      BY <1>2, <2>3, <2>4
  <2> HIDE DEF plan, parked, e
  <2>6. /\ new \in WalkType /\ new.plan = plan /\ new.parked = parked /\ new.fresh = m.fresh
        /\ SameTally(m, new)
    BY <1>2, <2>2, <2>5 DEF WalkType, SameTally
  <2> HIDE DEF new
  <2>7. Goto(r, "plan", new) /\ Unsettled
    BY <1>2, <2>1 DEF Goto, Unsettled
  <2>8. Placed("plan", new)
    BY <1>2, <2>5, <2>6 DEF Placed, SameTally
  <2>9. Tallied("plan", new)
    BY <1>2, <2>6, TallyKept DEF Begun
  <2>10. Sound("plan", new)
    BY <2>6, <2>8, <2>9 DEF Sound, Points
  <2> QED
    BY <2>7, <2>10 DEF Goes, Settles
<1>4. CASE Planned(r)
  <2> DEFINE new == [m EXCEPT !.plan = Attempts(m)]
  <2>1. Goto(r, "lease", new) /\ Unsettled /\ m.order = <<>>
    BY <1>1, <1>4 DEF Planned, history, Unsettled
  <2>2. Attempts(m) \in Seq(Creds) /\ Attempts(m) # <<>>
    <3>1. CASE m.plan # <<>>
      BY <1>2, <3>1 DEF Attempts
    <3>2. CASE m.plan = <<>>
      <4>1. m.parked # <<>>
        BY <1>2, <2>1, <3>2 DEF Placed
      <4>2. Head(m.parked) \in Creds
        BY <1>2, <4>1, HeadTailProperties
      <4> QED
        BY <3>2, <4>2 DEF Attempts
    <3> QED
      BY <3>1, <3>2
  <2>3. /\ new \in WalkType /\ new.plan = Attempts(m) /\ new.fresh = m.fresh
        /\ SameTally(m, new)
    BY <1>2, <2>2 DEF WalkType, SameTally
  <2> HIDE DEF new
  <2>4. Placed("lease", new)
    BY <1>2, <2>2, <2>3 DEF Placed, SameTally
  <2>5. Tallied("lease", new)
    BY <1>2, <2>3, TallyKept DEF Begun
  <2>6. Sound("lease", new)
    BY <2>3, <2>4, <2>5 DEF Sound, Points
  <2> QED
    BY <2>1, <2>6 DEF Goes, Settles
<1> QED
  BY <1>3, <1>4

LEMMA LeaseGoes ==
  ASSUME conf \in Configs, NEW r \in Requests, WalkKept(r), OpenLease(r)
  PROVE  Goes(r) /\ Settles(r)
<1>1. PICK m : m = walk[r]
  OBVIOUS
<1>2. /\ m \in WalkType /\ pc[r] = "lease" /\ Placed("lease", m) /\ Tallied("lease", m)
      /\ m.index \in Nat /\ m.attempts \in Nat /\ m.called \subseteq Nat /\ m.last \in Keys
      /\ m.fresh \in BOOLEAN /\ IsFiniteSet(m.called)
      /\ m.fresh => Cardinality(m.called) = m.attempts /\ \A i \in m.called : i < m.index
      /\ ~m.fresh => /\ Cardinality(m.called) = m.attempts + 1 /\ m.index \in m.called
                     /\ \A i \in m.called : i <= m.index
  <2>1. pc[r] = "lease"
    BY DEF OpenLease
  <2>2. m \in WalkType /\ Placed("lease", m) /\ Tallied("lease", m)
    BY <1>1, <2>1 DEF WalkKept, WalkTyped
  <2> QED
    BY <2>1, <2>2 DEF Tallied, Begun, WalkType
<1>3. CASE m.streamed /\ m.expired
  <2>1. CutShort(m) = Cardinality(m.called) /\ CutShort(m) \in Nat
    BY <1>2 DEF CutShort
  <2>2. End(r, CutShort(m), m.last)
    BY <1>1, <1>3 DEF OpenLease
  <2> QED
    BY <1>1, <1>2, <2>1, <2>2, EndGoes
<1>4. CASE ~(m.streamed /\ m.expired)
  <2> DEFINE new == [m EXCEPT !.called = @ \cup {m.index}, !.fresh = FALSE]
  <2>1. Goto(r, "calling", new) /\ Unsettled
    BY <1>1, <1>4 DEF OpenLease, Call
  <2>2. /\ new \in WalkType /\ new.called = m.called \cup {m.index} /\ new.fresh = FALSE
        /\ new.attempts = m.attempts /\ new.index = m.index /\ new.route = m.route
        /\ new.plan = m.plan
    BY <1>2 DEF WalkType
  <2> HIDE DEF new
  <2>3. IsFiniteSet(new.called) /\ Cardinality(new.called) = m.attempts + 1
    <3>1. CASE m.fresh
      <4>1. m.index \notin m.called
        BY <1>2, <3>1
      <4>2. /\ IsFiniteSet(m.called \cup {m.index})
            /\ Cardinality(m.called \cup {m.index}) = Cardinality(m.called) + 1
        BY <1>2, <4>1, FS_AddElement
      <4> QED
        BY <1>2, <2>2, <3>1, <4>2
    <3>2. CASE ~m.fresh
      <4>1. new.called = m.called
        BY <1>2, <2>2, <3>2
      <4> QED
        BY <1>2, <3>2, <4>1
    <3> QED
      BY <3>1, <3>2
  <2>4. m.index \in new.called /\ \A i \in new.called : i <= m.index
    BY <1>2, <2>2
  <2>5. Most(new) = Most(m) /\ m.attempts < Most(m) /\ m.attempts <= Most(m)
    BY <1>2, <2>2 DEF Most, Tallied
  <2>6. Tallied("calling", new)
    BY <2>2, <2>3, <2>4, <2>5 DEF Tallied, Begun
  <2>7. Placed("calling", new)
    BY <1>2, <2>2 DEF Placed
  <2>8. Sound("calling", new)
    BY <2>2, <2>6, <2>7 DEF Sound, Points
  <2> QED
    BY <2>1, <2>8 DEF Goes, Settles
<1> QED
  BY <1>3, <1>4

\* What holds of a walk whose call is out.
LEMMA CallFacts ==
  ASSUME conf \in Configs, NEW r \in Requests, WalkKept(r), pc[r] = "calling"
  PROVE  /\ walk[r] \in WalkType /\ Placed("calling", walk[r]) /\ Tallied("calling", walk[r])
         /\ walk[r].index \in Nat /\ walk[r].attempts \in Nat /\ walk[r].called \subseteq Nat
         /\ IsFiniteSet(walk[r].called) /\ walk[r].index \in walk[r].called
         /\ Cardinality(walk[r].called) = walk[r].attempts + 1
         /\ \A i \in walk[r].called : i <= walk[r].index
         /\ walk[r].attempts + 1 <= Most(walk[r]) /\ walk[r].index > 0
         /\ walk[r].plan \in Seq(Creds) /\ walk[r].plan # <<>> /\ Lease(r) \in Creds
         /\ Tail(walk[r].plan) \in Seq(Creds)
<1>1. PICK m : m = walk[r]
  OBVIOUS
<1>2. m \in WalkType /\ Placed("calling", m) /\ Tallied("calling", m)
  BY <1>1 DEF WalkKept, WalkTyped
<1>3. /\ m.index \in Nat /\ m.attempts \in Nat /\ m.called \subseteq Nat /\ m.plan \in Seq(Creds)
      /\ m.plan # <<>>
  BY <1>2 DEF WalkType, Placed
<1>4. Head(m.plan) \in Creds /\ Tail(m.plan) \in Seq(Creds)
  BY <1>3, HeadTailProperties
<1>5. Most(m) \in Nat /\ m.attempts < Most(m)
  BY <1>2, ConfFacts DEF Most, Tallied
<1>6. /\ IsFiniteSet(m.called) /\ m.index \in m.called /\ Cardinality(m.called) = m.attempts + 1
      /\ \A i \in m.called : i <= m.index
  BY <1>2 DEF Tallied, Begun, Placed
<1>7. m.attempts + 1 <= Most(m) /\ m.index > 0
  BY <1>2, <1>3, <1>5 DEF Placed
<1> QED
  BY <1>1, <1>2, <1>3, <1>4, <1>6, <1>7 DEF Lease

LEMMA ReplyGoes ==
  ASSUME conf \in Configs, NEW r \in Requests, WalkKept(r), Reply(r)
  PROVE  Goes(r) /\ Settles(r)
<1>0. pc[r] = "calling"
  BY DEF Reply, Served, NextLease, AttemptFails
<1>1. PICK m : m = walk[r]
  OBVIOUS
<1>2. /\ m \in WalkType /\ Placed("calling", m) /\ Tallied("calling", m)
      /\ m.index \in Nat /\ m.attempts \in Nat /\ m.called \subseteq Nat
      /\ IsFiniteSet(m.called) /\ Cardinality(m.called) = m.attempts + 1
      /\ \A i \in m.called : i <= m.index
      /\ m.attempts + 1 <= Most(m) /\ m.index > 0
      /\ m.plan \in Seq(Creds) /\ m.plan # <<>> /\ Lease(r) \in Creds /\ Lease(r) \in Keys
      /\ Tail(m.plan) \in Seq(Creds)
  BY <1>0, <1>1, CallFacts DEF Keys
<1>3. CASE Served(r)
  <2> DEFINE u == Usage(m.attempts + 1, Lease(r), "Ok", "reported")
             t == Truth(Cardinality(m.called), {Lease(r)}, {"usage"})
  <2>0. m.attempts + 1 \in Nat /\ Cardinality(m.called) \in Nat /\ {Lease(r)} \in SUBSET Creds
    BY <1>2
  <2>1. u \in RecordType /\ t \in TruthType
    <3>1. {"usage"} \in SUBSET Products
      BY DEF Products
    <3> QED
      BY <1>2, <2>0, <3>1, RecordTypes
  <2>2. Honest(u, t)
    BY <1>2 DEF Honest, Usage, Truth
  <2>3. Leave(r, u, t)
    BY <1>1, <1>3 DEF Served
  <2> HIDE DEF u, t
  <2> QED
    BY <2>1, <2>2, <2>3, LeaveGoes
<1>4. CASE NextLease(r)
  <2> DEFINE tail == Tail(m.plan)
             last == IF m.streamed THEN Lease(r) ELSE m.last
             new == [m EXCEPT !.plan = tail, !.last = last]
  <2>1. Goto(r, "lease", new) /\ Unsettled /\ Len(m.plan) > 1
    BY <1>1, <1>4 DEF NextLease, Unsettled
  <2>2. tail \in Seq(Creds) /\ tail # <<>>
    <3>1. m.plan \in Seq(Creds) /\ m.plan # <<>> /\ Len(m.plan) > 1
      BY <1>2, <2>1
    <3>2. tail \in Seq(Creds) /\ Len(tail) = Len(m.plan) - 1
      BY <3>1, HeadTailProperties
    <3>3. Len(m.plan) \in Nat /\ Len(<<>>) = 0
      BY <3>1
    <3> HIDE DEF tail
    <3> QED
      BY <3>1, <3>2, <3>3
  <2>3. last \in Keys
    BY <1>2 DEF WalkType
  <2> HIDE DEF tail, last
  <2>4. /\ new \in WalkType /\ new.plan = tail /\ new.fresh = m.fresh /\ SameTally(m, new)
    BY <1>2, <2>2, <2>3 DEF WalkType, SameTally
  <2> HIDE DEF new
  <2>5. Placed("lease", new)
    BY <1>2, <2>2, <2>4 DEF Placed, SameTally
  <2>6. Tallied("lease", new)
    <3>1. Begun("lease", new) <=> Begun("calling", m)
      BY <2>4 DEF Begun
    <3>2. m.attempts < Most(m)
      BY <1>2 DEF Tallied
    <3> QED
      BY <1>2, <2>4, <3>1, <3>2, TallyKept
  <2>7. Sound("lease", new)
    BY <2>4, <2>5, <2>6 DEF Sound, Points
  <2> QED
    BY <2>1, <2>7 DEF Goes, Settles
<1>5. ASSUME NEW o \in Outcomes, AttemptFails(r, o) PROVE Goes(r) /\ Settles(r)
  <2> DEFINE n == m.attempts + 1
             new == [m EXCEPT !.attempts = n, !.last = Lease(r)]
  <2>1. NextTarget(r, new) \/ End(r, n, Lease(r))
    BY <1>1, <1>5 DEF AttemptFails
  <2>2. CASE End(r, n, Lease(r))
    BY <1>1, <1>2, <2>2, EndGoes
  <2>3. CASE NextTarget(r, new)
    <3>1. /\ new \in WalkType /\ new.index = m.index /\ new.called = m.called
          /\ new.attempts = m.attempts + 1 /\ new.route = m.route
      <4>1. PICK k : k = m.attempts + 1
        OBVIOUS
      <4>2. PICK c : c = Lease(r)
        OBVIOUS
      <4>3. new = [m EXCEPT !.attempts = k, !.last = c] /\ k \in Nat /\ c \in Keys
        BY <1>2, <4>1, <4>2
      <4> HIDE DEF new
      <4>4. new \in WalkType /\ new.attempts = k
        BY ONLY <1>2, <4>3 DEF WalkType
      <4>5. new.index = m.index /\ new.called = m.called /\ new.route = m.route
        BY ONLY <1>2, <4>3 DEF WalkType
      <4> QED
        BY <4>1, <4>4, <4>5
    <3> HIDE DEF new
    <3>2. Most(new) = Most(m)
      BY <3>1 DEF Most
    <3> QED
      BY <1>2, <2>3, <3>1, <3>2, NextTargetGoes
  <2> QED
    BY <2>1, <2>2, <2>3
<1> QED
  BY <1>3, <1>4, <1>5 DEF Reply

LEMMA WorldGoes ==
  ASSUME conf \in Configs, pc \in [Requests -> Points], walk \in [Requests -> WalkType],
         NEW r \in Requests, WalkKept(r), BudgetSpent(r) \/ Cancel(r)
  PROVE  Goes(r) /\ Settles(r)
<1>1. CASE Cancel(r)
  BY <1>1, PassedGoes DEF Cancel
<1>2. CASE BudgetSpent(r)
  <2>1. PICK m : m = walk[r]
    OBVIOUS
  <2>2. PICK p : p = pc[r]
    OBVIOUS
  <2>3. m \in WalkType /\ p \in Points /\ Placed(p, m) /\ Tallied(p, m)
    BY <2>1, <2>2 DEF WalkKept, WalkTyped
  <2> DEFINE new == [m EXCEPT !.expired = TRUE]
  <2>4. /\ new \in WalkType /\ SameTally(m, new) /\ new.fresh = m.fresh /\ new.plan = m.plan
        /\ new.order = m.order /\ new.parked = m.parked
    BY <2>3 DEF WalkType, SameTally
  <2>5. Goto(r, p, new) /\ Unsettled
    BY <1>2, <2>1, <2>2 DEF BudgetSpent, Goto, Unsettled, history
  <2> HIDE DEF new
  <2>6. Placed(p, new)
    BY <2>3, <2>4 DEF Placed, SameTally
  <2>7. Tallied(p, new)
    BY <2>3, <2>4 DEF Tallied, SameTally, Begun, Most
  <2> QED
    BY <2>3, <2>4, <2>5, <2>6, <2>7 DEF Goes, Settles, Sound
<1> QED
  BY <1>1, <1>2

\* The walk of an opened stream.
LEMMA OpenedGoes ==
  ASSUME conf \in Configs, NEW r \in Requests, WalkKept(r), Opened(r)
  PROVE  Goes(r) /\ Settles(r)
<1>0. pc[r] = "calling"
  BY DEF Opened
<1>1. PICK m : m = walk[r]
  OBVIOUS
<1>2. /\ m \in WalkType /\ m.attempts \in Nat /\ IsFiniteSet(m.called)
      /\ Cardinality(m.called) = m.attempts + 1 /\ m.attempts + 1 <= Most(m) /\ m.index > 0
  BY <1>0, <1>1, CallFacts
<1> DEFINE new == [m EXCEPT !.attempts = @ + 1]
<1>3. /\ new \in WalkType /\ new.attempts = m.attempts + 1 /\ new.called = m.called
      /\ new.index = m.index /\ new.route = m.route
  BY <1>2 DEF WalkType
<1>4. Goto(r, "relay", new) /\ Unsettled
  BY <1>1 DEF Opened, Unsettled
<1> HIDE DEF new
<1>5. Most(new) = Most(m)
  BY <1>3 DEF Most
<1>6. Sound("relay", new)
  BY <1>2, <1>3, <1>5 DEF Sound, Points, Placed, Tallied, Begun
<1> QED
  BY <1>4, <1>6 DEF Goes, Settles

-----------------------------------------------------------------------------
(* What a step does to the relay of its request *)

RelayKept(r) == /\ relay[r] \in RelayType /\ wire[r] \in SUBSET Creds
                /\ Single(pc[r], relay[r], wire[r])

\* The relay becomes m with w on the wire, both in order.
Relays(r) == \E m \in RelayType, w \in SUBSET Creds :
               /\ relay' = [relay EXCEPT ![r] = m] /\ wire' = [wire EXCEPT ![r] = w]
               /\ Single(pc'[r], m, w)

\* The relay of the same key, with as much queued.
SameKey(r, m) == /\ m.serving = relay[r].serving /\ m.credential = relay[r].credential
                 /\ m.queued = relay[r].queued

LEMMA BecomesRelays ==
  ASSUME wire \in [Requests -> SUBSET Creds], NEW r \in Requests, RelayKept(r),
         pc[r] = "relay", pc'[r] = "relay",
         NEW m \in RelayType, NEW content \in BOOLEAN, SameKey(r, m), Measured(m),
         m.phase = "Rotating" => ~m.queued /\ ~content,
         Becomes(r, m, content)
  PROVE  Relays(r)
<1>1. PICK k : k = relay[r].serving
  OBVIOUS
<1>2. PICK w : w = wire[r]
  OBVIOUS
<1>3. /\ k \in Creds /\ w \in SUBSET Creds /\ w \subseteq {k} /\ (~m.queued => w = {})
      /\ m.serving = k /\ m.credential = k /\ k # "none"
  BY <1>1, <1>2 DEF RelayKept, Single, SameKey, RelayType
<1>4. CASE content
  <2> DEFINE new == [m EXCEPT !.pending = TRUE, !.queued = TRUE]
  <2>1. relay' = [relay EXCEPT ![r] = new] /\ wire' = [wire EXCEPT ![r] = w \cup {k}]
    BY <1>1, <1>2, <1>4 DEF Becomes, Queue
  <2>2. /\ new \in RelayType /\ new.serving = m.serving /\ new.credential = m.credential
        /\ new.queued = TRUE /\ new.phase = m.phase /\ Measured(new)
    BY DEF RelayType, Measured
  <2> HIDE DEF new
  <2>3. Single("relay", new, w \cup {k})
    BY <1>3, <1>4, <2>2 DEF Single
  <2>4. w \cup {k} \in SUBSET Creds
    BY <1>3
  <2> QED
    BY <2>1, <2>2, <2>3, <2>4 DEF Relays
<1>5. CASE ~content
  <2>1. relay' = [relay EXCEPT ![r] = m] /\ wire' = [wire EXCEPT ![r] = w]
    BY <1>2, <1>5 DEF Becomes
  <2>2. Single("relay", m, w)
    BY <1>3 DEF Single
  <2> QED
    BY <1>3, <2>1, <2>2 DEF Relays
<1> QED
  BY <1>4, <1>5

LEMMA OpenRelays ==
  ASSUME conf \in Configs, pc \in [Requests -> Points], wire \in [Requests -> SUBSET Creds],
         NEW r \in Requests, WalkKept(r), RelayKept(r), OpenRelay(r)
  PROVE  Relays(r)
<1>1. pc[r] = "calling" /\ pc'[r] = "relay"
  BY DEF OpenRelay, Opened, Goto
<1>2. Lease(r) \in Creds /\ Unused(r) \in Seq(Creds)
  BY <1>1, CallFacts DEF Unused
<1> DEFINE m == Relay(Lease(r), Unused(r))
<1>3. /\ m \in RelayType /\ m.serving = Lease(r) /\ m.credential = Lease(r)
      /\ m.queued = FALSE /\ m.phase = "Streaming" /\ Measured(m)
  BY <1>2 DEF Relay, RelayType, Measured
<1>4. wire[r] = {} /\ wire' = [wire EXCEPT ![r] = {}] /\ relay' = [relay EXCEPT ![r] = m]
  BY <1>1 DEF RelayKept, Single, OpenRelay
<1> HIDE DEF m
<1>5. Lease(r) # "none"
  BY <1>2, DispatchAssumption
<1>6. Single("relay", m, {})
  BY <1>3, <1>5 DEF Single
<1> QED
  BY <1>1, <1>3, <1>4, <1>6 DEF Relays

LEMMA UpstreamRelays ==
  ASSUME pc \in [Requests -> Points], wire \in [Requests -> SUBSET Creds],
         NEW r \in Requests, RelayKept(r), Upstream(r)
  PROVE  Relays(r) /\ UNCHANGED <<pc, walk, record, truth>>
<1>0. pc[r] = "relay" /\ UNCHANGED <<pc, walk, record, truth>>
  BY DEF Upstream, DataEvent, UpstreamEnds, PassBytes, RateLimitEvent, BadEvent, TooLarge,
         UpstreamBreaks, DoneEvent, RotationEnds, RotationLimited, RotationOpens, In, Relaying
<1>1. PICK m : m = relay[r]
  OBVIOUS
<1>2. /\ m \in RelayType /\ m.remaining \in Seq(Creds) /\ Measured(m)
      /\ m.phase = "Rotating" => ~m.queued /\ wire[r] = {}
  BY <1>1 DEF RelayKept, Single, RelayType
<1>3. Reemit(r) \in BOOLEAN /\ Closed(r) \in BOOLEAN
  BY DEF Reemit, Closed
<1>4. ASSUME NEW t \in BOOLEAN, NEW f \in BOOLEAN, DataEvent(r, t, f) PROVE Relays(r)
  <2> DEFINE mid == [m EXCEPT !.text = @ \/ t, !.made = @ \cup Gave(t, "text")]
             new == IF f THEN mid ELSE [mid EXCEPT !.phase = "Failed"]
  <2>1. Becomes(r, new, f) /\ m.phase = "Streaming"
    BY <1>1, <1>4 DEF DataEvent, In
  <2>2. mid \in RelayType /\ SameKey(r, mid) /\ mid.phase = m.phase /\ Measured(mid)
    BY <1>1, <1>2 DEF RelayType, SameKey, Measured, Gave, Products
  <2> HIDE DEF mid
  <2>3. new \in RelayType /\ SameKey(r, new) /\ new.phase # "Rotating" /\ Measured(new)
    BY <2>1, <2>2 DEF RelayType, SameKey, Measured
  <2> HIDE DEF new
  <2> QED
    BY <1>0, <2>1, <2>3, BecomesRelays
<1>5. CASE PassBytes(r)
  <2>1. Becomes(r, m, TRUE) /\ m.phase = "Streaming"
    BY <1>1, <1>5 DEF PassBytes, In
  <2> QED
    BY <1>0, <1>1, <1>2, <2>1, BecomesRelays DEF SameKey
<1>6. ASSUME NEW u \in BOOLEAN, DoneEvent(r, u) PROVE Relays(r)
  <2> DEFINE mid == [m EXCEPT !.usage = u, !.made = @ \cup Gave(u, "usage")]
             new == IF Reemit(r) THEN [mid EXCEPT !.phase = "Finished"]
                    ELSE [mid EXCEPT !.terminal = TRUE]
  <2>1. Becomes(r, new, ~Reemit(r)) /\ m.phase = "Streaming"
    BY <1>1, <1>6 DEF DoneEvent, In
  <2>2. mid \in RelayType /\ SameKey(r, mid) /\ mid.phase = m.phase /\ Measured(mid)
    BY <1>1, <1>2 DEF RelayType, SameKey, Measured, Gave, Products
  <2> HIDE DEF mid
  <2>3. new \in RelayType /\ SameKey(r, new) /\ new.phase # "Rotating" /\ Measured(new)
    BY <2>1, <2>2 DEF RelayType, SameKey, Measured
  <2>4. (~Reemit(r)) \in BOOLEAN
    OBVIOUS
  <2> HIDE DEF new
  <2> QED
    BY <1>0, <2>1, <2>3, <2>4, BecomesRelays
<1>7. CASE RateLimitEvent(r)
  <2> DEFINE ph == IF MayRotate(r) THEN "Rotating" ELSE "Failed"
             new == [m EXCEPT !.phase = ph]
  <2>1. Becomes(r, new, ~Reemit(r)) /\ m.phase = "Streaming"
    BY <1>1, <1>7 DEF RateLimitEvent, In
  <2>2. /\ ph \in {"Rotating", "Failed"} /\ (ph = "Rotating" => Reemit(r) /\ ~m.queued)
    BY <1>1 DEF MayRotate
  <2> HIDE DEF ph
  <2>3. /\ new \in RelayType /\ SameKey(r, new) /\ new.phase = ph /\ new.queued = m.queued
        /\ Measured(new)
    BY <1>1, <1>2, <2>2 DEF RelayType, SameKey, Measured
  <2>4. (~Reemit(r)) \in BOOLEAN
    OBVIOUS
  <2> HIDE DEF new
  <2> QED
    BY <1>0, <2>1, <2>2, <2>3, <2>4, BecomesRelays
<1>8. CASE BadEvent(r) \/ TooLarge(r)
  <2> DEFINE new == [m EXCEPT !.phase = "Failed"]
  <2>1. Becomes(r, new, ~Reemit(r)) \/ Becomes(r, new, FALSE)
    BY <1>1, <1>8 DEF BadEvent, TooLarge
  <2>2. new \in RelayType /\ SameKey(r, new) /\ new.phase = "Failed" /\ Measured(new)
    BY <1>1, <1>2 DEF RelayType, SameKey, Measured
  <2>3. (~Reemit(r)) \in BOOLEAN
    OBVIOUS
  <2> HIDE DEF new
  <2> QED
    BY <1>0, <2>1, <2>2, <2>3, BecomesRelays
<1>9. CASE UpstreamBreaks(r)
  <2> DEFINE ph == IF Closed(r) THEN "Finished" ELSE "Failed"
             new == [m EXCEPT !.phase = ph]
  <2>1. Becomes(r, new, FALSE)
    BY <1>1, <1>9 DEF UpstreamBreaks, Broken
  <2>2. ph \in {"Finished", "Failed"}
    OBVIOUS
  <2> HIDE DEF ph
  <2>3. new \in RelayType /\ SameKey(r, new) /\ new.phase = ph /\ Measured(new)
    BY <1>1, <1>2, <2>2 DEF RelayType, SameKey, Measured
  <2> HIDE DEF new
  <2> QED
    BY <1>0, <2>1, <2>2, <2>3, BecomesRelays
<1>10. ASSUME NEW t \in BOOLEAN, NEW f \in BOOLEAN, UpstreamEnds(r, t, f) PROVE Relays(r)
  <2>1. PICK new : /\ Becomes(r, new, FALSE)
                   /\ \/ new = [m EXCEPT !.phase = "Finished"]
                      \/ new = [m EXCEPT !.phase = "Failed"]
                      \/ new = [m EXCEPT !.phase = "Finished", !.usage = f,
                                         !.made = @ \cup Gave(f, "usage"),
                                         !.terminal = ~Reemit(r)]
    <3> DEFINE one == [m EXCEPT !.phase = "Finished"]
               two == [m EXCEPT !.phase = "Failed"]
               three == [m EXCEPT !.phase = "Finished", !.usage = f,
                                  !.made = @ \cup Gave(f, "usage"), !.terminal = ~Reemit(r)]
    <3>1. Becomes(r, CASE Closed(r) -> one [] ~Closed(r) /\ ~t -> two [] OTHER -> three, FALSE)
      BY <1>1, <1>10 DEF UpstreamEnds
    <3> HIDE DEF one, two, three
    <3>2. Becomes(r, one, FALSE) \/ Becomes(r, two, FALSE) \/ Becomes(r, three, FALSE)
      <4>1. CASE Closed(r)
        BY <3>1, <4>1
      <4>2. CASE ~Closed(r) /\ ~t
        BY <3>1, <4>2
      <4>3. CASE ~Closed(r) /\ t
        BY <3>1, <4>3
      <4> QED
        BY <4>1, <4>2, <4>3
    <3> QED
      BY <3>2 DEF one, two, three
  <2>2. PICK b : b = ~Reemit(r)
    OBVIOUS
  <2>3. b \in BOOLEAN
    BY <2>2
  <2>4. /\ new \in RelayType /\ SameKey(r, new) /\ new.phase \in {"Finished", "Failed"}
        /\ Measured(new)
    <3>1. CASE new = [m EXCEPT !.phase = "Finished"] \/ new = [m EXCEPT !.phase = "Failed"]
      BY <1>1, <1>2, <3>1 DEF RelayType, SameKey, Measured
    <3>2. CASE new = [m EXCEPT !.phase = "Finished", !.usage = f,
                               !.made = @ \cup Gave(f, "usage"), !.terminal = ~Reemit(r)]
      <4>1. PICK P : P = m.made \cup Gave(f, "usage")
        OBVIOUS
      <4>2. /\ P \in SUBSET Products /\ ("text" \in P => "text" \in m.made)
            /\ (P = {} => m.made = {} /\ ~f)
        BY <1>2, <4>1 DEF Gave, Products, RelayType
      <4>3. new = [m EXCEPT !.phase = "Finished", !.usage = f, !.made = P, !.terminal = b]
        BY <2>2, <3>2, <4>1
      <4>4. new \in RelayType /\ SameKey(r, new) /\ new.phase = "Finished"
        BY <1>1, <1>2, <2>3, <4>2, <4>3 DEF RelayType, SameKey
      <4>5. /\ new.made = P /\ new.usage = f /\ new.text = m.text /\ new.carried = m.carried
        BY <1>2, <4>3 DEF RelayType
      <4>6. Measured(new)
        BY <1>2, <4>2, <4>5 DEF Measured
      <4> QED
        BY <4>4, <4>6
    <3> QED
      BY <2>1, <3>1, <3>2
  <2> QED
    BY <1>0, <2>1, <2>4, BecomesRelays
<1>11. CASE RotationEnds(r) \/ RotationLimited(r)
  <2>1. PICK rest, ph : /\ Becomes(r, [m EXCEPT !.phase = ph, !.remaining = rest], FALSE)
                        /\ rest \in {m.remaining, Tail(m.remaining)}
                        /\ rest = Tail(m.remaining) => m.remaining # <<>> \/ rest = m.remaining
                        /\ ph \in {"Rotating", "Failed"} /\ m.phase = "Rotating"
    <3>1. CASE RotationEnds(r)
      <4>1. /\ Becomes(r, [m EXCEPT !.phase = "Failed",
                                   !.remaining = IF m.remaining = <<>> THEN m.remaining
                                                 ELSE Tail(m.remaining)], FALSE)
            /\ m.phase = "Rotating"
        BY <1>1, <3>1 DEF RotationEnds, In
      <4> QED
        BY <4>1
    <3>2. CASE RotationLimited(r)
      <4>1. /\ Becomes(r, [m EXCEPT !.remaining = Tail(m.remaining)], FALSE)
            /\ m.phase = "Rotating" /\ m.remaining # <<>>
        BY <1>1, <3>2 DEF RotationLimited, In
      <4>2. [m EXCEPT !.remaining = Tail(m.remaining)]
              = [m EXCEPT !.phase = "Rotating", !.remaining = Tail(m.remaining)]
        BY <1>2, <4>1 DEF RelayType
      <4> QED
        BY <4>1, <4>2
    <3> QED
      BY <1>11, <3>1, <3>2
  <2>2. rest \in Seq(Creds)
    BY <1>2, <2>1, HeadTailProperties
  <2> DEFINE new == [m EXCEPT !.phase = ph, !.remaining = rest]
  <2>3. /\ new \in RelayType /\ SameKey(r, new) /\ new.phase = ph /\ new.queued = m.queued
        /\ Measured(new)
    BY <1>1, <1>2, <2>1, <2>2 DEF RelayType, SameKey, Measured
  <2>4. Becomes(r, new, FALSE)
    BY <2>1
  <2> HIDE DEF new
  <2> QED
    BY <1>0, <1>2, <2>1, <2>3, <2>4, BecomesRelays
<1>12. CASE RotationOpens(r)
  <2>1. /\ m.phase = "Rotating" /\ m.remaining # <<>>
        /\ relay' = [relay EXCEPT ![r] = Rotated(m)] /\ wire' = [wire EXCEPT ![r] = {}]
    BY <1>1, <1>2, <1>12 DEF RotationOpens, In, Becomes
  <2>2. PICK c : c = Head(m.remaining)
    OBVIOUS
  <2>3. PICK rest : rest = Tail(m.remaining)
    OBVIOUS
  <2>4. c \in Creds /\ rest \in Seq(Creds) /\ c # "none"
    BY <1>2, <2>1, <2>2, <2>3, HeadTailProperties, DispatchAssumption
  <2>5. PICK b : b = (m.carried \/ m.text \/ m.usage)
    OBVIOUS
  <2>6. b \in BOOLEAN
    BY <2>5
  <2> DEFINE new == [m EXCEPT !.phase = "Streaming", !.serving = c, !.credential = c,
                              !.remaining = rest, !.carried = b, !.text = FALSE, !.usage = FALSE]
  <2>7. Rotated(m) = new
    BY <2>2, <2>3, <2>5 DEF Rotated
  <2>8. /\ new \in RelayType /\ new.serving = c /\ new.credential = c /\ new.phase = "Streaming"
        /\ Measured(new)
    BY <1>2, <2>4, <2>5, <2>6 DEF RelayType, Measured
  <2> HIDE DEF new
  <2>9. Single("relay", new, {})
    BY <2>4, <2>8 DEF Single
  <2> QED
    BY <1>0, <2>1, <2>7, <2>8, <2>9 DEF Relays
<1>13. Relays(r)
  BY <1>4, <1>5, <1>6, <1>7, <1>8, <1>9, <1>10, <1>11, <1>12 DEF Upstream
<1> QED
  BY <1>0, <1>13

\* What a stream is settled with agrees with what it produced.
LEMMA SettledHonest ==
  ASSUME NEW r \in Requests, WalkKept(r), RelayKept(r), pc[r] = "relay",
         NEW st \in {"Ok", "UpstreamError", "ClientCancelled"}
  PROVE  /\ Settled(r, st) \in RecordType /\ Produced(r) \in TruthType
         /\ Honest(Settled(r, st), Produced(r))
<1>1. CASE relay[r].settled
  BY <1>1 DEF Settled, Produced, WalkKept, WalkTyped
<1>2. CASE ~relay[r].settled
  <2>1. PICK m : m = relay[r]
    OBVIOUS
  <2>2. PICK n : n = walk[r].attempts
    OBVIOUS
  <2>3. PICK g : g = Charge(m)
    OBVIOUS
  <2>4. PICK P : P = m.made
    OBVIOUS
  <2>5. /\ g \in {"none", "reported", "partial"} /\ P \in SUBSET Products
        /\ ("text" \in P => g # "none") /\ (P = {} => g = "none")
    BY <2>1, <2>3, <2>4 DEF Charge, RelayKept, RelayType, Single, Measured
  <2>6. n \in Nat /\ Cardinality(walk[r].called) = n
    BY <2>2 DEF WalkKept, WalkTyped, WalkType, Tallied, Begun
  <2>7. m.credential \in Keys /\ wire[r] \in SUBSET Creds /\ wire[r] \subseteq {m.credential}
    BY <2>1 DEF RelayKept, RelayType, Single, Keys
  <2>8. /\ Settled(r, st) = Usage(n, m.credential, st, g)
        /\ Produced(r) = Truth(n, wire[r], P)
    BY <1>2, <2>1, <2>2, <2>3, <2>4, <2>6 DEF Settled, Produced
  <2>9. Usage(n, m.credential, st, g) \in RecordType /\ Truth(n, wire[r], P) \in TruthType
    BY <2>5, <2>6, <2>7, RecordTypes
  <2>10. Honest(Usage(n, m.credential, st, g), Truth(n, wire[r], P))
    BY <2>5, <2>7 DEF Honest, Usage, Truth
  <2> QED
    BY <2>8, <2>9, <2>10
<1> QED
  BY <1>1, <1>2

LEMMA DownstreamRelays ==
  ASSUME conf \in Configs, pc \in [Requests -> Points], wire \in [Requests -> SUBSET Creds],
         NEW r \in Requests, WalkKept(r), RelayKept(r), Downstream(r)
  PROVE  /\ Relays(r) /\ Settles(r)
         /\ Goes(r) \/ UNCHANGED <<pc, walk>>
<1>0. pc[r] = "relay"
  BY DEF Downstream, Deliver, TellFailure, SentinelTooLarge, Finish, DropBody, In
<1>1. PICK m : m = relay[r]
  OBVIOUS
<1>2. /\ m \in RelayType /\ (m.phase = "Rotating" => ~m.queued) /\ Measured(m)
  BY <1>1 DEF RelayKept, Single
<1>3. CASE Deliver(r)
  <2> DEFINE new == [m EXCEPT !.pending = FALSE]
  <2>1. Becomes(r, new, FALSE) /\ UNCHANGED <<pc, walk>> /\ Unsettled
    BY <1>1, <1>3 DEF Deliver, Relaying, Unsettled
  <2>2. /\ new \in RelayType /\ SameKey(r, new) /\ new.phase = m.phase /\ new.queued = m.queued
        /\ Measured(new)
    BY <1>1, <1>2 DEF RelayType, SameKey, Measured
  <2> HIDE DEF new
  <2>3. Relays(r)
    BY <1>0, <1>2, <2>1, <2>2, BecomesRelays
  <2> QED
    BY <2>1, <2>3 DEF Settles
<1>4. CASE TellFailure(r)
  <2> DEFINE new == [m EXCEPT !.phase = "Ended", !.pending = TRUE, !.settled = TRUE]
  <2>1. Becomes(r, new, FALSE) /\ UNCHANGED <<pc, walk>> /\ Settle(r, "UpstreamError")
    BY <1>1, <1>4 DEF TellFailure
  <2>2. new \in RelayType /\ SameKey(r, new) /\ new.phase = "Ended" /\ Measured(new)
    BY <1>1, <1>2 DEF RelayType, SameKey, Measured
  <2> HIDE DEF new
  <2>3. Relays(r)
    BY <1>0, <2>1, <2>2, BecomesRelays
  <2>4. Settles(r)
    BY <1>0, <2>1, SettledHonest DEF Settles, Settle
  <2> QED
    BY <2>1, <2>3, <2>4
<1>5. CASE SentinelTooLarge(r)
  <2> DEFINE new == [m EXCEPT !.phase = "Failed"]
  <2>1. Becomes(r, new, FALSE) /\ UNCHANGED <<pc, walk>> /\ Unsettled
    BY <1>1, <1>5 DEF SentinelTooLarge, Relaying, Unsettled
  <2>2. new \in RelayType /\ SameKey(r, new) /\ new.phase = "Failed" /\ Measured(new)
    BY <1>1, <1>2 DEF RelayType, SameKey, Measured
  <2> HIDE DEF new
  <2>3. Relays(r)
    BY <1>0, <2>1, <2>2, BecomesRelays
  <2> QED
    BY <2>1, <2>3 DEF Settles
<1>6. CASE Finish(r)
  <2>1. PICK b : b = Reemit(r)
    OBVIOUS
  <2>2. b \in BOOLEAN
    BY <2>1 DEF Reemit
  <2> DEFINE new == [m EXCEPT !.phase = "Ended", !.pending = b, !.settled = TRUE]
  <2>3. Becomes(r, new, FALSE) /\ UNCHANGED <<pc, walk>> /\ Settle(r, "Ok")
    BY <1>1, <1>6, <2>1 DEF Finish
  <2>4. new \in RelayType /\ SameKey(r, new) /\ new.phase = "Ended" /\ Measured(new)
    BY <1>1, <1>2, <2>2 DEF RelayType, SameKey, Measured
  <2> HIDE DEF new
  <2>5. Relays(r)
    BY <1>0, <2>3, <2>4, BecomesRelays
  <2>6. Settles(r)
    BY <1>0, <2>3, SettledHonest DEF Settles, Settle
  <2> QED
    BY <2>3, <2>5, <2>6
<1>7. CASE DropBody(r)
  <2>1. Leave(r, Settled(r, "ClientCancelled"), Produced(r))
    BY <1>7 DEF DropBody
  <2>2. Goes(r) /\ Settles(r)
    BY <1>0, <2>1, SettledHonest, LeaveGoes
  <2>3. pc'[r] = "idle"
    BY <2>1 DEF Leave, Goto
  <2>4. NoRelay \in RelayType /\ NoRelay.serving = NoRelay.credential
    BY EmptySeq DEF NoRelay, Relay, RelayType
  <2>5. Single("idle", NoRelay, {})
    BY DEF Single, NoRelay, Relay, Measured
  <2>6. Relays(r)
    BY <1>7, <2>3, <2>4, <2>5 DEF DropBody, Relays
  <2> QED
    BY <2>2, <2>6
<1> QED
  BY <1>3, <1>4, <1>5, <1>6, <1>7 DEF Downstream

-----------------------------------------------------------------------------
(* The invariant *)

\* The walk by itself never enters or leaves the relay.
LEMMA WalkOffRelay ==
  ASSUME pc \in [Requests -> Points], NEW r \in Requests,
         Arrival(r) \/ WalkStep(r) \/ Reply(r) \/ Cancel(r)
  PROVE  pc[r] # "relay" /\ pc'[r] # "relay"
<1>1. CASE Arrival(r)
  BY <1>1 DEF Arrival, Arrive, Goto
<1>2. CASE GiveUp(r) \/ SkipOpen(r) \/ OpenLease(r)
  BY <1>2 DEF GiveUp, SkipOpen, PassOver, OpenLease, Call, End, Leave, NextTarget, Goto
<1>3. CASE EnterTarget(r)
  BY <1>3 DEF EnterTarget, PassOver, Leave, NextTarget, Goto
<1>4. CASE Classify(r) \/ Planned(r)
  BY <1>4 DEF Classify, Planned, Goto
<1>5. CASE Reply(r) \/ Cancel(r)
  BY <1>5 DEF Reply, Served, NextLease, AttemptFails, Cancel, End, Leave, NextTarget, Goto
<1> QED
  BY <1>1, <1>2, <1>3, <1>4, <1>5 DEF WalkStep

\* A step of request r, and of what the walks share, keeps the invariant.
LEMMA OneStep ==
  ASSUME IInv, conf' = conf, SharedType', Evidence', NEW r \in Requests,
         Goes(r) \/ UNCHANGED <<pc, walk>>,
         Settles(r) \/ UNCHANGED <<record, truth>>,
         \/ Relays(r)
         \/ UNCHANGED <<relay, wire>> /\ ((pc'[r] = "relay") <=> (pc[r] = "relay"))
  PROVE  IInv'
<1>0. /\ pc \in [Requests -> Points] /\ walk \in [Requests -> WalkType]
      /\ record \in [Requests -> RecordType] /\ truth \in [Requests -> TruthType]
      /\ relay \in [Requests -> RelayType] /\ wire \in [Requests -> SUBSET Creds]
      /\ \A q \in Requests : RequestInv(q)
  BY DEF IInv, TypeOK
<1>1. /\ pc' \in [Requests -> Points] /\ walk' \in [Requests -> WalkType]
      /\ \A q \in Requests : q # r => pc'[q] = pc[q] /\ walk'[q] = walk[q]
      /\ Placed(pc'[r], walk'[r]) /\ Tallied(pc'[r], walk'[r])
  <2>1. CASE Goes(r)
    BY <1>0, <2>1 DEF Goes, Goto, Sound
  <2>2. CASE UNCHANGED <<pc, walk>>
    BY <1>0, <2>2 DEF RequestInv
  <2> QED
    BY <2>1, <2>2
<1>2. /\ record' \in [Requests -> RecordType] /\ truth' \in [Requests -> TruthType]
      /\ \A q \in Requests : q # r => record'[q] = record[q] /\ truth'[q] = truth[q]
      /\ Honest(record'[r], truth'[r])
  <2>1. CASE Unsettled \/ UNCHANGED <<record, truth>>
    BY <1>0, <2>1 DEF Unsettled, RequestInv
  <2>2. ASSUME NEW u \in RecordType, NEW t \in TruthType, Honest(u, t),
               record' = [record EXCEPT ![r] = u], truth' = [truth EXCEPT ![r] = t]
        PROVE  /\ record' \in [Requests -> RecordType] /\ truth' \in [Requests -> TruthType]
               /\ \A q \in Requests : q # r => record'[q] = record[q] /\ truth'[q] = truth[q]
               /\ Honest(record'[r], truth'[r])
    BY <1>0, <2>2
  <2> QED
    BY <2>1, <2>2 DEF Settles
<1>3. /\ relay' \in [Requests -> RelayType] /\ wire' \in [Requests -> SUBSET Creds]
      /\ \A q \in Requests : q # r => relay'[q] = relay[q] /\ wire'[q] = wire[q]
      /\ Single(pc'[r], relay'[r], wire'[r])
  <2>1. CASE Relays(r)
    BY <1>0, <2>1 DEF Relays
  <2>2. CASE UNCHANGED <<relay, wire>> /\ ((pc'[r] = "relay") <=> (pc[r] = "relay"))
    <3>1. Single(pc[r], relay[r], wire[r])
      BY <1>0 DEF RequestInv
    <3>2. Single(pc'[r], relay[r], wire[r])
      BY <2>2, <3>1 DEF Single
    <3> QED
      BY <1>0, <2>2, <3>2
  <2> QED
    BY <2>1, <2>2
<1>4. \A p, m : (Placed(p, m) <=> Placed(p, m)') /\ (Tallied(p, m) <=> Tallied(p, m)')
  BY DEF Placed, Tallied, Begun, Most
<1>5. ASSUME NEW q \in Requests PROVE RequestInv(q)'
  <2>1. CASE q = r
    BY <1>1, <1>2, <1>3, <2>1 DEF RequestInv, Placed, Tallied, Begun, Most, Honest, Single
  <2>2. CASE q # r
    <3>1. /\ pc'[q] = pc[q] /\ walk'[q] = walk[q] /\ record'[q] = record[q]
          /\ truth'[q] = truth[q] /\ relay'[q] = relay[q] /\ wire'[q] = wire[q] /\ RequestInv(q)
      BY <1>0, <1>1, <1>2, <1>3, <2>2
    <3> QED
      BY <3>1 DEF RequestInv, Placed, Tallied, Begun, Most, Honest, Single
  <2> QED
    BY <2>1, <2>2
<1>6. \A q \in Requests : pc'[q] \in {"lease", "calling"} => walk'[q].plan # <<>>
  BY <1>5 DEF RequestInv, Placed
<1>7. TypeOK'
  BY <1>1, <1>2, <1>6 DEF TypeOK, SharedType
<1> QED
  BY <1>3, <1>5, <1>7 DEF IInv

\* Nor does a step of what the walks share alone.
LEMMA SharedStep ==
  ASSUME IInv, conf' = conf, SharedType', Evidence',
         UNCHANGED <<pc, walk, record, truth, relay, wire>>
  PROVE  IInv'
<1>1. TypeOK'
  BY DEF IInv, TypeOK, SharedType
<1>2. ASSUME NEW q \in Requests PROVE RequestInv(q)'
  BY DEF IInv, RequestInv, Placed, Tallied, Begun, Most, Honest, Single
<1> QED
  BY <1>1, <1>2 DEF IInv

LEMMA InitIInv == Init => IInv
<1> SUFFICES ASSUME Init PROVE IInv
  OBVIOUS
<1>1. conf \in Configs
  BY DEF Init, WalkInit
<1>2. /\ conf.threshold \in Nat \ {0} /\ conf.failure_threshold \in Nat \ {0}
  BY <1>1, ConfFacts
<1>3. Sound("idle", NoWalk)
  BY <1>1, FreshWalk DEF NoWalk, Routes
<1>4. /\ pc = [r \in Requests |-> "idle"] /\ walk = [r \in Requests |-> NoWalk]
      /\ record = [r \in Requests |-> NoRecord] /\ truth = [r \in Requests |-> NoTruth]
      /\ relay = [r \in Requests |-> NoRelay] /\ wire = [r \in Requests |-> {}]
  BY DEF Init, WalkInit
<1>5. SharedType
  BY DEF Init, WalkInit, SharedType
<1>6. Evidence
  BY <1>2 DEF Init, WalkInit, Evidence, OnFaults, OnStrikes
<1>7. NoRelay \in RelayType
  BY EmptySeq DEF NoRelay, Relay, RelayType
<1>8. Single("idle", NoRelay, {})
  BY DEF Single, NoRelay, Relay, Measured
<1>9. TypeOK
  BY <1>3, <1>4, <1>5, RecordTypes DEF Sound, SharedType, TypeOK
<1>10. \A r \in Requests : RequestInv(r)
  BY <1>3, <1>4, <1>8, RecordTypes DEF RequestInv, Sound
<1> QED
  BY <1>4, <1>6, <1>7, <1>9, <1>10 DEF IInv

LEMMA StepIInv == IInv /\ [Next]_vars => IInv'
<1> SUFFICES ASSUME IInv, [Next]_vars PROVE IInv'
  OBVIOUS
<1>1. /\ TypeOK /\ Evidence /\ SharedType /\ conf \in Configs /\ cursor \in [Providers -> Nat]
      /\ pc \in [Requests -> Points] /\ walk \in [Requests -> WalkType]
      /\ relay \in [Requests -> RelayType] /\ wire \in [Requests -> SUBSET Creds]
  BY DEF IInv, TypeOK, SharedType
<1>2. \A r \in Requests : Placed(pc[r], walk[r])
  BY DEF IInv, RequestInv
<1>3. \A r \in Requests : WalkKept(r) /\ RelayKept(r)
  BY DEF IInv, TypeOK, RequestInv, WalkKept, WalkTyped, RelayKept
<1>4. ASSUME SharedMoves PROVE conf' = conf /\ SharedType' /\ Evidence'
  BY <1>1, <1>4, EvidenceStep DEF SharedMoves
<1>5. CASE WalkAlone /\ UNCHANGED <<relay, wire>>
  <2>1. conf' = conf /\ SharedType' /\ Evidence'
    BY <1>1, <1>2, <1>4, <1>5, WalkShares
  <2>2. ASSUME NEW r \in Requests, Arrival(r) \/ WalkStep(r) \/ Reply(r) \/ Cancel(r)
        PROVE  IInv'
    <3>1. Goes(r) /\ Settles(r)
      <4>1. CASE Arrival(r)
        BY <1>1, <4>1, ArriveGoes
      <4>2. CASE GiveUp(r) \/ SkipOpen(r) \/ EnterTarget(r)
        BY <1>1, <1>3, <4>2, TargetGoes
      <4>3. CASE Classify(r) \/ Planned(r)
        BY <1>1, <1>3, <4>3, PlanGoes
      <4>4. CASE OpenLease(r)
        BY <1>1, <1>3, <4>4, LeaseGoes
      <4>5. CASE Reply(r)
        BY <1>1, <1>3, <4>5, ReplyGoes
      <4>6. CASE Cancel(r)
        BY <1>1, <1>3, <4>6, WorldGoes
      <4> QED
        BY <2>2, <4>1, <4>2, <4>3, <4>4, <4>5, <4>6 DEF WalkStep
    <3>2. pc[r] # "relay" /\ pc'[r] # "relay"
      BY <1>1, <2>2, WalkOffRelay
    <3> QED
      BY <1>5, <2>1, <3>1, <3>2, OneStep
  <2>3. ASSUME NEW r \in Requests, BudgetSpent(r) PROVE IInv'
    <3>1. Goes(r) /\ Settles(r)
      BY <1>1, <1>3, <2>3, WorldGoes
    <3>2. pc' = pc
      BY <2>3 DEF BudgetSpent
    <3> QED
      BY <1>5, <2>1, <3>1, <3>2, OneStep
  <2>4. ASSUME (\E t \in Targets : CooldownElapses(t)) \/ (\E c \in Creds : ParkElapses(c))
               \/ Recovers
        PROVE  IInv'
    <3>1. UNCHANGED <<pc, walk, record, truth, relay, wire>>
      BY <1>5, <2>4 DEF CooldownElapses, ParkElapses, Recovers, history
    <3> QED
      BY <2>1, <3>1, SharedStep
  <2> QED
    BY <1>5, <2>2, <2>3, <2>4 DEF WalkAlone, World
<1>6. ASSUME NEW r \in Requests, OpenRelay(r) \/ Upstream(r) \/ Downstream(r) PROVE IInv'
  <2>1. conf' = conf /\ SharedType' /\ Evidence'
    BY <1>4, <1>6, RelayShares
  <2>2. CASE OpenRelay(r)
    <3>1. Goes(r) /\ Settles(r)
      BY <1>1, <1>3, <2>2, OpenedGoes DEF OpenRelay
    <3>2. Relays(r)
      BY <1>1, <1>3, <2>2, OpenRelays
    <3> QED
      BY <2>1, <3>1, <3>2, OneStep
  <2>3. CASE Upstream(r)
    <3>1. Relays(r) /\ UNCHANGED <<pc, walk, record, truth>>
      BY <1>1, <1>3, <2>3, UpstreamRelays
    <3> QED
      BY <2>1, <3>1, OneStep
  <2>4. CASE Downstream(r)
    <3>1. Relays(r) /\ Settles(r) /\ (Goes(r) \/ UNCHANGED <<pc, walk>>)
      BY <1>1, <1>3, <2>4, DownstreamRelays
    <3> QED
      BY <2>1, <3>1, OneStep
  <2> QED
    BY <1>6, <2>2, <2>3, <2>4
<1>7. CASE UNCHANGED vars
  <2>1. UNCHANGED <<conf, circuit, health, cursor, up, faults, strikes>>
    BY <1>7 DEF vars, walkVars, shared, history
  <2>2. UNCHANGED <<pc, walk, record, truth, relay, wire>>
    BY <1>7 DEF vars, walkVars, shared, history
  <2>3. SharedType' /\ Evidence'
    BY <1>1, <2>1 DEF SharedType, Evidence, OnFaults, OnStrikes
  <2> QED
    BY <2>1, <2>2, <2>3, SharedStep
<1> QED
  BY <1>5, <1>6, <1>7 DEF Next

-----------------------------------------------------------------------------
(* The theorems *)

\* The walks, the relays and what they share keep the inductive invariant,
\* whatever order their calls, timers and events come in.
THEOREM Invariance == Spec => []IInv
  BY InitIInv, StepIInv, PTL DEF Spec

\* A target is out of rotation only after as many faults of its own as the
\* threshold and no answer since, and a key only after as many rate limits of
\* its own (record_target_failure, CredentialHealth::record_failure_at).
THEOREM EvidenceTheorem == Spec => []OutOnOwnEvidence
<1>1. IInv => OutOnOwnEvidence
  BY DEF IInv, Evidence, OnFaults, OnStrikes, OutOnOwnEvidence
<1> QED
  BY <1>1, Invariance, PTL

\* A record counts the targets that were called, each once, and a walk calls
\* no more of them than its bound (FailoverWalk::attempts).
THEOREM AttemptsTheorem == Spec => []AttemptsExact
<1>1. IInv => AttemptsExact
  <2> SUFFICES ASSUME IInv, NEW r \in Requests
               PROVE  /\ record[r] # NoRecord => record[r].attempts = truth[r].calls
                      /\ Cardinality(walk[r].called) <= MaxAttempts(r)
    BY DEF AttemptsExact
  <2>1. /\ Honest(record[r], truth[r]) /\ Tallied(pc[r], walk[r])
        /\ walk[r] \in WalkType /\ conf \in Configs
    BY DEF IInv, TypeOK, RequestInv
  <2>2. MaxAttempts(r) = Most(walk[r]) /\ MaxAttempts(r) \in Nat
    BY <2>1, MostIsMax
  <2>3. PICK n : n = walk[r].attempts
    OBVIOUS
  <2>4. n \in Nat
    BY <2>1, <2>3 DEF WalkType
  <2>5. PICK k : k = Cardinality(walk[r].called)
    OBVIOUS
  <2>6. \/ k = n + 1 /\ n < Most(walk[r])
        \/ k = n /\ n <= Most(walk[r])
    BY <2>1, <2>3, <2>5 DEF Tallied, Begun
  <2>7. k <= MaxAttempts(r)
    BY <2>2, <2>4, <2>6
  <2> QED
    BY <2>1, <2>5, <2>7 DEF Honest
<1> QED
  BY <1>1, Invariance, PTL

\* What a caller receives is the content of one key, which the record names,
\* text that any key of the stream produced is charged, and a stream that
\* produced neither text nor usage is not (MayRotate, fold_attempt,
\* chargeable_usage).
THEOREM CompletionTheorem == Spec => []OneCompletion
<1>1. IInv => OneCompletion
  <2> SUFFICES ASSUME IInv PROVE OneCompletion
    OBVIOUS
  <2>1. ASSUME NEW r \in Requests
        PROVE  /\ (relay[r].serving = "none") = (pc[r] # "relay")
               /\ wire[r] \subseteq {relay[r].serving}
               /\ record[r] # NoRecord =>
                    /\ truth[r].sources \subseteq {record[r].credential}
                    /\ "text" \in truth[r].produced => record[r].charge # "none"
                    /\ truth[r].produced = {} => record[r].charge = "none"
    <3>1. Honest(record[r], truth[r]) /\ Single(pc[r], relay[r], wire[r])
      BY DEF IInv, RequestInv
    <3>2. NoRelay.serving = "none"
      BY DEF NoRelay, Relay
    <3>3. (relay[r].serving = "none") = (pc[r] # "relay")
      BY <3>1, <3>2 DEF Single
    <3> QED
      BY <3>1, <3>3 DEF Single, Honest
  <2> QED
    BY <2>1 DEF OneCompletion, RelayTypeOK, IInv
<1> QED
  BY <1>1, Invariance, PTL
=============================================================================
