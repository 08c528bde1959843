------------------------------ MODULE Dispatch ------------------------------
(***************************************************************************)
(* The failover walk (routes/dispatch.rs) over the targets of an alias and *)
(* the credentials of each target's pool, with what concurrent walks       *)
(* share: the breaker of a target (gateway-core circuit.rs) and the health *)
(* of a credential with its pool's cursor (credentials.rs).                *)
(*                                                                         *)
(* Time is two environment actions: a cooldown elapses (the flag "due" of  *)
(* a circuit, "due" of a parked credential), a walk's overall budget ends  *)
(* (expired).  A call is an await: other walks run while it is out, its    *)
(* caller may go, and its result is applied to whatever the shared state   *)
(* has become.  A stream that opens leaves the walk for the relay (module  *)
(* StreamRelay) with the leases it has not used.                           *)
(*                                                                         *)
(* What runs without an await is one step, although circuits, health and   *)
(* cursors are locks of their own: entering a target is its allow and the  *)
(* cursor's fetch_add, a result the key's health and the target's circuit. *)
(* No property relates two of these to each other, and a walk acts on each *)
(* by itself.  The targets of a walk are those of its snapshot, which has  *)
(* their providers: the branches for one that is missing are not taken.    *)
(***************************************************************************)
EXTENDS Naturals, Sequences, FiniteSets

CONSTANTS
  Requests,    \* connections, each of which sends one request after another
  Targets,
  Providers,
  Creds,
  Configs,     \* the configurations the process may be started with
  NoTarget     \* not a target

Routes == {"chat", "messages", "embeddings", "responses", "continuation"}

ConfigType ==
  [routes : SUBSET Routes,
   modes : [Requests -> SUBSET BOOLEAN],  \* may it be streamed, may it be buffered
   chain : Seq(Targets),                  \* the alias's targets, in order
   provider : [Targets -> Providers],
   pool : [Providers -> Seq(Creds)],      \* of the caller's namespace; <<>> for none
   weight : [Creds -> Nat],               \* all one for round robin
   max_attempts : Nat, threshold : Nat, failure_threshold : Nat,
   recovers : Targets \cup {NoTarget}]    \* a target that is well from some point on

ASSUME DispatchAssumption ==
  /\ IsFiniteSet(Requests) /\ NoTarget \notin Targets /\ "none" \notin Creds
  /\ Configs \subseteq ConfigType
  /\ \A c \in Configs :
       c.max_attempts > 0 /\ c.threshold > 0 /\ c.failure_threshold > 0
       /\ c.chain # <<>>

VARIABLES
  conf,      \* the configuration
  circuit,   \* per target: its Circuit
  health,    \* per credential: its Circuit in CredentialHealth
  cursor,    \* per provider: the cursor of its pool, modulo the total weight
  up,        \* conf.recovers is well
  pc,        \* where the walk of a request is
  walk,      \* the locals of its walk, FailoverWalk among them
  record,    \* its usage record
  truth,     \* history: what the record should say
  faults,    \* history: failures that are a target's own since it served
  strikes    \* history: rate limits of a credential since it served

shared == <<conf, circuit, health, cursor, up>>
history == <<truth, faults, strikes>>
walkVars == <<shared, pc, walk, record, history>>

Points == {"idle", "target", "plan", "lease", "calling", "relay"}
Outcomes == {"rate", "fault", "missing", "invalid", "overall"}
Keys == Creds \cup {"none"}

WalkType ==
  [route : Routes, streamed : BOOLEAN,
   index : Nat,          \* the position of the target in the chain
   attempts : Nat,       \* FailoverWalk::attempts
   last : Keys,          \* the lease of FailoverWalk::last or last_error
   expired : BOOLEAN,    \* overall_timeout_ms has passed
   order : Seq(Creds),   \* the pool entries that are still to be classified
   plan : Seq(Creds),    \* CredentialPlan::attempts, from the one being tried on
   parked : Seq(Creds),  \* CredentialPlan::parked
   fresh : BOOLEAN,      \* no lease of this target was tried yet
   called : SUBSET Nat]  \* history: positions of the targets that were called

Walk(x, s) ==
  [route |-> x, streamed |-> s, index |-> 1, attempts |-> 0, last |-> "none",
   expired |-> FALSE, order |-> <<>>, plan |-> <<>>, parked |-> <<>>, fresh |-> TRUE,
   called |-> {}]
NoWalk == Walk("chat", FALSE)

RecordType == [attempts : Nat, credential : Keys, charge : {"none", "reported", "partial"},
               status : {"none", "Ok", "UpstreamError", "ClientCancelled"}]
Usage(n, c, s, g) == [attempts |-> n, credential |-> c, charge |-> g, status |-> s]
NoRecord == Usage(0, "none", "none", "none")

\* How many targets were called, which keys gave content, and what the
\* providers produced on the way: text, or a report of usage.
Products == {"text", "usage"}
TruthType == [calls : Nat, sources : SUBSET Creds, produced : SUBSET Products]
Truth(n, S, P) == [calls |-> n, sources |-> S, produced |-> P]
NoTruth == Truth(0, {}, {})

\* The types, and a walk that is at a lease has one to try.
TypeOK ==
  /\ conf \in Configs
  /\ circuit \in [Targets -> [state : {"Closed", "Open", "HalfOpen"},
                              failures : Nat, due : BOOLEAN]]
  /\ health \in [Creds -> [failures : Nat, parked : {"no", "cooling", "due"}]]
  /\ cursor \in [Providers -> Nat]
  /\ up \in BOOLEAN
  /\ pc \in [Requests -> Points]
  /\ walk \in [Requests -> WalkType]
  /\ record \in [Requests -> RecordType]
  /\ truth \in [Requests -> TruthType]
  /\ faults \in [Targets -> Nat] /\ strikes \in [Creds -> Nat]
  /\ \A r \in Requests : pc[r] \in {"lease", "calling"} => walk[r].plan # <<>>

WalkInit ==
  /\ conf \in Configs
  /\ circuit = [t \in Targets |-> [state |-> "Closed", failures |-> 0, due |-> FALSE]]
  /\ health = [c \in Creds |-> [failures |-> 0, parked |-> "no"]]
  /\ cursor = [p \in Providers |-> 0]
  /\ up = FALSE
  /\ pc = [r \in Requests |-> "idle"]
  /\ walk = [r \in Requests |-> NoWalk]
  /\ record = [r \in Requests |-> NoRecord]
  /\ truth = [r \in Requests |-> NoTruth]
  /\ faults = [t \in Targets |-> 0] /\ strikes = [c \in Creds |-> 0]

-----------------------------------------------------------------------------
(* CircuitBreaker: a circuit after allow, record_success, record_failure *)

Allowed(t) == circuit[t].state = "Closed" \/ circuit[t].due

\* An open circuit past its cooldown hands out a probe and waits again; so does
\* a half-open one, whose probe never reported.
AfterAllow(k) ==
  IF k.state = "Closed" THEN k ELSE [k EXCEPT !.state = "HalfOpen", !.due = FALSE]

\* Mutant: a half-open circuit waits for its probe, which may never report.
BugCooled(k) == IF k.state = "Open" THEN [k EXCEPT !.due = TRUE] ELSE k

\* The cooldown of the phase has elapsed.
Cooled(k) == IF k.state = "Closed" THEN k ELSE [k EXCEPT !.due = TRUE]

AfterSuccess(k) == [state |-> "Closed", failures |-> 0, due |-> FALSE]

AfterFailure(k) ==
  CASE k.state = "Closed" ->
         [k EXCEPT !.failures = @ + 1,
                   !.state = IF k.failures + 1 >= conf.threshold THEN "Open" ELSE @]
    [] k.state = "HalfOpen" ->
         [state |-> "Open", failures |-> conf.threshold, due |-> FALSE]
    [] OTHER -> k

-----------------------------------------------------------------------------
(* CredentialHealth and Pool *)

\* classify_at: the credential to try, and its health once the probe is taken.
Eligibility(c) == CASE health[c].parked = "no" -> "Healthy"
                    [] health[c].parked = "due" -> "Probe"
                    [] OTHER -> "Parked"
Classified(c) ==
  health' = IF Eligibility(c) = "Probe"
            THEN [health EXCEPT ![c].parked = "cooling"] ELSE health

CredSuccess(c) == /\ health' = [health EXCEPT ![c] = [failures |-> 0, parked |-> "no"]]
                  /\ strikes' = [strikes EXCEPT ![c] = 0]

\* The failure count saturates in the code; here at the threshold, past which
\* every further failure parks again in the same way.
Capped(n, max) == IF n < max THEN n ELSE max

Parks(n) == n >= conf.failure_threshold

CredFailure(c) ==
  LET n == Capped(health[c].failures + 1, conf.failure_threshold) IN
  /\ health' = [health EXCEPT ![c].failures = n,
                              ![c].parked = IF Parks(n) THEN "cooling" ELSE @]
  /\ strikes' = [strikes EXCEPT ![c] = Capped(@ + 1, conf.failure_threshold)]

Ladder(pool) ==
  LET sum[i \in 0..Len(pool)] ==
        IF i = 0 THEN 0 ELSE sum[i - 1] + conf.weight[pool[i]]
  IN sum

TotalWeight(pool) == LET n == Ladder(pool)[Len(pool)] IN IF n = 0 THEN 1 ELSE n

\* The entry a tick starts with: the first rung of the ladder above it.
Start(pool, tick) ==
  LET above == {i \in 1..Len(pool) : tick < Ladder(pool)[i]} IN
  IF above = {} THEN Len(pool) ELSE CHOOSE i \in above : \A j \in above : i <= j

\* Pool::order: from the start on, around the pool.
Rotation(pool, tick) ==
  [i \in 1..Len(pool) |-> pool[((Start(pool, tick) + i - 2) % Len(pool)) + 1]]

-----------------------------------------------------------------------------
(* What an error says: is_retryable, affects_provider_health,               *)
(* is_credential_exhausted, was_never_dispatched                            *)

Retryable(o) == o \in {"rate", "fault", "missing", "overall"}
AffectsProviderHealth(o) == o \in {"rate", "fault", "overall"}
CredentialExhausted(o) == o = "rate"
NeverDispatched(o) == o = "overall"

\* Mutant: a walk whose budget was spent counts against a target it never called.
BugTargetScoped(o) == AffectsProviderHealth(o) /\ ~CredentialExhausted(o)

TargetScoped(o) == /\ AffectsProviderHealth(o)
                   /\ ~CredentialExhausted(o) /\ ~NeverDispatched(o)

RecordTargetFailure(t, o) ==
  /\ circuit' = IF TargetScoped(o) THEN [circuit EXCEPT ![t] = AfterFailure(@)]
                ELSE circuit
  /\ faults' = IF o = "fault" THEN [faults EXCEPT ![t] = Capped(@ + 1, conf.threshold)]
               ELSE faults

RecordTargetSuccess(t) ==
  /\ circuit' = [circuit EXCEPT ![t] = AfterSuccess(@)]
  /\ faults' = [faults EXCEPT ![t] = 0]

-----------------------------------------------------------------------------
(* The walk *)

Pinned(r) == walk[r].route \in {"responses", "continuation"}
MaxAttempts(r) == IF Pinned(r) THEN 1 ELSE conf.max_attempts
Target(r) == conf.chain[walk[r].index]
Pool(r) == conf.pool[conf.provider[Target(r)]]
Lease(r) == Head(walk[r].plan)

\* The walk of r is at p, with locals m.
Goto(r, p, m) == /\ pc' = [pc EXCEPT ![r] = p]
                 /\ walk' = [walk EXCEPT ![r] = m]

\* The request is over, and settled with usage u if there is a record of it.
Leave(r, u, t) ==
  /\ Goto(r, "idle", NoWalk)
  /\ record' = [record EXCEPT ![r] = u]
  /\ truth' = [truth EXCEPT ![r] = t]

\* The walk gives up after n attempts; the error of lease c, if there was one,
\* is settled as one usage record.
End(r, n, c) ==
  Leave(r, IF c = "none" THEN NoRecord ELSE Usage(n, c, "UpstreamError", "none"),
        Truth(Cardinality(walk[r].called), {}, {}))

Unsettled == UNCHANGED <<record, truth>>

NextTarget(r, m) == Goto(r, "target", [m EXCEPT !.index = @ + 1]) /\ Unsettled

Streamable == Routes \ {"embeddings"}

Arrive(r, x, s) ==
  /\ pc[r] = "idle"
  /\ x \in conf.routes /\ s \in conf.modes[r] /\ (s => x \in Streamable)
  /\ Goto(r, "target", Walk(x, s))
  /\ record' = [record EXCEPT ![r] = NoRecord]
  /\ truth' = [truth EXCEPT ![r] = NoTruth]
  /\ UNCHANGED <<shared, faults, strikes>>

Over(r) == \/ walk[r].index > Len(conf.chain)
           \/ Pinned(r) /\ walk[r].index > 1
           \/ walk[r].attempts >= MaxAttempts(r)
           \/ walk[r].expired

GiveUp(r) ==
  /\ pc[r] = "target" /\ Over(r)
  /\ End(r, walk[r].attempts, walk[r].last)
  /\ UNCHANGED <<shared, faults, strikes>>

\* The target cannot be used.  A continuation may go nowhere else, and ends
\* without a record.
PassOver(r) ==
  IF walk[r].route = "continuation" THEN Leave(r, NoRecord, NoTruth)
  ELSE NextTarget(r, walk[r])

SkipOpen(r) ==
  /\ pc[r] = "target" /\ ~Over(r) /\ ~Allowed(Target(r))
  /\ PassOver(r)
  /\ UNCHANGED <<shared, faults, strikes>>

\* The circuit lets the walk in, which may take its probe; then the pool is
\* resolved.  A pinned route uses the first key whatever its health.
EnterTarget(r) ==
  LET t == Target(r)  p == conf.provider[t]  pool == Pool(r)
      m == [walk[r] EXCEPT !.fresh = TRUE, !.parked = <<>>]
  IN
  /\ pc[r] = "target" /\ ~Over(r) /\ Allowed(t)
  /\ circuit' = [circuit EXCEPT ![t] = AfterAllow(@)]
  /\ CASE pool = <<>> -> PassOver(r) /\ UNCHANGED cursor
       [] pool # <<>> /\ Pinned(r) ->
            /\ Goto(r, "lease", [m EXCEPT !.plan = <<pool[1]>>])
            /\ Unsettled /\ UNCHANGED cursor
       [] OTHER ->
            /\ Goto(r, "plan", [m EXCEPT !.plan = <<>>, !.order = Rotation(pool, cursor[p])])
            /\ cursor' = [cursor EXCEPT ![p] = (@ + 1) % TotalWeight(pool)]
            /\ Unsettled
  /\ UNCHANGED <<conf, health, up, faults, strikes>>

\* One entry of plan_at, under the lock of the health table.
Classify(r) ==
  LET m == walk[r]  c == Head(m.order)  e == Eligibility(c) IN
  /\ pc[r] = "plan" /\ m.order # <<>>
  /\ Classified(c)
  /\ walk' = [walk EXCEPT ![r] =
       [m EXCEPT !.order = Tail(@),
                 !.plan = CASE e = "Healthy" -> Append(@, c)
                            [] e = "Probe" -> <<c>> \o @
                            [] OTHER -> @,
                 !.parked = IF e = "Parked" THEN Append(@, c) ELSE @]]
  /\ UNCHANGED <<conf, circuit, cursor, up, pc, record, history>>

\* Health is advisory: if every key is parked, the first of the rotation is tried.
Attempts(m) == IF m.plan = <<>> THEN <<Head(m.parked)>> ELSE m.plan

Planned(r) ==
  LET m == walk[r] IN
  /\ pc[r] = "plan" /\ m.order = <<>>
  /\ Goto(r, "lease", [m EXCEPT !.plan = Attempts(m)])
  /\ UNCHANGED <<shared, record, history>>

\* Mutant: a streamed walk cut short between two leases forgets the target it
\* was on.
BugCutShort(m) == m.attempts

\* attempts when a streamed walk finds its budget spent before a lease.
CutShort(m) == m.attempts + (IF m.fresh THEN 0 ELSE 1)

\* open_stream_lease, or a turn of dispatch_over_pool: the call is out.
Call(r, m) ==
  /\ Goto(r, "calling", [m EXCEPT !.called = @ \cup {m.index}, !.fresh = FALSE])
  /\ Unsettled

\* The streamed walk checks its budget before every lease, the buffered one
\* leaves it to the transport.
OpenLease(r) ==
  LET m == walk[r] IN
  /\ pc[r] = "lease"
  /\ IF m.streamed /\ m.expired
     THEN End(r, CutShort(m), m.last) ELSE Call(r, m)
  /\ UNCHANGED <<shared, faults, strikes>>

\* A provider that is well serves.
MayFail(r) == ~(up /\ Target(r) = conf.recovers)

\* dispatch_over_pool and the walk around it: the answer is here.
Served(r) ==
  /\ pc[r] = "calling" /\ ~walk[r].streamed
  /\ CredSuccess(Lease(r))
  /\ RecordTargetSuccess(Target(r))
  /\ Leave(r, Usage(walk[r].attempts + 1, Lease(r), "Ok", "reported"),
           Truth(Cardinality(walk[r].called), {Lease(r)}, {"usage"}))
  /\ UNCHANGED <<conf, cursor, up>>

\* The stream is open: the target has served; the key only when the relay ends.
Opened(r) ==
  /\ pc[r] = "calling" /\ walk[r].streamed
  /\ RecordTargetSuccess(Target(r))
  /\ Goto(r, "relay", [walk[r] EXCEPT !.attempts = @ + 1])
  /\ UNCHANGED <<conf, cursor, up, health, record, truth, strikes>>

\* A 429 counts against the key; the same target is tried with the next one.
NextLease(r) ==
  LET m == walk[r] IN
  /\ pc[r] = "calling" /\ MayFail(r) /\ Len(m.plan) > 1
  /\ CredFailure(Lease(r))
  /\ Goto(r, "lease", [m EXCEPT !.plan = Tail(@),
                                !.last = IF m.streamed THEN Lease(r) ELSE @])
  /\ UNCHANGED <<conf, circuit, cursor, up, record, truth, faults>>

\* FailoverPolicy::decide.
TryNext(o, more) == more /\ Retryable(o)

\* The walk may go on after n attempts.
HasNext(r, n) ==
  walk[r].index < Len(conf.chain) /\ n < MaxAttempts(r) /\ ~walk[r].expired

\* The attempt at this target ended with error o: a 429 of the last key, or
\* any other error.  The streamed walk compares the attempts before this one,
\* and after a 429 it leaves the bound to the head of the loop.
AttemptFails(r, o) ==
  LET m == walk[r]
      n == m.attempts + 1
      more == HasNext(r, IF m.streamed THEN m.attempts ELSE n)
  IN
  /\ pc[r] = "calling" /\ MayFail(r)
  /\ o = "overall" => m.expired
  /\ o = "rate" => Len(m.plan) = 1
  /\ IF (m.streamed /\ o = "rate") \/ TryNext(o, more)
     THEN NextTarget(r, [m EXCEPT !.attempts = n, !.last = Lease(r)])
     ELSE End(r, n, Lease(r))
  /\ RecordTargetFailure(Target(r), o)
  /\ IF o = "rate" THEN CredFailure(Lease(r)) ELSE UNCHANGED <<health, strikes>>
  /\ UNCHANGED <<conf, cursor, up>>

\* The caller went while the call was out: the future is dropped, the walk
\* records nothing, and a probe it held is not given back.
Cancel(r) ==
  /\ pc[r] = "calling"
  /\ Leave(r, NoRecord, NoTruth)
  /\ UNCHANGED <<shared, faults, strikes>>

-----------------------------------------------------------------------------
(* Time and the provider *)

BudgetSpent(r) ==
  /\ pc[r] # "idle" /\ ~walk[r].expired
  /\ walk' = [walk EXCEPT ![r].expired = TRUE]
  /\ UNCHANGED <<shared, pc, record, history>>

CooldownElapses(t) ==
  /\ circuit[t] # Cooled(circuit[t])
  /\ circuit' = [circuit EXCEPT ![t] = Cooled(@)]
  /\ UNCHANGED <<conf, health, cursor, up, pc, walk, record, history>>

ParkElapses(c) ==
  /\ health[c].parked = "cooling"
  /\ health' = [health EXCEPT ![c].parked = "due"]
  /\ UNCHANGED <<conf, circuit, cursor, up, pc, walk, record, history>>

Recovers ==
  /\ conf.recovers # NoTarget /\ ~up
  /\ up' = TRUE
  /\ UNCHANGED <<conf, circuit, health, cursor, pc, walk, record, history>>

\* The steps a walk takes by itself, and those of its callers and of the world.
WalkStep(r) ==
  \/ GiveUp(r) \/ SkipOpen(r) \/ EnterTarget(r)
  \/ Classify(r) \/ Planned(r) \/ OpenLease(r)

Reply(r) == Served(r) \/ NextLease(r) \/ \E o \in Outcomes : AttemptFails(r, o)

World ==
  \/ \E r \in Requests : BudgetSpent(r) \/ Cancel(r)
  \/ \E t \in Targets : CooldownElapses(t)
  \/ \E c \in Creds : ParkElapses(c)
  \/ Recovers

-----------------------------------------------------------------------------

\* A target is out of rotation only on its own evidence: as many failures of
\* the target itself as the threshold, and no answer from it since.  Neither
\* its callers' keys, nor a missing model, nor a spent budget open its circuit;
\* and a key is parked on its own rate limits only.  (record_target_failure,
\* CredentialHealth::record_failure_at)
OutOnOwnEvidence ==
  /\ \A t \in Targets :
       IF circuit[t].state = "Closed" THEN circuit[t].failures = faults[t]
       ELSE faults[t] = conf.threshold
  /\ \A c \in Creds :
       health[c].parked # "no" => strikes[c] = conf.failure_threshold

\* Whatever path ends a walk, its record counts the targets that were called,
\* each once, and the walk keeps the bound on attempts (FailoverWalk::attempts).
AttemptsExact ==
  \A r \in Requests :
    /\ record[r] # NoRecord => record[r].attempts = truth[r].calls
    /\ Cardinality(walk[r].called) <= MaxAttempts(r)
=============================================================================
