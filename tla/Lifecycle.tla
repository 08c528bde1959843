----------------------------- MODULE Lifecycle -----------------------------
(***************************************************************************)
(* Termination of the process (shutdown.rs, the end of serve in main.rs    *)
(* and admission_middleware in routes/mod.rs).                             *)
(*                                                                         *)
(* A signal fails readiness, then closes admission; what is in flight has  *)
(* until the deadline, then is told to end itself.  The main task waits    *)
(* for the requests in flight, then for their settlements, and only then   *)
(* flushes the sinks: a settlement that lands later is a record nobody     *)
(* writes.                                                                 *)
(*                                                                         *)
(* The state is a few atomics, read and written without a lock, and a      *)
(* watch channel that wakes those asleep in wait_for.  Every action is one *)
(* access to that shared state.  A request here is its handler and body    *)
(* seen from admission_middleware, its settlement is the one of module     *)
(* Settlement.                                                             *)
(***************************************************************************)
EXTENDS Naturals, FiniteSets

CONSTANT Requests
ASSUME LifecycleAssumption == IsFiniteSet(Requests) /\ "main" \notin Requests

VARIABLES
  phase,       \* Lifecycle::phase
  in_flight,   \* Lifecycle::in_flight
  abandoning,  \* Lifecycle::abandoning
  news,        \* the watch receivers with a version they have not seen
  drain,       \* where the drain future is
  main,        \* where the main task is
  outcome,     \* Outcome
  pc,          \* where a request is in admission_middleware
  spawned,     \* requests whose settlement has been spawned and not finished
  stuck,       \* what quiesce reported
  unsettled,   \* what await_idle reported
  late         \* history: admitted on a phase loaded before quiesce returned

shared == <<phase, in_flight, abandoning, news>>
reports == <<stuck, unsettled, late>>
vars == <<shared, drain, main, outcome, pc, spawned, reports>>

Phases == {"Serving", "Draining", "Closing"}
Handler == {"entered", "checking", "running", "cancelled"}
InFlight == Handler \cup {"body", "leaving"}
Points == InFlight \cup {"idle", "loaded", "announcing", "ended"}
MainPoints == {"closed?", "closed", "asleepClosed", "deadline", "announcing", "quiet?",
               "quiet", "asleepQuiet", "quiesced", "settling", "flushing", "exited"}

TypeOK ==
  /\ phase \in Phases /\ in_flight \in Nat /\ abandoning \in BOOLEAN
  /\ news \subseteq Requests \cup {"main"}
  /\ drain \in {"signal", "grace", "announcing", "done"}
  /\ main \in MainPoints
  /\ outcome \in {"none", "Completed", "Abandoned"}
  /\ pc \in [Requests -> Points]
  /\ spawned \subseteq Requests
  /\ stuck \in Nat /\ unsettled \in Nat /\ late \subseteq Requests

Init ==
  /\ phase = "Serving" /\ in_flight = 0 /\ abandoning = FALSE /\ news = {}
  /\ drain = "signal" /\ main = "closed?" /\ outcome = "none"
  /\ pc = [r \in Requests |-> "idle"] /\ spawned = {}
  /\ stuck = 0 /\ unsettled = 0 /\ late = {}

-----------------------------------------------------------------------------
(* The watch channel *)

Announce == news' = Requests \cup {"main"}
Subscribe(w) == news' = news \ {w}

-----------------------------------------------------------------------------
(* drain *)

\* A termination signal: begin_drain.
Signal ==
  /\ drain = "signal" /\ drain' = "grace"
  /\ phase' = IF phase = "Serving" THEN "Draining" ELSE phase
  /\ UNCHANGED <<in_flight, abandoning, news, main, outcome, pc, spawned, reports>>

\* Mutant: admission is closed and nobody is told.
BugClose ==
  /\ drain = "grace" /\ drain' = "done" /\ phase' = "Closing"
  /\ UNCHANGED <<in_flight, abandoning, news, main, outcome, pc, spawned, reports>>

\* The grace is over, or a second signal cut it short: close stores the phase
\* and then announces it.
Close ==
  /\ drain = "grace" /\ drain' = "announcing" /\ phase' = "Closing"
  /\ UNCHANGED <<in_flight, abandoning, news, main, outcome, pc, spawned, reports>>

AnnounceClosed ==
  /\ drain = "announcing" /\ drain' = "done" /\ Announce
  /\ UNCHANGED <<phase, in_flight, abandoning, main, outcome, pc, spawned, reports>>

-----------------------------------------------------------------------------
(* admission_middleware *)

Goto(r, p, q) == pc[r] = p /\ pc' = [pc EXCEPT ![r] = q]

\* A request arrives and loads the phase; a closed gate answers Draining.  The
\* connections are gone once the server has completed.
LoadPhase(r) ==
  /\ outcome # "Completed"
  /\ Goto(r, "idle", IF phase = "Closing" THEN "ended" ELSE "loaded")
  /\ UNCHANGED <<shared, drain, main, outcome, spawned, reports>>

\* ... and then counts itself in.
Enter(r) ==
  /\ Goto(r, "loaded", "entered") /\ in_flight' = in_flight + 1
  /\ UNCHANGED <<phase, abandoning, news, drain, main, outcome, spawned, reports>>

\* The select between the handler and abandoned(): wait_for subscribes, ...
Watch(r) ==
  /\ Goto(r, "entered", "checking") /\ Subscribe(r)
  /\ UNCHANGED <<phase, in_flight, abandoning, drain, main, outcome, spawned, reports>>

\* ... checks, ...
CheckAbandoned(r) ==
  /\ Goto(r, "checking", IF abandoning THEN "cancelled" ELSE "running")
  /\ UNCHANGED <<shared, drain, main, outcome, spawned, reports>>

\* ... and sleeps until a version it has not seen.
WakeHandler(r) ==
  /\ r \in news /\ Subscribe(r) /\ Goto(r, "running", "checking")
  /\ UNCHANGED <<phase, in_flight, abandoning, drain, main, outcome, spawned, reports>>

\* The handler returns its response, whose body now holds the guard.  select
\* may poll the handler before abandoned().
Respond(r) ==
  /\ pc[r] \in {"checking", "running"} /\ pc' = [pc EXCEPT ![r] = "body"]
  /\ UNCHANGED <<shared, drain, main, outcome, spawned, reports>>

\* The inner body ends, is ended because the deadline passed, or is dropped
\* with its connection; or the handler's future is dropped.  What the request
\* owes is spawned as a settlement, unless it was accounted for inline.
DropInner(r) ==
  /\ pc[r] \in {"body", "cancelled"} /\ pc' = [pc EXCEPT ![r] = "leaving"]
  /\ \E s \in {{}, {r}} : spawned' = spawned \cup s
  /\ UNCHANGED <<shared, drain, main, outcome, reports>>

\* Drop for Admitted, after the inner body: the last one out announces it.
Leave(r) ==
  /\ Goto(r, "leaving", IF in_flight = 1 THEN "announcing" ELSE "ended")
  /\ in_flight' = in_flight - 1
  /\ UNCHANGED <<phase, abandoning, news, drain, main, outcome, spawned, reports>>

AnnounceLeft(r) ==
  /\ Goto(r, "announcing", "ended") /\ Announce
  /\ UNCHANGED <<phase, in_flight, abandoning, drain, main, outcome, spawned, reports>>

Settled(r) ==
  /\ r \in spawned /\ spawned' = spawned \ {r}
  /\ UNCHANGED <<shared, drain, main, outcome, pc, reports>>

-----------------------------------------------------------------------------
(* The main task: serve_bounded *)

Main(p, q) == main = p /\ main' = q

SubscribeClosed ==
  /\ Main("closed?", "closed") /\ Subscribe("main")
  /\ UNCHANGED <<phase, in_flight, abandoning, drain, outcome, pc, spawned, reports>>

CheckClosed ==
  /\ Main("closed", IF phase = "Closing" THEN "deadline" ELSE "asleepClosed")
  /\ UNCHANGED <<shared, drain, outcome, pc, spawned, reports>>

WakeClosed ==
  /\ "main" \in news /\ Subscribe("main") /\ Main("asleepClosed", "closed")
  /\ UNCHANGED <<phase, in_flight, abandoning, drain, outcome, pc, spawned, reports>>

\* The server completes: the drain is done and no connection is serving.
Served ==
  /\ main \in {"asleepClosed", "deadline"} /\ main' = "quiet?"
  /\ drain = "done" /\ \A r \in Requests : pc[r] \in {"idle", "ended"}
  /\ outcome' = "Completed"
  /\ UNCHANGED <<shared, drain, pc, spawned, reports>>

\* The deadline expires: abandon, whose announcement follows the flag.
Abandon ==
  /\ Main("deadline", "announcing")
  /\ abandoning' = TRUE /\ outcome' = "Abandoned"
  /\ UNCHANGED <<phase, in_flight, news, drain, pc, spawned, reports>>

AnnounceAbandoned ==
  /\ Main("announcing", "quiet?") /\ Announce
  /\ UNCHANGED <<phase, in_flight, abandoning, drain, outcome, pc, spawned, reports>>

-----------------------------------------------------------------------------
(* ... quiesce, await_idle, flush *)

SubscribeQuiet ==
  /\ Main("quiet?", "quiet") /\ Subscribe("main")
  /\ UNCHANGED <<phase, in_flight, abandoning, drain, outcome, pc, spawned, reports>>

CheckQuiet ==
  /\ Main("quiet", IF in_flight = 0 THEN "quiesced" ELSE "asleepQuiet")
  /\ UNCHANGED <<shared, drain, outcome, pc, spawned, reports>>

\* Mutant: the wake-up goes back to sleep without checking.
BugWakeQuiet ==
  /\ "main" \in news /\ Subscribe("main")
  /\ Main("asleepQuiet", "asleepQuiet")
  /\ UNCHANGED <<phase, in_flight, abandoning, drain, outcome, pc, spawned, reports>>

WakeQuiet ==
  /\ "main" \in news /\ Subscribe("main") /\ Main("asleepQuiet", "quiet")
  /\ UNCHANGED <<phase, in_flight, abandoning, drain, outcome, pc, spawned, reports>>

QuietTimeout ==
  /\ "main" \notin news /\ Main("asleepQuiet", "quiesced")
  /\ UNCHANGED <<shared, drain, outcome, pc, spawned, reports>>

\* quiesce returns in_flight, read after the wait.
Quiesced ==
  /\ Main("quiesced", "settling") /\ stuck' = in_flight
  /\ late' = {r \in Requests : pc[r] = "loaded"}
  /\ UNCHANGED <<shared, drain, outcome, pc, spawned, unsettled>>

\* await_idle: every spawned settlement finished, or the share is spent.
AwaitIdle ==
  /\ Main("settling", "flushing") /\ unsettled' = Cardinality(spawned)
  /\ UNCHANGED <<shared, drain, outcome, pc, spawned, stuck, late>>

\* The sinks are flushed, and the process exits with its runtime.
Flush ==
  /\ Main("flushing", "exited")
  /\ UNCHANGED <<shared, drain, outcome, pc, spawned, reports>>

-----------------------------------------------------------------------------

Drain == Signal \/ Close \/ AnnounceClosed

Wait ==
  \/ SubscribeClosed \/ CheckClosed \/ WakeClosed \/ Served \/ Abandon \/ AnnounceAbandoned
  \/ SubscribeQuiet \/ CheckQuiet \/ WakeQuiet \/ QuietTimeout \/ Quiesced
  \/ AwaitIdle \/ Flush

Request(r) ==
  \/ LoadPhase(r) \/ Enter(r) \/ Watch(r) \/ CheckAbandoned(r) \/ WakeHandler(r) \/ Respond(r)
  \/ DropInner(r) \/ Leave(r) \/ AnnounceLeft(r) \/ Settled(r)

Exited == main = "exited" /\ UNCHANGED vars

Next ==
  \/ main # "exited" /\ (Drain \/ Wait \/ \E r \in Requests : Request(r))
  \/ Exited

Spec == Init /\ [][Next]_vars

\* The timers of the drain and of every wait fire.  Nothing is assumed of a
\* request or of its settlement, and nothing sends the signal.
FairSpec ==
  /\ Spec
  /\ WF_vars(main # "exited" /\ (Close \/ AnnounceClosed))
  /\ WF_vars(main # "exited" /\ Wait)

-----------------------------------------------------------------------------
(* Properties *)

\* A sleeper whose condition holds has a version to see, or its announcement
\* is on its way: no change is missed between a check and the sleep, in closed,
\* abandoned or quiesce (shutdown.rs:184).
NoMissedChange ==
  /\ main = "asleepClosed" /\ phase = "Closing" =>
       "main" \in news \/ drain = "announcing"
  /\ main = "asleepQuiet" /\ in_flight = 0 =>
       "main" \in news \/ \E r \in Requests : pc[r] = "announcing"
  /\ \A r \in Requests : pc[r] = "running" /\ abandoning =>
       r \in news \/ main = "announcing"

\* A shutdown that reported nothing stuck and nothing unsettled flushed the
\* settlement of every request it had admitted (main.rs:212).  The requests it
\* may miss are those that had loaded an open phase and not yet counted
\* themselves in when quiesce returned.
CleanFlush ==
  main \in {"flushing", "exited"} /\ stuck = 0 /\ unsettled = 0 =>
    \A r \in Requests \ late : r \notin spawned /\ pc[r] \notin InFlight

\* A termination waits for what it has to: no wait sleeps through its change, and
\* one that reports a clean end had flushed all it admitted.
NothingLeftBehind == TypeOK /\ NoMissedChange /\ CleanFlush

\* "Every wait above is bounded" (shutdown.rs:33): once signalled the process
\* exits, whatever its requests and settlements do.
TerminationBounded == drain # "signal" ~> main = "exited"
=============================================================================
