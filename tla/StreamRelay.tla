---------------------------- MODULE StreamRelay ----------------------------
(***************************************************************************)
(* The relay of an opened stream (streaming.rs), one per streamed request  *)
(* of module Dispatch, whose circuits and credentials it goes on sharing.  *)
(*                                                                         *)
(* The chat route decodes the provider's events and re-emits them; the     *)
(* messages and responses routes pass the provider's bytes through and     *)
(* decode only to observe the usage.  A re-emitted stream that is rate     *)
(* limited before anything was queued for the caller moves to another key. *)
(*                                                                         *)
(* Text is abstracted to whether there was any, usage to whether the       *)
(* provider reported any.  The events of one chunk are separate actions:   *)
(* each may be of the same chunk as the last or of a new one, while what   *)
(* is decided by polling the provider waits until pending is empty.        *)
(***************************************************************************)
EXTENDS Dispatch

VARIABLES
  relay,     \* per request: the Relay of its stream and its Accounting
  wire       \* history: the keys whose content was queued for the caller

vars == <<walkVars, relay, wire>>

RelayType ==
  [phase : {"Streaming", "Rotating", "Failed", "Finished", "Ended"},
   serving : Creds \cup {"none"},     \* RotationHandle::serving
   credential : Creds \cup {"none"},  \* StreamContext::credential_id
   remaining : Seq(Creds),            \* RotationHandle::remaining
   pending : BOOLEAN,                 \* chunks wait to be taken by the caller
   queued : BOOLEAN,                  \* queued_downstream
   text : BOOLEAN,                    \* observed_output_chars > 0
   carried : BOOLEAN,                 \* carried_output_tokens > 0
   usage : BOOLEAN,                   \* the provider's usage is not zero
   terminal : BOOLEAN,                \* terminal_seen
   made : SUBSET Products,            \* history: what the keys so far produced
   settled : BOOLEAN]

Relay(c, rest) ==
  [phase |-> "Streaming", serving |-> c, credential |-> c, remaining |-> rest,
   pending |-> FALSE, queued |-> FALSE, text |-> FALSE, carried |-> FALSE,
   usage |-> FALSE, terminal |-> FALSE, made |-> {}, settled |-> FALSE]

NoRelay == Relay("none", <<>>)

\* The types, of the walk too; a relay has a key that serves.
RelayTypeOK ==
  /\ TypeOK
  /\ relay \in [Requests -> RelayType] /\ wire \in [Requests -> SUBSET Creds]
  /\ \A r \in Requests : (relay[r].serving = "none") = (pc[r] # "relay")

Init ==
  /\ WalkInit
  /\ relay = [r \in Requests |-> NoRelay]
  /\ wire = [r \in Requests |-> {}]

\* The stream of r is open and its relay in phase p.
In(r, p) == pc[r] = "relay" /\ relay[r].phase = p

Reemit(r) == walk[r].route = "chat"

\* The decoder of a passed-through stream stops at the terminal event.
Closed(r) == ~Reemit(r) /\ relay[r].terminal

\* A relay action leaves the walk and, unless it says so, the keys alone.
KeepKeys == UNCHANGED <<health, strikes>>
KeepShared == UNCHANGED <<conf, circuit, cursor, up, faults>>
Relaying == KeepShared /\ UNCHANGED <<pc, walk, record, truth>>

\* The relay m, with a chunk of the serving key queued for the caller.
Queue(m) == [m EXCEPT !.pending = TRUE, !.queued = TRUE]

\* The relay of r is m before its next event; content is queued by a
\* pass-through whatever the event.
Becomes(r, m, content) ==
  /\ relay' = [relay EXCEPT ![r] = IF content THEN Queue(m) ELSE m]
  /\ wire' = [wire EXCEPT ![r] = IF content THEN @ \cup {relay[r].serving} ELSE @]

-----------------------------------------------------------------------------
(* relay_opened_with_accounting *)

\* The leases the walk did not use.
Unused(r) == Tail(walk[r].plan)

OpenRelay(r) ==
  /\ Opened(r)
  /\ relay' = [relay EXCEPT ![r] = Relay(Lease(r), Unused(r))]
  /\ UNCHANGED wire

-----------------------------------------------------------------------------
(* poll_upstream and emit *)

Gave(b, what) == IF b THEN {what} ELSE {}

\* A Data event, with text or without.  A re-emitted event past the size bound
\* ends the stream and is not queued.
DataEvent(r, text, fits) ==
  LET m == [relay[r] EXCEPT !.text = @ \/ text, !.made = @ \cup Gave(text, "text")] IN
  /\ In(r, "Streaming") /\ ~Closed(r)
  /\ fits \/ Reemit(r)
  /\ Becomes(r, IF fits THEN m ELSE [m EXCEPT !.phase = "Failed"], fits)
  /\ Relaying /\ KeepKeys

\* Bytes that are passed on and not decoded: part of an event, or an extension
\* after the terminal event.
PassBytes(r) ==
  /\ In(r, "Streaming") /\ ~Reemit(r)
  /\ Becomes(r, relay[r], TRUE)
  /\ Relaying /\ KeepKeys

\* The terminal event carries the usage.  (emit's failure on a second one is out
\* of reach: a decoder gives one, and a stream that has it is not decoded on.)
DoneEvent(r, usage) ==
  LET m == [relay[r] EXCEPT !.usage = usage, !.made = @ \cup Gave(usage, "usage")] IN
  /\ In(r, "Streaming") /\ ~Closed(r)
  /\ Becomes(r, IF Reemit(r) THEN [m EXCEPT !.phase = "Finished"]
                ELSE [m EXCEPT !.terminal = TRUE], ~Reemit(r))
  /\ Relaying /\ KeepKeys

\* Mutant: a stream that has already sent content is moved to another key.
BugMayRotate(r) == Reemit(r)

MayRotate(r) == Reemit(r) /\ ~relay[r].queued

\* A rate limit in the stream counts against the key that serves.
RateLimitEvent(r) ==
  /\ In(r, "Streaming") /\ ~Closed(r)
  /\ CredFailure(relay[r].serving)
  /\ Becomes(r, [relay[r] EXCEPT !.phase = IF MayRotate(r) THEN "Rotating" ELSE "Failed"],
             ~Reemit(r))
  /\ Relaying

\* An event that cannot be decoded, or that is due past the stream's deadline.
BadEvent(r) ==
  /\ In(r, "Streaming") /\ ~Closed(r)
  /\ Becomes(r, [relay[r] EXCEPT !.phase = "Failed"], ~Reemit(r))
  /\ Relaying /\ KeepKeys

\* The size bound on what the provider sends: the chunk is not passed on.
TooLarge(r) ==
  /\ In(r, "Streaming")
  /\ Becomes(r, [relay[r] EXCEPT !.phase = "Failed"], FALSE)
  /\ Relaying /\ KeepKeys

\* An answer that is complete has been served, however its stream breaks.
Broken(r) == [relay[r] EXCEPT !.phase = IF Closed(r) THEN "Finished" ELSE "Failed"]

\* A transport error, the stream's deadline, or the grace after the terminal
\* event.
UpstreamBreaks(r) ==
  /\ In(r, "Streaming") /\ ~relay[r].pending
  /\ Becomes(r, Broken(r), FALSE)
  /\ Relaying /\ KeepKeys

\* finish_upstream: an end inside an event is a failure; otherwise the decoder
\* closes what the provider left open with the usage it has.
UpstreamEnds(r, whole, usage) ==
  /\ In(r, "Streaming") /\ ~relay[r].pending
  /\ Becomes(r, CASE Closed(r) -> [relay[r] EXCEPT !.phase = "Finished"]
                  [] ~Closed(r) /\ ~whole -> [relay[r] EXCEPT !.phase = "Failed"]
                  [] OTHER -> [relay[r] EXCEPT !.phase = "Finished", !.usage = usage,
                                               !.made = @ \cup Gave(usage, "usage"),
                                               !.terminal = ~Reemit(r)],
             FALSE)
  /\ Relaying /\ KeepKeys

-----------------------------------------------------------------------------
(* rotate and open_next *)

\* No key is left, the walk's budget is spent, or the key fails otherwise.
RotationEnds(r) ==
  /\ In(r, "Rotating")
  /\ Becomes(r, [relay[r] EXCEPT !.phase = "Failed",
                                 !.remaining = IF @ = <<>> THEN @ ELSE Tail(@)], FALSE)
  /\ Relaying /\ KeepKeys

RotationLimited(r) ==
  /\ In(r, "Rotating") /\ ~walk[r].expired /\ relay[r].remaining # <<>>
  /\ CredFailure(Head(relay[r].remaining))
  /\ Becomes(r, [relay[r] EXCEPT !.remaining = Tail(@)], FALSE)
  /\ Relaying

\* fold_attempt, then the new key serves.
Rotated(m) ==
  [m EXCEPT !.phase = "Streaming", !.serving = Head(m.remaining),
            !.credential = Head(m.remaining), !.remaining = Tail(@),
            !.carried = @ \/ m.text \/ m.usage, !.text = FALSE, !.usage = FALSE]

RotationOpens(r) ==
  /\ In(r, "Rotating") /\ ~walk[r].expired /\ relay[r].remaining # <<>>
  /\ Becomes(r, Rotated(relay[r]), FALSE)
  /\ Relaying /\ KeepKeys

-----------------------------------------------------------------------------
(* next_chunk and Accounting::settle *)

\* chargeable_usage.
Charge(m) == IF m.usage /\ ~m.carried THEN "reported"
             ELSE IF m.text \/ m.carried \/ m.usage THEN "partial" ELSE "none"

\* What the stream is settled with, and what it should be settled with.
Settled(r, status) ==
  IF relay[r].settled THEN record[r]
  ELSE Usage(walk[r].attempts, relay[r].credential, status, Charge(relay[r]))
Produced(r) ==
  IF relay[r].settled THEN truth[r]
  ELSE Truth(Cardinality(walk[r].called), wire[r], relay[r].made)

Settle(r, status) ==
  /\ record' = [record EXCEPT ![r] = Settled(r, status)]
  /\ truth' = [truth EXCEPT ![r] = Produced(r)]

\* The caller takes what is pending.
Deliver(r) ==
  /\ pc[r] = "relay" /\ relay[r].pending
  /\ Becomes(r, [relay[r] EXCEPT !.pending = FALSE], FALSE)
  /\ Relaying /\ KeepKeys

\* The failure is told in the stream, which then ends.
TellFailure(r) ==
  /\ In(r, "Failed") /\ ~relay[r].pending
  /\ Settle(r, "UpstreamError")
  /\ Becomes(r, [relay[r] EXCEPT !.phase = "Ended", !.pending = TRUE, !.settled = TRUE], FALSE)
  /\ KeepShared /\ KeepKeys /\ UNCHANGED <<pc, walk>>

\* The sentinel of a re-emitted stream is under the size bound too.
SentinelTooLarge(r) ==
  /\ In(r, "Finished") /\ ~relay[r].pending /\ Reemit(r)
  /\ Becomes(r, [relay[r] EXCEPT !.phase = "Failed"], FALSE)
  /\ Relaying /\ KeepKeys

Finish(r) ==
  /\ In(r, "Finished") /\ ~relay[r].pending
  /\ CredSuccess(relay[r].serving)
  /\ Settle(r, "Ok")
  /\ Becomes(r, [relay[r] EXCEPT !.phase = "Ended", !.pending = Reemit(r), !.settled = TRUE],
             FALSE)
  /\ KeepShared /\ UNCHANGED <<pc, walk>>

\* The body is dropped: the relay had ended, or the caller went, and what the
\* stream produced so far is charged.
DropBody(r) ==
  /\ pc[r] = "relay"
  /\ Leave(r, Settled(r, "ClientCancelled"), Produced(r))
  /\ relay' = [relay EXCEPT ![r] = NoRelay]
  /\ wire' = [wire EXCEPT ![r] = {}]
  /\ KeepShared /\ KeepKeys

-----------------------------------------------------------------------------

Upstream(r) ==
  \/ \E t, f \in BOOLEAN : DataEvent(r, t, f) \/ UpstreamEnds(r, t, f)
  \/ PassBytes(r) \/ RateLimitEvent(r) \/ BadEvent(r) \/ TooLarge(r) \/ UpstreamBreaks(r)
  \/ \E u \in BOOLEAN : DoneEvent(r, u)
  \/ RotationEnds(r) \/ RotationLimited(r) \/ RotationOpens(r)

Downstream(r) ==
  Deliver(r) \/ TellFailure(r) \/ SentinelTooLarge(r) \/ Finish(r) \/ DropBody(r)

Arrival(r) == \E x \in Routes, s \in BOOLEAN : Arrive(r, x, s)

WalkAlone == World \/ \E r \in Requests : Arrival(r) \/ WalkStep(r) \/ Reply(r)

Next == \/ WalkAlone /\ UNCHANGED <<relay, wire>>
        \/ \E r \in Requests : OpenRelay(r) \/ Upstream(r) \/ Downstream(r)

Spec == Init /\ [][Next]_vars

\* Tasks run and timers fire.  Callers keep coming, and of those not every one
\* has spent its budget before it reaches a target, or hangs up while its call
\* is out; a body is dropped in the end.
Success(r) == OpenRelay(r) \/ (Served(r) /\ UNCHANGED <<relay, wire>>)
Fairness ==
  /\ \A r \in Requests :
       /\ WF_vars(WalkStep(r) /\ UNCHANGED <<relay, wire>>)
       /\ WF_vars(Arrival(r) /\ UNCHANGED <<relay, wire>>)
       /\ SF_vars(EnterTarget(r) /\ UNCHANGED <<relay, wire>>)
       /\ SF_vars(Success(r))
       /\ WF_vars(DropBody(r))
  /\ \A t \in Targets : WF_vars(CooldownElapses(t) /\ UNCHANGED <<relay, wire>>)

FairSpec == Spec /\ Fairness

-----------------------------------------------------------------------------

\* What a caller receives is one completion: its content comes from a single
\* key, never from two spliced together, and the record names that key; text
\* that any key of the stream produced is never free, whatever rotations, breaks
\* and ends came after it, and a stream none of whose keys produced text or
\* reported usage is charged nothing.  (MayRotate, fold_attempt, chargeable_usage)
OneCompletion ==
  /\ RelayTypeOK
  /\ \A r \in Requests :
       /\ wire[r] \subseteq {relay[r].serving}
       /\ record[r] # NoRecord =>
            /\ truth[r].sources \subseteq {record[r].credential}
            /\ "text" \in truth[r].produced => record[r].charge # "none"
            /\ truth[r].produced = {} => record[r].charge = "none"

\* A target that is well comes back into rotation: the circuit of the first
\* target of the chain closes, even if its probe is lost with its caller
\* (CircuitBreaker::allow_at hands out another after a cooldown).
RecoveredIsServed ==
  up ~> \A t \in Targets : conf.recovers = t => circuit[t].state = "Closed"
=============================================================================
