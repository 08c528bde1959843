----------------------------- MODULE Transport ------------------------------
(***************************************************************************)
(* One upstream call of the HTTP transport (gateway-transport, lib.rs):    *)
(* dispatch and headers, then a buffered body, an error body or an open    *)
(* stream, each wait under the tighter of its own bound and what is left   *)
(* of the walk's deadline.  Time passes in ticks; a timer that is due goes *)
(* off before time passes further.                                         *)
(***************************************************************************)
EXTENDS Integers

CONSTANTS
    ConnectBound, HeaderBound, BodyBound, IdleBound,   \* TransportLimits, in ticks
    MaxResponse, MaxError                              \* and in bytes

ASSUME BoundsAssumption ==
    /\ {ConnectBound, HeaderBound, BodyBound, IdleBound, MaxError} \subseteq Nat \ {0}
    /\ MaxError <= MaxResponse

VARIABLE call

\* left: what remains of the deadline; budget: of the running wait; held: bytes
\* read of a body; late: ticks that passed on a spent deadline (ghost).
NewCall(deadline) ==
    [at |-> "ready", left |-> deadline, waited |-> 0, budget |-> 0, bound |-> "phase",
     connected |-> FALSE, held |-> 0, status |-> 0, late |-> 0, result |-> "", kind |-> ""]

Waiting == {"headers", "body", "error_body", "stream"}
Ended == call.at = "ended"
Lesser(a, b) == IF a <= b THEN a ELSE b

EndAs(c, result, kind, bound) ==
    [c EXCEPT !.at = "ended", !.result = result, !.kind = kind, !.bound = bound]

\* Mutant: only the phase's own bound is applied.
BugWait(c, phase, own) == [c EXCEPT !.at = phase, !.waited = 0, !.budget = own, !.bound = "phase"]

\* The start of a wait: HttpDispatcher::budget.
Wait(c, phase, own) ==
    IF c.left = 0 THEN EndAs(c, "timeout", "overall", "walk")
    ELSE [c EXCEPT !.at = phase, !.waited = 0, !.budget = Lesser(c.left, own),
                   !.bound = IF c.left < own THEN "walk" ELSE "phase"]

\* send_bounded
Dispatch ==
    /\ call.at = "ready"
    /\ call' = Wait(call, "headers", HeaderBound)

Connect ==
    /\ call.at = "headers" /\ ~call.connected
    /\ call' = [call EXCEPT !.connected = TRUE]

\* The client's own timeout is the connect bound, whatever else is running.
ConnectDue == call.at = "headers" /\ ~call.connected /\ call.waited >= ConnectBound
ConnectTimeout ==
    /\ ConnectDue
    /\ call' = EndAs(call, "timeout", "connect", "phase")

\* The connection fails, or the body breaks off; an error body is then short.
Break ==
    /\ call.at \in Waiting
    /\ call' = IF call.at = "error_body" THEN EndAs(call, "upstream", "", "phase")
               ELSE EndAs(call, "http", "", "phase")

\* error_body: best effort, with whatever time is left, none included.
Headers(status, streamed) ==
    /\ call.at = "headers" /\ call.connected
    /\ LET c == [call EXCEPT !.status = status] IN
       call' = IF status # 200
               THEN [c EXCEPT !.at = "error_body", !.waited = 0,
                              !.budget = Lesser(c.left, BodyBound), !.bound = "phase"]
               ELSE IF streamed
               THEN [c EXCEPT !.at = "stream", !.waited = 0, !.budget = IdleBound, !.bound = "phase"]
               ELSE Wait(c, "body", BodyBound)

\* read_bounded refuses before it appends; read_truncated cuts.
BodyChunk(n) ==
    /\ call.at = "body"
    /\ call' = IF call.held + n > MaxResponse THEN EndAs(call, "too_large", "", "phase")
               ELSE [call EXCEPT !.held = @ + n]
ErrorChunk(n) ==
    /\ call.at = "error_body" /\ call.held < MaxError
    /\ call' = [call EXCEPT !.held = Lesser(@ + n, MaxError)]

BodyEnd ==
    /\ call.at = "body"
    /\ call' = EndAs(call, "body", "", "phase")
ErrorEnd ==
    /\ call.at = "error_body"
    /\ call' = EndAs(call, "upstream", "", "phase")

\* idle_bounded_stream: every chunk starts a new wait.
StreamChunk ==
    /\ call.at = "stream"
    /\ call' = [call EXCEPT !.waited = 0]
StreamEnd ==
    /\ call.at = "stream"
    /\ call' = EndAs(call, "eof", "", "phase")

KindOf(at) ==
    CASE at = "headers" -> "response_headers" [] at = "body" -> "buffered_body"
      [] at = "stream" -> "stream_idle" [] OTHER -> ""

Due == call.at \in Waiting /\ call.waited >= call.budget
PhaseTimeout ==
    /\ Due
    /\ call' = IF call.at = "error_body" THEN EndAs([call EXCEPT !.held = 0], "upstream", "", "phase")
               ELSE EndAs(call, "timeout", KindOf(call.at), call.bound)

Tick ==
    /\ call.at \in Waiting /\ ~Due /\ ~ConnectDue
    /\ call' = [call EXCEPT !.waited = @ + 1, !.left = IF @ > 0 THEN @ - 1 ELSE 0,
                            !.late = IF call.left = 0 /\ call.at # "stream" THEN @ + 1 ELSE @]
=============================================================================
