-------------------------------- MODULE Wire --------------------------------
(***************************************************************************)
(* An answer on its way from the provider's socket to the caller and the   *)
(* accountant: the transport's call, the bytes cut into chunks, the SSE    *)
(* decoder, the codec of the route and what streaming.rs does with each    *)
(* decoded event.  A script is what the provider writes; it may lose,      *)
(* repeat or swap events, be cut off, and arrive in any pieces.            *)
(***************************************************************************)
EXTENDS Transport, Sse, Translate

CONSTANTS
    Scenarios,   \* a sequence: what is asked of the provider and what it answers
    MaxChunk     \* the most bytes that arrive at once

VARIABLES
    scenario,    \* the one that is played
    wire,        \* the text of its script, and where each event ends in it
    sent,        \* how many bytes of the text have arrived
    relay        \* the relay's decoders, what they gave, and how it ended

vars == <<scenario, wire, sent, relay, call>>

-----------------------------------------------------------------------------
(* The provider's side *)

\* One event as it is written; a style picks line endings and extra lines.
NewLine(style) == IF style.crlf THEN <<CR, LF>> ELSE <<LF>>
Written1(e, style) ==
    (IF style.comment THEN <<Byte("comment", "")>> \o NewLine(style) ELSE <<>>) \o
    (IF e.name # "" THEN <<Byte("event", e.name)>> \o NewLine(style) ELSE <<>>) \o
    <<Byte("data", e.key)>> \o
    (IF style.wide THEN <<Lead, Cont>> ELSE <<>>) \o NewLine(style) \o NewLine(style)

OnTheWire(script, style) ==
    LET texts == [i \in DOMAIN script |-> Written1(script[i], style)]
    IN [text |-> FlattenSeq(texts),
        ends |-> [i \in DOMAIN script |-> Len(FlattenSeq(SubSeq(texts, 1, i)))]]

Arrived == {i \in DOMAIN scenario.script : wire.ends[i] <= sent}

-----------------------------------------------------------------------------
(* The relay *)

Strict == scenario.strict
NewDecoder ==
    CASE scenario.codec = "native" -> NewNative
      [] scenario.codec = "translate" -> NewStream
      [] OTHER -> NewOpenAi
Decode(s, e) ==
    CASE scenario.codec = "native" -> NativeDecode(s, e)
      [] scenario.codec = "translate" -> StreamDecode(s, e)
      [] OTHER -> OpenAiDecode(scenario.codec = "responses", s, e)
FinishDecoder(s) ==
    CASE scenario.codec = "native" -> OpenAiFinish(s)
      [] scenario.codec = "translate" -> StreamFinish(s)
      [] OTHER -> OpenAiFinish(s)
Passthrough == scenario.codec \in {"native", "responses"}

NewRelay ==
    [carry |-> <<>>, sse |-> NewSse, decoder |-> NewDecoder, got |-> <<>>, out |-> <<>>,
     phase |-> "streaming", terminal |-> FALSE, usage |-> NoUsage, chars |-> 0]

\* relayed_text_len of one event; Anthropic's own thinking deltas are not looked at.
TextLen(x) ==
    IF x.k = "chunk" THEN Len(x.text) + Len(x.reasoning)
    ELSE IF x.e.delta = "thinking_delta" THEN 0 ELSE Len(x.e.text)

\* Relay::emit
emit(r, x) ==
    IF r.phase # "streaming" THEN r
    ELSE IF x.k # "done" THEN [r EXCEPT !.chars = @ + TextLen(x), !.out = Append(@, x)]
    ELSE IF ~Passthrough THEN [r EXCEPT !.usage = x.usage, !.phase = "finished"]
    ELSE IF r.terminal THEN [r EXCEPT !.usage = x.usage, !.phase = "failed"]
    ELSE [r EXCEPT !.usage = x.usage, !.terminal = TRUE]

\* The script's event an SSE event stands for, garbled or not.
Payload(sse) ==
    LET hits == {i \in DOMAIN scenario.script : <<scenario.script[i].key>> = sse.data}
    IN IF hits = {} THEN [scenario.script[1] EXCEPT !.key = "garbled", !.name = sse.event, !.json = FALSE,
                                                    !.sentinel = FALSE]
       ELSE [scenario.script[CHOOSE i \in hits : TRUE] EXCEPT !.name = sse.event]

\* One event of a chunk; nothing is decoded once the relay has an end.
Observe(r, sse) ==
    IF r.phase # "streaming" \/ (Passthrough /\ r.terminal) THEN r
    ELSE LET e == Payload(sse)
             d == Decode(r.decoder, e)
             seen == [r EXCEPT !.decoder = d.s, !.got = Append(@, e)]
         IN IF d.err # "" THEN [seen EXCEPT !.phase = "failed"] ELSE FoldLeft(emit, seen, d.out)

\* Relay::poll_upstream on a chunk
Absorb(r, chunk) ==
    IF Passthrough /\ r.terminal THEN r
    ELSE LET utf8 == decode_utf8(r.carry, chunk)
             pushed == push(r.sse, utf8.text, Strict)
             fed == [r EXCEPT !.carry = utf8.carry, !.sse = pushed.sse]
         IN IF pushed.err # "" THEN [fed EXCEPT !.phase = "failed"]
            ELSE FoldLeft(Observe, fed, pushed.events)

\* Relay::finish_upstream
AtEnd(r) ==
    IF Passthrough /\ r.terminal THEN [r EXCEPT !.phase = "finished"]
    ELSE IF ~SseFinished(r.sse) \/ r.carry # <<>> THEN [r EXCEPT !.phase = "failed"]
    ELSE LET d == FinishDecoder(r.decoder)
             given == FoldLeft(emit, [r EXCEPT !.decoder = d.s], d.out)
         IN IF given.phase = "streaming" THEN [given EXCEPT !.phase = "finished"] ELSE given

\* A broken or silent socket ends the relay; after the terminal event it is no failure.
AtBreak(r) == [r EXCEPT !.phase = IF Passthrough /\ r.terminal THEN "finished" ELSE "failed"]

\* Accounting::chargeable_usage, one attempt: the provider's numbers if it gave
\* any, else the prompt's estimate and a quarter of the text seen.
Quarter(n) == (n + 3) \div 4
chargeable_usage ==
    LET u == relay.usage IN
    IF \E c \in Counters \ {"reasoning"} : u[c] > 0 THEN u
    ELSE IF relay.chars = 0 THEN NoUsage
    ELSE [u EXCEPT !.input = scenario.estimate, !.output = Quarter(relay.chars)]

-----------------------------------------------------------------------------
Init ==
    /\ \E n \in DOMAIN Scenarios : scenario = Scenarios[n]
    /\ wire = OnTheWire(scenario.script, scenario.style)
    /\ call = NewCall(scenario.deadline)
    /\ sent = 0
    /\ relay = NewRelay

Same == UNCHANGED <<scenario, wire, sent, relay>>
Streamed == scenario.mode = "stream"
Relaying == relay.phase = "streaming"

Setup ==
    /\ Dispatch \/ Connect \/ ConnectTimeout \/ Headers(scenario.status, Streamed)
    /\ Same

Body ==
    /\ \/ \E n \in 1..MaxChunk : BodyChunk(n) \/ ErrorChunk(n)
       \/ BodyEnd \/ ErrorEnd
    /\ Same

Arrive(n) ==
    /\ Relaying /\ sent + n <= Len(wire.text)
    /\ StreamChunk
    /\ sent' = sent + n
    /\ relay' = Absorb(relay, SubSeq(wire.text, sent + 1, sent + n))
    /\ UNCHANGED <<scenario, wire>>

\* The body ends, after the whole text or anywhere before.
Close ==
    /\ Relaying
    /\ StreamEnd
    /\ relay' = AtEnd(relay)
    /\ UNCHANGED <<scenario, wire, sent>>

Interrupted ==
    /\ Break \/ PhaseTimeout
    /\ relay' = IF call.at = "stream" /\ Relaying THEN AtBreak(relay) ELSE relay
    /\ UNCHANGED <<scenario, wire, sent>>

Next ==
    \/ Setup \/ Body \/ Close \/ Interrupted
    \/ \E n \in 1..MaxChunk : Arrive(n)
    \/ Tick /\ Same

Spec == Init /\ [][Next]_vars

-----------------------------------------------------------------------------
(* Properties *)

\* However the text is cut into chunks, in the middle of a line ending, of a
\* delimiter or of a character, the codec sees the events that were written,
\* each with its name and payload, in order and as soon as its last byte is
\* there; only the codec's own end, or strict decoding's refusal, stops it earlier.
DecodedAsSent ==
    /\ relay.got = SubSeq(scenario.script, 1, Len(relay.got))
    /\ relay.phase = "streaming" /\ ~relay.terminal => Len(relay.got) = Cardinality(Arrived)
    /\ Strict /\ relay.got # <<>> => ~scenario.style.comment

\* What the provider reported up to event n, the latest value of each counter.
LatestUsage(n) ==
    LET reports == SelectSeq(SubSeq(scenario.script, 1, n), LAMBDA e : e.hasUsage) IN
    IF scenario.codec \in {"chat", "responses"}
    THEN IF reports = <<>> THEN NoUsage ELSE chat_usage(Last(reports).usage)
    ELSE [c \in Counters |->
            LET with == SelectSeq(reports, LAMBDA e : c \in DOMAIN e.usage)
            IN IF with = <<>> THEN 0 ELSE Last(with).usage[c]]

\* The events that carry a message; a ping and an extension may come anywhere.
OfMessage == {"message_start", "content_block_start", "content_block_delta", "content_block_stop",
              "message_delta", "message_stop"}

\* A native message that is whole: one start, before everything else of it,
\* blocks opened once and closed, a thinking block signed, the final delta after
\* all of them, and then the stop.
WholeMessage(es) ==
    LET Of(type) == {i \in DOMAIN es : es[i].type = type}
        starts == Of("content_block_start")
        stops == Of("content_block_stop")
        lastStop(i) == {j \in stops : es[j].index = es[i].index}
    IN /\ \E first \in DOMAIN es : /\ Of("message_start") = {first}
                                   /\ \A i \in 1..(first - 1) : es[i].type \notin OfMessage
       /\ Of("message_stop") = {Len(es)}
       /\ \E i \in Of("message_delta") : es[i].stop \notin {"null", "absent"}
       /\ \A i \in starts :
            /\ {j \in starts : es[j].index = es[i].index} = {i}
            /\ Cardinality(lastStop(i)) = 1
            /\ \A j \in lastStop(i) : i < j /\ \A d \in Of("message_delta") : j < d
            /\ es[i].block = "thinking" =>
                 \E d \in Of("content_block_delta") :
                    /\ es[d].index = es[i].index /\ es[d].delta = "signature_delta"
                    /\ \A o \in Of("content_block_delta") : es[o].index = es[i].index => o <= d
       /\ \A d \in Of("content_block_delta") :
            \E i \in starts : i < d /\ es[i].index = es[d].index
                              /\ \A j \in lastStop(i) : d < j

CarriedStop ==
    /\ relay.got # <<>>
    /\ \/ Last(relay.got).sentinel
       \/ ~(scenario.codec = "chat") /\ Last(relay.got).type \in {"message_stop", "response.completed"}

\* A stream that ended well on its stop event carried, on the native wire, a
\* whole message before it; one that ended without a stop was not cut inside an
\* event and every event that arrived was looked at.  Either way the charge is
\* the latest value of each counter the provider reported, or the measured part
\* when it reported none.
SuccessIsWhole ==
    relay.phase = "finished" =>
        /\ relay.usage = LatestUsage(Len(relay.got))
        /\ IF CarriedStop THEN scenario.codec = "native" => WholeMessage(relay.got)
           ELSE /\ sent \in Range(wire.ends) \cup {0}
                /\ Len(relay.got) = Cardinality(Arrived)
        /\ (\E i \in DOMAIN relay.out : TextLen(relay.out[i]) > 0) =>
             \E c \in Counters : chargeable_usage[c] > 0

\* Anthropic's text, tool calls, reasoning and usage reach the caller alike,
\* streamed or buffered: the chunks of a whole streamed message assemble to what
\* decode_response answers for it.  Thinking counts when it precedes the first
\* tool call, the finish reason when the provider's agrees with its blocks.  Two
\* things differ: a call without arguments is "{}" when buffered and empty when
\* streamed, and every message_delta, the final one or not, is a chunk with a
\* finish reason, of which the last is the answer's.
StreamedAsBuffered ==
    LET m == scenario.message
        whole == decode_response(m)
        calls == assemble(relay.out)
        ends == SelectSeq(relay.out, LAMBDA x : x.finish # "")
        tool(i) == m.blocks[i].block = "tool_use"
        ahead == \A i, j \in DOMAIN m.blocks : tool(i) /\ m.blocks[j].block = "thinking" => j < i
        plain == m.stop \in {"tool_use", "max_tokens"} \/ whole.calls = <<>>
    IN scenario.codec = "translate" /\ scenario.faultless /\ relay.phase = "finished"
         /\ relay.decoder.terminal /\ Len(relay.got) = Len(scenario.script) =>
        /\ FlattenSeq([i \in DOMAIN relay.out |-> relay.out[i].text]) = whole.content
        /\ FlattenSeq([i \in DOMAIN relay.out |-> relay.out[i].reasoning]) = whole.reasoning
        /\ ahead => FlattenSeq([i \in DOMAIN relay.out |-> relay.out[i].details]) = whole.details
        /\ DOMAIN calls = 0..(Len(whole.calls) - 1)
        /\ \A n \in DOMAIN calls :
             LET buffered == whole.calls[n + 1] IN
             calls[n] = IF buffered.args = Serialized(<<>>) THEN [buffered EXCEPT !.args = <<>>]
                        ELSE buffered
        /\ Len(ends) = Len(SelectSeq(scenario.script, LAMBDA e : e.type = "message_delta"))
        /\ Last(ends).usage = openai_usage(whole.usage)
        /\ plain => Last(ends).finish = whole.finish
        /\ \A i \in DOMAIN relay.out :
             relay.out[i].role = (/\ relay.out[i].finish = ""
                                  /\ \A j \in 1..(i - 1) : relay.out[j].finish # "")

\* The turn the caller sends back, and the request built from it.
Answer == LET d == decode_response(scenario.message) IN
    [role |-> "assistant", id |-> "", calls |-> d.calls, details |-> d.details,
     content |-> IF d.content = <<>> THEN <<>> ELSE <<[part |-> "text", value |-> "t"]>>]
Turns(before) ==
    before \o <<Answer>> \o
    [i \in DOMAIN Answer.calls |-> [role |-> "tool", id |-> Answer.calls[i].id, calls |-> <<>>,
                                    details |-> <<>>, content |-> <<>>]]
Request == build_request([scenario.body EXCEPT !.messages = Turns(@)])

\* An answer sent back with its tool results becomes a request the provider
\* takes: turns alternate and none is empty, the thinking budget leaves room for
\* the answer and excludes a temperature, each signed thinking block of a
\* tool-calling answer comes back exactly as it was signed and first in its turn,
\* unless the turn is joined to one of the assistant's right before it, and every
\* call is followed by its result.
TurnsRoundTrip ==
    LET r == Request
        types(i) == [j \in DOMAIN r.messages[i].content |-> r.messages[i].content[j].type]
        thinkingOf(i) == SelectSeq(r.messages[i].content, LAMBDA b : b.type = "thinking")
        ids(type) == UNION {{b.text : b \in {c \in Range(r.messages[i].content) : c.type = type}} :
                              i \in DOMAIN r.messages}
    IN scenario.codec = "translate" /\ call.at = "ready" =>
        /\ \A i \in DOMAIN r.messages :
             /\ r.messages[i].content # <<>>
             /\ i > 1 => r.messages[i].role # r.messages[i - 1].role
             /\ Last(scenario.body.messages).role # "assistant" =>
                  \A j, k \in DOMAIN types(i) : types(i)[j] = "thinking" /\ k < j
                                                   => types(i)[k] = "thinking"
        /\ r.thinking # <<>> => /\ r.thinking[1] >= MinThinking /\ r.thinking[1] < r.max_tokens
                                /\ ~r.temperature
        /\ r.thinking # <<>> /\ Answer.calls # <<>> =>
             \E i \in DOMAIN r.messages :
                [j \in DOMAIN thinkingOf(i) |-> thinkingOf(i)[j].text]
                    = SignedOf(OfType(scenario.message, "thinking"))
        /\ ids("tool_use") = ids("tool_result")

\* A call stays inside the walk's deadline until a stream is open, holds no more
\* bytes than its bound, keeps the provider's status whatever happens to the
\* error body, and blames the walk's budget only when that was spent, a phase
\* only when the phase had the whole of its own bound.
CallBounded ==
    /\ call.late = 0
    /\ call.held <= (IF call.status \in {0, 200} THEN MaxResponse ELSE MaxError)
    /\ Ended /\ call.status \notin {0, 200} => call.result = "upstream"
    /\ Ended /\ call.result = "timeout" /\ call.bound = "walk" => call.left = 0
    /\ Ended /\ call.result = "timeout" /\ call.bound = "phase" =>
         call.waited >= (CASE call.kind = "connect" -> ConnectBound
                           [] call.kind = "response_headers" -> HeaderBound
                           [] call.kind = "buffered_body" -> BodyBound
                           [] OTHER -> IdleBound)
=============================================================================
