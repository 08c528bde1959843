------------------------------- MODULE Codec --------------------------------
(***************************************************************************)
(* The provider codecs of gateway-core (openai.rs, anthropic.rs,           *)
(* provider.rs, tool_call.rs): stream decoders as functions of their state *)
(* and an event, the buffered decoder and the request encoder as functions *)
(* of a message.  Text is a sequence of pieces.  An event's payload is a   *)
(* record with the fields the decoders look at; a usage object is a        *)
(* function on the counters it carries; "" is an absent name.              *)
(***************************************************************************)
EXTENDS Integers, Sequences, SequencesExt, FiniteSetsExt, Functions

Counters == {"input", "output", "reasoning", "cache_read", "cache_write"}
NoUsage == [c \in Counters |-> 0]
Report(u, c) == IF c \in DOMAIN u THEN u[c] ELSE 0

\* chat_usage: OpenAI counts cached tokens among the prompt's, and the gateway
\* keeps the two apart.  A report that only carries Anthropic's cache counters
\* is taken as it is.
chat_usage(u) ==
    [input |-> Max({Report(u, "prompt") - Report(u, "cached"), 0}),
     output |-> Report(u, "completion"), reasoning |-> Report(u, "reasoning"),
     cache_read |-> IF "cached" \in DOMAIN u THEN u.cached ELSE Report(u, "cache_read"),
     cache_write |-> Report(u, "cache_write")]

\* openai_usage: the disjoint counters in OpenAI's shape.
openai_usage(u) ==
    [prompt |-> u.input + u.cache_read + u.cache_write, completion |-> u.output,
     cached |-> u.cache_read, reasoning |-> u.reasoning,
     total |-> u.input + u.output + u.cache_read + u.cache_write]

\* Mutant: a report replaces the whole of what was known.
BugMergeUsage(usage, u) == [c \in Counters |-> Report(u, c)]

\* Anthropic reports in parts; a part overwrites the counters it carries.
MergeUsage(usage, u) == [c \in Counters |-> IF c \in DOMAIN u THEN u[c] ELSE usage[c]]

-----------------------------------------------------------------------------
(* What a decoder answers *)

Ok(s, out) == [s |-> s, out |-> out, err |-> ""]
Fail(s, err) == [s |-> s, out |-> <<>>, err |-> err]
Invalid(s) == Fail(s, "invalid")
Data(e) == [k |-> "data", e |-> e]
Done(usage) == [k |-> "done", usage |-> usage]

Kind(e) == IF e.name # "" THEN e.name ELSE e.type
Disagrees(e) == e.name # "" /\ e.type # "" /\ e.name # e.type

-----------------------------------------------------------------------------
(* OpenAiStreamDecoder *)

NewOpenAi == [usage |-> NoUsage, done |-> FALSE]

OpenAiDecode(responses, s, e) ==
    LET seen == IF e.hasUsage THEN [s EXCEPT !.usage = chat_usage(e.usage)] ELSE s
        completed == e.type = "response.completed"
    IN IF e.sentinel
       THEN IF responses /\ e.name # "" THEN Invalid(s)
            ELSE Ok([s EXCEPT !.done = TRUE], <<Done(s.usage)>>)
       ELSE IF ~e.json THEN Invalid(s)
       ELSE IF e.limited THEN Fail(s, "limited")
       ELSE IF responses /\ (e.type = "" \/ Disagrees(e)) THEN Invalid(s)
       ELSE IF completed /\ ~e.whole THEN Invalid(s)
       ELSE IF responses /\ completed
       THEN Ok([seen EXCEPT !.done = TRUE], <<Data(e), Done(seen.usage)>>)
       ELSE Ok(seen, <<Data(e)>>)

OpenAiFinish(s) == IF s.done THEN Ok(s, <<>>) ELSE Ok([s EXCEPT !.done = TRUE], <<Done(s.usage)>>)

-----------------------------------------------------------------------------
(* NativeMessagesDecoder: relayed unchanged, followed for order and usage *)

NewNative ==
    [usage |-> NoUsage, done |-> FALSE, started |-> FALSE, delta |-> FALSE,
     terminal |-> FALSE, seen |-> {}, open |-> <<>>]

native_delta_matches_block(block, delta) ==
    CASE block = "text" -> delta \in {"text_delta", "citations_delta"}
      [] block \in {"tool_use", "server_tool_use"} -> delta = "input_json_delta"
      [] block = "thinking" -> delta \in {"thinking_delta", "signature_delta"}
      [] block \in {"redacted_thinking", "fallback"} -> FALSE
      [] OTHER -> delta # "text_delta"

\* `whole` says that the payload has the fields its block or delta needs.
NativeStart(s, e) ==
    IF e.type # "message_start" \/ s.started \/ ~e.whole THEN Invalid(s)
    ELSE Ok([s EXCEPT !.started = TRUE, !.usage = MergeUsage(@, e.usage)], <<Data(e)>>)

NativeBlockStart(s, e) ==
    IF \/ e.index = 0 \/ e.block = "" \/ e.type # "content_block_start"
       \/ ~s.started \/ s.delta \/ ~e.whole \/ e.index \in s.seen
    THEN Invalid(s)
    ELSE Ok([s EXCEPT !.seen = @ \cup {e.index},
                      !.open = (e.index :> [block |-> e.block, signed |-> FALSE]) @@ @], <<Data(e)>>)

NativeBlockDelta(s, e) ==
    IF \/ e.index \notin DOMAIN s.open \/ e.delta = "" \/ e.type # "content_block_delta"
       \/ ~s.started \/ s.delta \/ ~e.whole
    THEN Invalid(s)
    ELSE LET b == s.open[e.index] IN
         IF ~native_delta_matches_block(b.block, e.delta) \/ (b.block = "thinking" /\ b.signed)
         THEN Invalid(s)
         ELSE Ok([s EXCEPT !.open[e.index].signed = @ \/ e.delta = "signature_delta"], <<Data(e)>>)

NativeBlockStop(s, e) ==
    IF \/ e.index \notin DOMAIN s.open \/ e.type # "content_block_stop" \/ ~s.started \/ s.delta
       \/ s.open[e.index].block = "thinking" /\ ~s.open[e.index].signed
    THEN Invalid(s)
    ELSE Ok([s EXCEPT !.open = Restrict(@, DOMAIN @ \ {e.index})], <<Data(e)>>)

NativeMessageDelta(s, e) ==
    IF \/ e.type # "message_delta" \/ ~s.started \/ s.terminal \/ DOMAIN s.open # {}
       \/ ~e.whole \/ e.stop = "absent"
    THEN Invalid(s)
    ELSE Ok([s EXCEPT !.delta = TRUE, !.terminal = @ \/ e.stop # "null",
                      !.usage = MergeUsage(@, e.usage)], <<Data(e)>>)

NativeStop(s, e) ==
    IF e.type # "message_stop" \/ ~s.started \/ ~s.terminal \/ DOMAIN s.open # {} THEN Invalid(s)
    ELSE Ok([s EXCEPT !.done = TRUE], <<Data(e), Done(s.usage)>>)

\* An event type this build does not know goes through when both names agree.
NativeDecode(s, e) ==
    IF s.done \/ ~e.json \/ Disagrees(e) THEN Invalid(s)
    ELSE IF e.limited THEN Fail(s, "limited")
    ELSE CASE Kind(e) = "message_start" -> NativeStart(s, e)
           [] Kind(e) = "content_block_start" -> NativeBlockStart(s, e)
           [] Kind(e) = "content_block_delta" -> NativeBlockDelta(s, e)
           [] Kind(e) = "content_block_stop" -> NativeBlockStop(s, e)
           [] Kind(e) = "message_delta" -> NativeMessageDelta(s, e)
           [] Kind(e) = "message_stop" -> NativeStop(s, e)
           [] Kind(e) = "error" -> Invalid(s)
           [] OTHER -> IF e.name # "" /\ e.name = e.type THEN Ok(s, <<Data(e)>>) ELSE Invalid(s)
=============================================================================
