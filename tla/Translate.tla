----------------------------- MODULE Translate ------------------------------
(***************************************************************************)
(* Anthropic messages in OpenAI's shape and back (gateway-core,            *)
(* anthropic.rs and tool_call.rs): the streaming translation, the buffered *)
(* one, the assembly of tool calls from fragments, and the request built   *)
(* from a conversation.  A message is a sequence of content blocks, each   *)
(* with its type, text, signature, id and name; <<>> is an empty text and  *)
(* a signature that is absent.                                             *)
(***************************************************************************)
EXTENDS Codec

Signed(text, signature) == [thinking |-> text, signature |-> signature]
NoThinking == Signed(<<>>, <<>>)

\* encrypted_reasoning_detail: opaque to the caller, who sends it back.
Encrypted(id, blocks) == [type |-> "reasoning.encrypted", format |-> "anthropic-claude-v1",
                          id |-> id, data |-> blocks]
signed_thinking_from_details(details) ==
    FlattenSeq([i \in DOMAIN details |->
        IF details[i].type = "reasoning.encrypted" /\ details[i].format \in {"", "anthropic-claude-v1"}
        THEN details[i].data ELSE <<>>])

-----------------------------------------------------------------------------
(* AnthropicStreamDecoder *)

NewStream ==
    [usage |-> NoUsage, first |-> FALSE, pending |-> <<>>, completed |-> <<>>,
     tools |-> <<>>, next |-> 0, attached |-> FALSE, saw |-> FALSE, stop |-> "absent",
     terminal |-> FALSE, done |-> FALSE]

NoChunk == [k |-> "chunk", role |-> FALSE, text |-> <<>>, reasoning |-> <<>>, calls |-> <<>>,
            details |-> <<>>, finish |-> "", usage |-> <<>>]

map_stop_reason(stop, sawTool) ==
    CASE stop = "tool_use" -> "tool_calls"
      [] stop = "max_tokens" -> "length"
      [] OTHER -> IF sawTool THEN "tool_calls" ELSE "stop"

\* The first chunk that carries a delta names the role.
Chunk(s, c) == Ok([s EXCEPT !.first = TRUE], <<[c EXCEPT !.role = ~s.first]>>)
Terminal(s) == [NoChunk EXCEPT !.finish = map_stop_reason(s.stop, s.saw),
                               !.usage = openai_usage(s.usage)]
Quiet(s) == Ok(s, <<>>)

Entry(f, i) == IF i \in DOMAIN f THEN f[i] ELSE NoThinking
Put(f, i, v) == [j \in DOMAIN f \cup {i} |-> IF j = i THEN v ELSE f[j]]

\* Mutant: a tool call is numbered by its content block.
BugToolIndex(s, e) == e.index
ToolIndex(s, e) == s.next

BlockStart(s, e) ==
    CASE e.block = "thinking" ->
           Quiet([s EXCEPT !.pending = Put(@, e.index, Signed(e.text, e.signature))])
      [] e.block = "tool_use" ->
           LET attach == ~s.attached /\ s.completed # <<>> IN
           Chunk([s EXCEPT !.tools = Put(@, e.index, ToolIndex(s, e)), !.next = @ + 1,
                           !.saw = TRUE, !.attached = @ \/ attach],
                 [NoChunk EXCEPT
                    !.calls = <<[index |-> ToolIndex(s, e), id |-> e.id, name |-> e.id, args |-> <<>>]>>,
                    !.details = IF attach THEN <<Encrypted(e.id, s.completed)>> ELSE <<>>])
      [] OTHER -> Quiet(s)

BlockDelta(s, e) ==
    CASE e.delta = "text_delta" -> Chunk(s, [NoChunk EXCEPT !.text = e.text])
      [] e.delta = "thinking_delta" ->
           Chunk([s EXCEPT !.pending =
                    Put(@, e.index, [Entry(@, e.index) EXCEPT !.thinking = @ \o e.text])],
                 [NoChunk EXCEPT !.reasoning = e.text])
      [] e.delta = "signature_delta" ->
           Quiet([s EXCEPT !.pending =
                    Put(@, e.index, [Entry(@, e.index) EXCEPT !.signature = @ \o e.signature])])
      [] e.delta = "input_json_delta" ->
           IF e.index \notin DOMAIN s.tools THEN Invalid(s)
           ELSE Chunk(s, [NoChunk EXCEPT
                    !.calls = <<[index |-> s.tools[e.index], id |-> "", name |-> "", args |-> e.text]>>])
      [] OTHER -> Quiet(s)

\* Only thinking the provider signed is kept.
BlockStop(s, e) ==
    LET ended == Entry(s.pending, e.index) IN
    Quiet([s EXCEPT !.pending = Restrict(@, DOMAIN @ \ {e.index}),
                    !.completed = IF ended.signature # <<>> THEN Append(@, ended) ELSE @,
                    !.tools = Restrict(@, DOMAIN @ \ {e.index})])

MessageDelta(s, e) ==
    LET t == [s EXCEPT !.usage = MergeUsage(@, e.usage), !.terminal = TRUE,
                       !.stop = IF e.stop \in {"absent", "null"} THEN @ ELSE e.stop]
    IN Ok(t, <<Terminal(t)>>)

\* message_stop, and the end of a stream that sent none.
Ending(s) ==
    Ok([s EXCEPT !.terminal = TRUE, !.done = TRUE],
       (IF s.terminal THEN <<>> ELSE <<Terminal(s)>>) \o
       (IF s.done THEN <<>> ELSE <<Done(s.usage)>>))

StreamDecode(s, e) ==
    IF ~e.json \/ Disagrees(e) THEN Invalid(s)
    ELSE CASE Kind(e) = "message_start" -> Quiet([s EXCEPT !.usage = MergeUsage(@, e.usage)])
           [] Kind(e) = "content_block_start" -> BlockStart(s, e)
           [] Kind(e) = "content_block_delta" -> BlockDelta(s, e)
           [] Kind(e) = "content_block_stop" -> BlockStop(s, e)
           [] Kind(e) = "message_delta" -> MessageDelta(s, e)
           [] Kind(e) = "message_stop" -> Ending(s)
           [] Kind(e) = "error" -> IF e.limited THEN Fail(s, "limited") ELSE Invalid(s)
           [] OTHER -> Quiet(s)

StreamFinish(s) == IF s.done THEN Quiet(s) ELSE Ending(s)

-----------------------------------------------------------------------------
(* ToolCallAssembler, on the chunks a caller receives *)

Fragments(chunks) == FlattenSeq([i \in DOMAIN chunks |-> chunks[i].calls])

\* The first id and name given count, and a different one later is an error.
Metadata(fragments, index, f) ==
    {fragments[i][f] : i \in {i \in DOMAIN fragments : fragments[i].index = index}} \ {""}

assemble(chunks) ==
    LET all == Fragments(chunks)
        Mine(index) == SelectSeq(all, LAMBDA c : c.index = index)
        indexes == {all[i].index : i \in DOMAIN all}
        ok == \A n \in indexes : /\ Cardinality(Metadata(all, n, "id")) = 1
                                 /\ Cardinality(Metadata(all, n, "name")) = 1
        One(n) == [id |-> CHOOSE x \in Metadata(all, n, "id") : TRUE,
                   args |-> FlattenSeq([i \in DOMAIN Mine(n) |-> Mine(n)[i].args])]
    IN IF ok THEN [n \in indexes |-> One(n)] ELSE [n \in {} |-> <<>>]

-----------------------------------------------------------------------------
(* AnthropicAdapter::decode_response *)

OfType(message, type) == SelectSeq(message.blocks, LAMBDA b : b.block = type)
TextOf(blocks) == FlattenSeq([i \in DOMAIN blocks |-> blocks[i].text])
SignedOf(blocks) ==
    LET signed == SelectSeq(blocks, LAMBDA b : b.signature # <<>>)
    IN [i \in DOMAIN signed |-> Signed(signed[i].text, signed[i].signature)]

\* serde_json::to_string of a call's input; <<>> is an input without arguments.
Serialized(input) == IF input = <<>> THEN <<"{}">> ELSE input

decode_response(message) ==
    LET tools == OfType(message, "tool_use")
        thinking == OfType(message, "thinking")
    IN [role |-> "assistant", content |-> TextOf(OfType(message, "text")),
        reasoning |-> TextOf(thinking),
        calls |-> [i \in DOMAIN tools |-> [id |-> tools[i].id, args |-> Serialized(tools[i].text)]],
        details |-> IF tools = <<>> \/ SignedOf(thinking) = <<>> THEN <<>>
                    ELSE <<Encrypted(tools[1].id, SignedOf(thinking))>>,
        finish |-> CASE message.stop = "tool_use" -> "tool_calls"
                     [] message.stop = "max_tokens" -> "length" [] OTHER -> "stop",
        usage |-> MergeUsage(NoUsage, message.usage)]

-----------------------------------------------------------------------------
(* build_request *)

MinThinking == 1024
DefaultMaxTokens == 4096

Effort(body) ==
    CASE body.effort = "minimal" -> 10 [] body.effort = "low" -> 20
      [] body.effort = "medium" -> 50 [] body.effort \in {"high", "xhigh"} -> 80 [] OTHER -> 0

MaxTokens(body) == IF body.max_tokens = <<>> THEN DefaultMaxTokens ELSE body.max_tokens[1]

\* Mutant: the budget may take the whole of max_tokens.
BugThinkingBudget(body, max) ==
    IF Effort(body) = 0 THEN <<>> ELSE <<Max({MinThinking, (max * Effort(body)) \div 100})>>

\* <<>> when the request does not think, else its budget.
thinking_budget(body, max) ==
    LET cap == max - MinThinking IN
    IF Effort(body) = 0 \/ cap < MinThinking THEN <<>>
    ELSE <<Max({MinThinking, Min({cap, (max * Effort(body)) \div 100})})>>

Block(type, text) == [type |-> type, text |-> text]

\* A part that is neither text nor image is left out.
content_blocks(content) ==
    LET known == SelectSeq(content, LAMBDA p : p.part \in {"text", "image"})
    IN [i \in DOMAIN known |-> Block(known[i].part, known[i].value)]
content_text(content) ==
    LET texts == SelectSeq(content, LAMBDA p : p.part = "text")
    IN [i \in DOMAIN texts |-> texts[i].value]

\* An assistant's turn starts with its signed thinking and ends with its calls.
TurnBlocks(m, thinking) ==
    IF m.role = "tool" THEN <<Block("tool_result", m.id)>>
    ELSE IF m.role # "assistant" THEN content_blocks(m.content)
    ELSE LET kept == IF thinking THEN signed_thinking_from_details(m.details) ELSE <<>>
         IN [i \in DOMAIN kept |-> Block("thinking", kept[i])] \o content_blocks(m.content) \o
            [i \in DOMAIN m.calls |-> Block("tool_use", m.calls[i].id)]

\* Turns of one role are joined, and an empty one is left out.
build_messages(messages, thinking) ==
    LET Step(acc, m) ==
            LET blocks == TurnBlocks(m, thinking)
                role == IF m.role = "assistant" THEN "assistant" ELSE "user"
            IN IF m.role \in {"system", "developer"} \/ blocks = <<>> THEN acc
               ELSE IF acc # <<>> /\ Last(acc).role = role
               THEN Append(Front(acc), [role |-> role, content |-> Last(acc).content \o blocks])
               ELSE Append(acc, [role |-> role, content |-> blocks])
    IN FoldLeft(Step, <<>>, messages)

SystemOf(messages) ==
    LET system == SelectSeq(messages, LAMBDA m : m.role \in {"system", "developer"})
    IN FlattenSeq([i \in DOMAIN system |-> content_text(system[i].content)])

\* Only function tools are known to the provider; a choice needs a tool.
parse_tools(body) == SelectSeq(body.tools, LAMBDA t : t # "unnamed")
parse_tool_choice(body) ==
    CASE parse_tools(body) = <<>> -> ""
      [] body.choice = "required" -> "any"
      [] body.choice \in {"auto", "none", "tool"} -> body.choice
      [] OTHER -> ""

build_request(body) ==
    LET thinking == thinking_budget(body, MaxTokens(body))
    IN [max_tokens |-> MaxTokens(body), thinking |-> thinking,
        system |-> SystemOf(body.messages),
        messages |-> build_messages(body.messages, thinking # <<>>),
        temperature |-> thinking = <<>> /\ body.temperature,
        tools |-> parse_tools(body), choice |-> parse_tool_choice(body)]
=============================================================================
