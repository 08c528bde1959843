------------------------------- MODULE MCWire -------------------------------
(***************************************************************************)
(* The scenarios of the wire run: Anthropic messages streamed whole and    *)
(* with one event lost, repeated or swapped, OpenAI chat and Responses     *)
(* streams, line styles, buffered and failing calls, and requests built    *)
(* from conversations.                                                     *)
(***************************************************************************)
EXTENDS Wire, TLC

Listed(S) == FoldSet(LAMBDA x, acc : Append(acc, x), <<>>, S)

NoEvent ==
    [key |-> "", name |-> "", type |-> "", json |-> TRUE, sentinel |-> FALSE, limited |-> FALSE,
     hasUsage |-> FALSE, usage |-> <<>>, whole |-> TRUE, index |-> 0, block |-> "", delta |-> "",
     text |-> <<>>, signature |-> <<>>, id |-> "", stop |-> "absent"]
Keyed(script) == <<>> \o [i \in DOMAIN script |-> [script[i] EXCEPT !.key = ToString(i)]]

-----------------------------------------------------------------------------
(* Anthropic *)

Ev(type) == [NoEvent EXCEPT !.name = type, !.type = type]
BlockOf(block, text, signature, id) ==
    [block |-> block, text |-> text, signature |-> signature, id |-> id]
Thinking(signature) == BlockOf("thinking", <<"r">>, signature, "")
Text1 == BlockOf("text", <<"a", "b">>, <<>>, "")
Tool(id) == BlockOf("tool_use", <<id>>, <<>>, id)
Bare(id) == BlockOf("tool_use", <<>>, <<>>, id)
MessageOf(blocks, stop) ==
    [blocks |-> blocks, stop |-> stop, usage |-> [input |-> 3, output |-> 5, cache_read |-> 2]]

Messages ==
    << MessageOf(<<Thinking(<<"s">>), Text1, Tool("x")>>, "tool_use"),
       MessageOf(<<Text1>>, "end_turn"),
       MessageOf(<<Thinking(<<"s">>), Thinking(<<>>), Tool("x"), Tool("y")>>, "tool_use"),
       MessageOf(<<Tool("x"), Thinking(<<"s">>), Tool("y")>>, "max_tokens"),
       MessageOf(<<Thinking(<<"s">>), Tool("x")>>, "end_turn"),
       MessageOf(<<Bare("z"), Tool("x")>>, "tool_use") >>

DeltaOf(i, delta, text, signature) ==
    [Ev("content_block_delta") EXCEPT !.index = i, !.delta = delta, !.text = text,
                                      !.signature = signature]
DeltaName(block) ==
    CASE block = "text" -> "text_delta" [] block = "thinking" -> "thinking_delta"
      [] OTHER -> "input_json_delta"
StreamedBlock(i, b) ==
    <<[Ev("content_block_start") EXCEPT !.index = i, !.block = b.block, !.id = b.id]>> \o
    [j \in DOMAIN b.text |-> DeltaOf(i, DeltaName(b.block), <<b.text[j]>>, <<>>)] \o
    [j \in DOMAIN b.signature |-> DeltaOf(i, "signature_delta", <<>>, <<b.signature[j]>>)] \o
    <<[Ev("content_block_stop") EXCEPT !.index = i]>>
StreamOf(m) ==
    Keyed(<<[Ev("message_start") EXCEPT !.hasUsage = TRUE,
                !.usage = [input |-> 3, output |-> 1, cache_read |-> 2]]>> \o
          FlattenSeq([i \in DOMAIN m.blocks |-> StreamedBlock(i, m.blocks[i])]) \o
          <<[Ev("message_delta") EXCEPT !.stop = m.stop, !.hasUsage = TRUE,
                !.usage = [output |-> 5]],
            Ev("message_stop")>>)

\* One event lost, written twice, or swapped with the next.
Lost(s, i) == RemoveAt(s, i)
Repeated(s, i) == InsertAt(s, i, s[i])
Swapped(s, i) == IF i = Len(s) THEN s ELSE <<>> \o [s EXCEPT ![i] = s[i + 1], ![i + 1] = s[i]]
Disturbed(s) == FlattenSeq([i \in DOMAIN s |-> <<Lost(s, i), Repeated(s, i), Swapped(s, i)>>])

\* Before its final delta a message may tell its usage; a ping and an error.
NullDelta == [Ev("message_delta") EXCEPT !.stop = "null", !.hasUsage = TRUE, !.usage = [output |-> 4]]
Extra(s, i, e) == Keyed(InsertAt(s, i, e))
Told(m) ==
    LET s == StreamOf(m) IN
    << Extra(s, Len(s) - 1, NullDelta), Extra(s, 2, NullDelta), Extra(s, 3, Ev("ping")),
       Extra(s, 1, Ev("ping")) >>
Odd ==
    LET s == StreamOf(Messages[2]) IN
    Told(Messages[2]) \o
    << Extra(s, 4, Ev("error")), Extra(s, 4, [Ev("error") EXCEPT !.limited = TRUE]),
       Extra(s, 3, [Ev("content_block_delta") EXCEPT !.index = 1, !.delta = "input_json_delta"]),
       Extra(s, 3, [Ev("content_block_delta") EXCEPT !.type = "ping"]),
       Extra(s, 3, [Ev("content_block_start") EXCEPT !.index = 2, !.block = "text", !.whole = FALSE]),
       Extra(s, 3, [Ev("ping") EXCEPT !.name = ""]), Extra(s, 3, [Ev("ping") EXCEPT !.json = FALSE]) >>

-----------------------------------------------------------------------------
(* OpenAI *)

Chat == [NoEvent EXCEPT !.text = <<"c", "d", "e", "f", "g">>]
Usage == [prompt |-> 4, cached |-> 3, completion |-> 2, reasoning |-> 1]
ChatUsage == [NoEvent EXCEPT !.hasUsage = TRUE, !.usage = Usage]
DoneMark == [NoEvent EXCEPT !.json = FALSE, !.sentinel = TRUE]
Limited == [NoEvent EXCEPT !.limited = TRUE]
ChatScripts ==
    << Keyed(<<Chat, ChatUsage, DoneMark, Chat>>), Keyed(<<Chat, Chat, DoneMark>>),
       Keyed(<<Chat, [ChatUsage EXCEPT !.usage = [prompt |-> 1, cached |-> 3]], DoneMark>>),
       Keyed(<<Chat, [ChatUsage EXCEPT !.usage = [prompt |-> 4, cache_read |-> 3, cache_write |-> 1]],
               DoneMark>>),
       Keyed(<<Chat, [Chat EXCEPT !.json = FALSE], DoneMark>>), Keyed(<<Chat, Limited, DoneMark>>) >>

Response == [Ev("response.output_text.delta") EXCEPT !.text = <<"c">>]
Completed == [Ev("response.completed") EXCEPT !.hasUsage = TRUE, !.usage = Usage]
ResponseScripts ==
    << Keyed(<<Response, Completed, DoneMark>>), Keyed(<<Response, [Completed EXCEPT !.name = ""]>>),
       Keyed(<<Response, [Completed EXCEPT !.whole = FALSE], DoneMark>>),
       Keyed(<<Response, [Response EXCEPT !.name = "ping"]>>), Keyed(<<Response, DoneMark>>),
       Keyed(<<Response, [Response EXCEPT !.type = ""]>>),
       Keyed(<<Response, [DoneMark EXCEPT !.name = "ping"]>>) >>

-----------------------------------------------------------------------------
Plain == [crlf |-> FALSE, comment |-> FALSE, wide |-> FALSE]
Styles == Listed([crlf : BOOLEAN, comment : BOOLEAN, wide : BOOLEAN])

Turn(role, part) == [role |-> role, id |-> "", calls |-> <<>>, details |-> <<>>,
                     content |-> <<[part |-> part, value |-> "q"]>>]
Body0 == [effort |-> "", max_tokens |-> <<>>, messages |-> <<Turn("user", "text")>>,
          temperature |-> TRUE, tools |-> <<"x", "unnamed">>, choice |-> "required"]
Base ==
    [script |-> ChatScripts[1], style |-> Plain, strict |-> FALSE, codec |-> "chat", mode |-> "stream",
     status |-> 200, deadline |-> 3, estimate |-> 2, message |-> Messages[1], body |-> Body0,
     faultless |-> FALSE]
Play(codec, scripts) == [i \in DOMAIN scripts |-> [Base EXCEPT !.codec = codec, !.script = scripts[i]]]

Faultless(m, scripts) ==
    [i \in DOMAIN scripts |->
        [Base EXCEPT !.codec = "translate", !.script = scripts[i], !.message = m, !.faultless = TRUE]]
Translated ==
    FlattenSeq([i \in DOMAIN Messages |-> Faultless(Messages[i], <<StreamOf(Messages[i])>>)]) \o
    Faultless(Messages[1], Told(Messages[1])) \o Faultless(Messages[2], Told(Messages[2]))
Styled ==
    [i \in DOMAIN Styles |-> [Base EXCEPT !.style = Styles[i]]] \o
    [i \in DOMAIN Styles |-> [Base EXCEPT !.style = Styles[i], !.strict = TRUE]] \o
    <<[Base EXCEPT !.strict = TRUE, !.script[2].key = "dup"]>>
Called ==
    LET all == Listed({"stream", "buffered"} \X {200, 429} \X (0..4)) IN
    [i \in DOMAIN all |-> [Base EXCEPT !.mode = all[i][1], !.status = all[i][2],
                                       !.deadline = all[i][3], !.script = ChatScripts[2]]]

\* Conversations: what was asked for, and what came before the answer.
Befores ==
    << <<Turn("user", "text")>>, <<Turn("system", "text"), Turn("user", "text"), Turn("user", "image")>>,
       <<Turn("user", "text"), Turn("assistant", "other"), Turn("assistant", "text"),
         Turn("user", "image")>>,
       <<Turn("user", "text"), Turn("assistant", "text")>> >>
Efforts == <<"", "minimal", "low", "medium", "high">>
Limits == << <<>>, <<1000>>, <<2047>>, <<2048>>, <<3000>> >>
Digit(seq, n) == seq[(n % Len(seq)) + 1]
Asked ==
    [n \in 1..600 |->
        [Base EXCEPT !.codec = "translate", !.deadline = 0, !.message = Digit(Messages, n),
                     !.body = [Body0 EXCEPT !.effort = Digit(Efforts, n \div 6),
                                            !.max_tokens = Digit(Limits, n \div 30),
                                            !.messages = Digit(Befores, n \div 150)]]]

MCScenarios ==
    Translated \o Play("translate", Disturbed(StreamOf(Messages[1])) \o Odd) \o
    Play("native", <<StreamOf(Messages[1])>> \o Disturbed(StreamOf(Messages[1])) \o Odd) \o
    Play("chat", ChatScripts) \o Play("responses", ResponseScripts) \o Styled \o Called \o Asked
=============================================================================
