-------------------------------- MODULE Sse ---------------------------------
(***************************************************************************)
(* Server-sent events out of a byte stream cut anywhere: the relay's UTF-8 *)
(* carry (streaming.rs, decode_utf8) and SseDecoder (gateway-core,         *)
(* stream.rs).  A byte is a record: `k` says what it is, `v` which value   *)
(* it belongs to.  A line feed and a carriage return are bytes of their    *)
(* own, a two-byte character is "lead" then "cont", and the text of a      *)
(* line, prefix included, is one byte of kind "data", "event", "comment"   *)
(* or "other", whose value is the name of what it says.                    *)
(***************************************************************************)
EXTENDS Integers, Sequences, FiniteSets, SequencesExt

CONSTANT MaxBuffer    \* max_buffer_bytes

Byte(k, v) == [k |-> k, v |-> v]
LF == Byte("lf", "")
CR == Byte("cr", "")
Lead == Byte("lead", "")
Cont == Byte("cont", "")
Char == Byte("char", "")          \* a whole two-byte character, decoded
Replacement == Byte("fffd", "")   \* what lossy decoding puts for a bad byte

-----------------------------------------------------------------------------
(* UTF-8 *)

\* Where a sequence stops being UTF-8: valid up to `upto`, and either cut in
\* the middle of a character (`cut`) or wrong there.
RECURSIVE Utf8(_, _)
Utf8(bytes, i) ==
    IF i > Len(bytes) THEN [upto |-> Len(bytes), ok |-> TRUE, cut |-> FALSE]
    ELSE IF bytes[i].k = "cont" THEN [upto |-> i - 1, ok |-> FALSE, cut |-> FALSE]
    ELSE IF bytes[i].k # "lead" THEN Utf8(bytes, i + 1)
    ELSE IF i = Len(bytes) THEN [upto |-> i - 1, ok |-> FALSE, cut |-> TRUE]
    ELSE IF bytes[i + 1].k = "cont" THEN Utf8(bytes, i + 2)
    ELSE [upto |-> i - 1, ok |-> FALSE, cut |-> FALSE]

\* from_utf8_lossy
Lossy(bytes) ==
    LET Step(acc, b) ==
            IF b.k = "cont" /\ acc # <<>> /\ Last(acc).k = "lead"
            THEN Append(Front(acc), Char)
            ELSE IF b.k = "cont" THEN Append(acc, Replacement)
            ELSE Append(acc, b)
        joined == FoldLeft(Step, <<>>, bytes)
    IN [i \in DOMAIN joined |-> IF joined[i].k = "lead" THEN Replacement ELSE joined[i]]

\* Only a character cut by the end of the chunk waits for the next one.
decode_utf8(carry, chunk) ==
    LET all == carry \o chunk
        at == Utf8(all, 1)
    IN IF ~at.ok /\ at.cut
       THEN [text |-> Lossy(SubSeq(all, 1, at.upto)), carry |-> SubSeq(all, at.upto + 1, Len(all))]
       ELSE [text |-> Lossy(all), carry |-> <<>>]

-----------------------------------------------------------------------------
(* SseDecoder *)

NewSse == [buffer |-> <<>>, scanned |-> 0]

Delimited(b, i) ==
    \/ i < Len(b) /\ b[i] = LF /\ b[i + 1] = LF
    \/ i + 3 <= Len(b) /\ SubSeq(b, i, i + 3) = <<CR, LF, CR, LF>>

\* The first delimiter at or after `from` (1-based), 0 when there is none.
event_end(b, from) ==
    LET hits == {i \in from..Len(b) : Delimited(b, i)}
    IN IF hits = {} THEN 0 ELSE CHOOSE i \in hits : \A j \in hits : i <= j

\* The lines of a block; every carriage return is gone before.
Lines(block) ==
    LET Step(acc, b) == IF b = LF THEN Append(acc, <<>>) ELSE [acc EXCEPT ![Len(acc)] = Append(@, b)]
    IN FoldLeft(Step, << <<>> >>, SelectSeq(block, LAMBDA b : b # CR))

FieldOf(line) == IF line = <<>> THEN "" ELSE Head(line).k

\* A payload with a replacement character in it is not what was sent.
ValueOf(line) == IF \E i \in DOMAIN line : line[i] = Replacement THEN "garbled" ELSE Head(line).v

\* <<>> for a block that carries no data.
parse_event(block) ==
    LET lines == Lines(block)
        names == SelectSeq(lines, LAMBDA l : FieldOf(l) = "event")
        data == SelectSeq(lines, LAMBDA l : FieldOf(l) = "data")
    IN IF data = <<>> THEN <<>>
       ELSE << [event |-> IF names = <<>> THEN "" ELSE ValueOf(Last(names)),
                data |-> [i \in DOMAIN data |-> ValueOf(data[i])]] >>

\* Strict decoding lets through only what parse_event shows completely, and no
\* object whose keys two parsers could read differently ("dup").
strict_block_is_valid(block) ==
    LET fields == [i \in DOMAIN Lines(block) |-> FieldOf(Lines(block)[i])]
    IN /\ \A i \in DOMAIN fields : fields[i] \in {"data", "event"}
       /\ Cardinality({i \in DOMAIN fields : fields[i] = "event"}) <= 1
       /\ \E i \in DOMAIN fields : fields[i] = "data"
json_has_duplicate_keys(data) == "dup" \in Range(data)

Refused(block, strict) ==
    IF ~strict THEN ""
    ELSE IF ~strict_block_is_valid(block) THEN "unvalidated"
    ELSE IF json_has_duplicate_keys(parse_event(block)[1].data) THEN "ambiguous" ELSE ""

\* The loop of push_inner: one event per delimiter, scanning on from `search`.
RECURSIVE Drain(_, _, _, _, _)
Drain(b, search, consumed, events, strict) ==
    LET end == event_end(b, search)
        crlf == end + 3 <= Len(b) /\ SubSeq(b, end, end + 3) = <<CR, LF, CR, LF>>
        next == end + (IF crlf THEN 4 ELSE 2)
        block == SubSeq(b, consumed + 1, end - 1)
    IN IF end = 0 THEN [err |-> "", events |-> events, consumed |-> consumed]
       ELSE IF Refused(block, strict) # ""
       THEN [err |-> Refused(block, strict), events |-> <<>>, consumed |-> consumed]
       ELSE Drain(b, next, next - 1, events \o parse_event(block), strict)

\* Mutant: one byte too few is left to be looked at again.
BugScanned(b) == IF Len(b) > 2 THEN Len(b) - 2 ELSE 0

\* A delimiter can straddle two chunks: its longest prefix stays unscanned.
Scanned(b) == IF Len(b) > 3 THEN Len(b) - 3 ELSE 0

push(s, text, strict) ==
    LET b == s.buffer \o text
        got == Drain(b, s.scanned + 1, 0, <<>>, strict)
        rest == SubSeq(b, got.consumed + 1, Len(b))
    IN IF Len(b) > MaxBuffer THEN [err |-> "buffer_limit", sse |-> s, events |-> <<>>]
       ELSE [err |-> got.err, sse |-> [buffer |-> rest, scanned |-> Scanned(rest)],
             events |-> got.events]

\* SseDecoder::finish: nothing but white space may be left over.
SseFinished(s) == \A i \in DOMAIN s.buffer : s.buffer[i] \in {LF, CR}
=============================================================================
