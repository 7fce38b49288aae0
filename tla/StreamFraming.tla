--------------------------- MODULE StreamFraming ---------------------------
(***************************************************************************)
(* How the stdio gate finds JSON in two streams of octets that arrive in   *)
(* chunks of any size (cli/src/stream-gate.js).  RuleOakInboundGate judges *)
(* every item of every JSON value of the client before it reaches the      *)
(* child; RuleOakOutboundGate shows every JSON value of the child to the   *)
(* effect boundary before it reaches the client.  A character is a         *)
(* bracket, a comma, a quote (q), a backslash (b), a newline (n), another  *)
(* (c), the replacement character (r), or one of two octets (u, sent as    *)
(* h t).                                                                   *)
(***************************************************************************)
EXTENDS Cases, Integers, Sequences
LOCAL INSTANCE SequencesExt

CONSTANTS
    JsonTexts,      \* the bracketed texts that JSON.parse accepts
    ItemsOf,        \* the elements of those that are arrays, as JSON.stringify writes them
    Denials,        \* the objects that are tool calls which the gate does not forward
    Notices         \* those of them without id, which get no answer

ASSUME DenialsAssumption == /\ ItemsOf \in [JsonTexts -> Seq(Seq(STRING))]
                            /\ \A d \in Denials : Head(d) = "{"
                            /\ Notices \subseteq Denials

---------------------------------------------------------------------------
(* From octets to text                                                     *)

\* UTF-8: an octet more; lead says that a two-octet character has begun.
DecodeOctet(s, octet) ==
    CASE s.lead /\ octet = "t" -> [text |-> Append(s.text, "u"), lead |-> FALSE]
      [] ~s.lead /\ octet # "h" -> [s EXCEPT !.text = Append(@, IF octet = "t" THEN "r" ELSE octet)]
      [] ~s.lead /\ octet = "h" -> [s EXCEPT !.lead = TRUE]
      [] OTHER -> [text |-> IF octet = "h" THEN Append(s.text, "r") ELSE s.text \o <<"r", octet>>, lead |-> octet = "h"]

Decode(lead, octets) == FoldLeft(DecodeOctet, [text |-> <<>>, lead |-> lead], octets)
Flushed(s) == IF s.lead THEN Append(s.text, "r") ELSE s.text

\* String(chunk) of a Buffer: a character that is not complete is replaced.
Decoded(octets) == Flushed(Decode(FALSE, octets))

\* child.stdout.setEncoding('utf8'): what is not complete waits for the next
\* chunk, and is replaced at the end of the stream.
Recoded(chunks) ==
    LET chunk(s, c) == LET d == Decode(s.lead, c) IN [texts |-> Append(s.texts, d.text), lead |-> d.lead]
        last == FoldLeft(chunk, [texts |-> <<>>, lead |-> FALSE], chunks)
    IN IF last.lead THEN Append(last.texts, <<"r">>) ELSE last.texts

---------------------------------------------------------------------------
(* extractJsonFragments                                                    *)

Closer == [x \in {"{", "["} |-> IF x = "{" THEN "}" ELSE "]"]

\* The first bracket at or after a position, or 0.
findNextJsonStart(text, from) ==
    LET starts == {i \in from .. Len(text) : text[i] \in DOMAIN Closer}
    IN IF starts = {} THEN 0 ELSE CHOOSE i \in starts : \A j \in starts : i <= j

\* Mutant of ScanChar: a backslash does not protect the quote after it.
ScanUnescaped(s, ch) ==
    CASE s.inString -> [s EXCEPT !.inString = ch # "q"]
      [] ch = "q" /\ ~s.inString -> [s EXCEPT !.inString = TRUE]
      [] ch \in DOMAIN Closer /\ ~s.inString -> [s EXCEPT !.stack = Append(@, Closer[ch])]
      [] ch \in {"}", "]"} /\ ~s.inString -> [s EXCEPT !.stack = Front(@), !.malformed = ch # Last(s.stack)]
      [] OTHER -> s

\* What the loop of findJsonEnd knows after one more character.
ScanChar(s, ch) ==
    CASE s.escaped -> [s EXCEPT !.escaped = FALSE]
      [] s.inString /\ ~s.escaped -> [s EXCEPT !.escaped = ch = "b", !.inString = ch # "q"]
      [] OTHER ->
         CASE ch = "q" -> [s EXCEPT !.inString = TRUE]
           [] ch \in DOMAIN Closer -> [s EXCEPT !.stack = Append(@, Closer[ch])]
           [] ch \in {"}", "]"} -> IF ch = Last(s.stack) THEN [s EXCEPT !.stack = Front(@)]
                                   ELSE [s EXCEPT !.malformed = TRUE]
           [] OTHER -> s

\* Where the value that starts here ends (0: not yet), and whether its brackets
\* match.
findJsonEnd(text, start) ==
    LET first == [stack |-> <<Closer[text[start]]>>, inString |-> FALSE, escaped |-> FALSE, malformed |-> FALSE, end |-> start]
        done(s) == s.malformed \/ s.stack = <<>>
        last == FoldLeft(LAMBDA s, ch : IF done(s) THEN s ELSE [ScanChar(s, ch) EXCEPT !.end = @ + 1],
                         first, SubSeq(text, start + 1, Len(text)))
    IN [end |-> IF done(last) THEN last.end ELSE 0, malformed |-> last.malformed]

Fragment(kind, raw) == [kind |-> kind, raw |-> raw]

\* Noise after the last value is kept back, but for its complete lines.
TrailingNoise(rest) ==
    LET newline == SelectLastInSeq(rest, LAMBDA ch : ch = "n") IN
    [fragments |-> IF newline = 0 THEN <<>> ELSE <<Fragment("noise", SubSeq(rest, 1, newline))>>,
     remaining |-> SubSeq(rest, newline + 1, Len(rest))]

extractJsonFragments(buffer) ==
    LET extract[pos \in 1 .. Len(buffer) + 1] ==
            LET start == findNextJsonStart(buffer, pos)
                noise == IF start > pos THEN <<Fragment("noise", SubSeq(buffer, pos, start - 1))>> ELSE <<>>
                found == findJsonEnd(buffer, start)
                raw == SubSeq(buffer, start, found.end)
                kind == IF found.malformed \/ raw \notin JsonTexts THEN "malformed-json" ELSE "json"
            IN CASE pos > Len(buffer) -> [fragments |-> <<>>, remaining |-> <<>>]
                 [] pos <= Len(buffer) /\ start = 0 -> TrailingNoise(SubSeq(buffer, pos, Len(buffer)))
                 [] start > 0 /\ found.end = 0 ->
                       [fragments |-> noise, remaining |-> SubSeq(buffer, start, Len(buffer))]
                 [] OTHER -> LET rest == extract[found.end + 1] IN
                             [rest EXCEPT !.fragments = noise \o <<Fragment(kind, raw)>> \o @]
    IN extract[1]

---------------------------------------------------------------------------
(* The gates.  What a gate does is a sequence of events: text written to   *)
(* the other side, an answer to the client, a value shown to the boundary. *)

Wrote(text) == [event |-> "wrote", text |-> text]
Answers(responses) == [event |-> "answers", text |-> responses]
Shows(raw) == [event |-> "shows", text |-> raw]

Silent == [buffer |-> <<>>, events |-> <<>>]

Joined(items) == FoldLeft(LAMBDA t, i : IF t = <<>> THEN i ELSE t \o <<",">> \o i, <<>>, items)
Stringified(items) == <<"[">> \o Joined(items) \o <<"]">>

\* RuleOakInboundGate.#handleJson: the permitted items of a batch are written
\* anew, the others are answered together, but for the notifications.
HandleJson(raw) ==
    LET batch == Head(raw) = "["
        items == IF batch THEN ItemsOf[raw] ELSE <<raw>>
        allowed == SelectSeq(items, LAMBDA i : i \notin Denials)
        answered == SelectSeq(items, LAMBDA i : i \in Denials \ Notices)
    IN (IF allowed = <<>> THEN <<>> ELSE <<Wrote((IF batch THEN Stringified(allowed) ELSE raw) \o <<"n">>)>>)
       \o (IF answered = <<>> THEN <<>> ELSE <<Answers([i \in DOMAIN answered |-> "denied"])>>)

\* RuleOakInboundGate.#handleFragment
InboundFragment(f) ==
    CASE f.kind = "noise" -> <<Wrote(f.raw)>>
      [] f.kind = "malformed-json" -> <<Answers(<<"parse_error">>)>>
      [] f.kind = "json" -> HandleJson(f.raw)

\* RuleOakOutboundGate.write, one fragment (onMalformed is not a JSON value).
OutboundFragment(f) == IF f.kind = "json" THEN <<Shows(f.raw), Wrote(f.raw)>> ELSE <<Wrote(f.raw)>>

\* write: the buffer grows by a chunk's text and keeps what is not complete.
GateWrite(gate, text, handle(_)) ==
    LET parsed == extractJsonFragments(gate.buffer \o text) IN
    [buffer |-> parsed.remaining,
     events |-> FoldLeft(LAMBDA events, f : events \o handle(f), gate.events, parsed.fragments)]

\* RuleOakInboundGate.end: an unfinished value is answered, not forwarded.
InboundEnd(gate) ==
    IF gate.buffer = <<>> THEN gate.events
    ELSE Append(gate.events, IF Head(gate.buffer) \in DOMAIN Closer THEN Answers(<<"parse_error">>)
                             ELSE Wrote(gate.buffer))

OutboundEnd(gate) == IF gate.buffer = <<>> THEN gate.events ELSE Append(gate.events, Wrote(gate.buffer))

\* process.stdin gives Buffers, each of which the inbound gate makes a string
\* of; the output of the child is decoded before it is cut into chunks.
Inbound(chunks) ==
    InboundEnd(FoldLeft(LAMBDA g, c : GateWrite(g, Decoded(c), InboundFragment), Silent, chunks))
Outbound(chunks) ==
    OutboundEnd(FoldLeft(LAMBDA g, text : GateWrite(g, text, OutboundFragment), Silent, Recoded(chunks)))

\* The question: the octets of one text, cut into chunks.
AskStream == Answer("stream", [inbound |-> Inbound(given), outbound |-> Outbound(given)])

---------------------------------------------------------------------------
(* Properties                                                              *)

TextOf(events, kind) ==
    FoldLeft(LAMBDA t, e : IF e.event = kind THEN t \o e.text ELSE t, <<>>, events)

\* A filter that reads one character at a time and knows nothing of chunks:
\* it holds a value back until its last bracket, then judges it.
FilterStart == [open |-> <<>>, quoted |-> "no", held |-> <<>>, child |-> <<>>, told |-> <<>>, values |-> <<>>]

\* What the child gets and the client is told of a value; which of its items
\* are refused is asked of the items one by one.
Permitted(raw) ==
    LET items == SelectSeq(ItemsOf[raw], LAMBDA i : i \notin Denials) IN
    CASE Head(raw) = "{" -> IF raw \in Denials THEN <<>> ELSE Append(raw, "n")
      [] OTHER -> IF items = <<>> THEN <<>> ELSE Stringified(items) \o <<"n">>
Refusals(raw) ==
    LET items == IF Head(raw) = "{" THEN <<raw>> ELSE ItemsOf[raw] IN
    FoldLeft(LAMBDA told, i : IF i \in Denials \ Notices THEN Append(told, "denied") ELSE told, <<>>, items)

Judged(s, raw, whole) ==
    LET t == [s EXCEPT !.held = <<>>, !.open = <<>>, !.quoted = "no"] IN
    IF ~whole \/ raw \notin JsonTexts THEN [t EXCEPT !.told = Append(@, "parse_error")]
    ELSE [t EXCEPT !.child = @ \o Permitted(raw), !.told = @ \o Refusals(raw), !.values = @ \o raw]

FilterChar(s, ch) ==
    LET raw == Append(s.held, ch)
        t == [s EXCEPT !.held = raw]
        inner == Len(s.open) > 1 IN
    CASE s.open = <<>> /\ ch \notin {"{", "["} -> [s EXCEPT !.child = Append(@, ch)]
      [] s.open = <<>> /\ ch \in {"{", "["} -> [t EXCEPT !.open = <<ch>>]
      [] s.open # <<>> /\ s.quoted = "escaped" -> [t EXCEPT !.quoted = "yes"]
      [] s.open # <<>> /\ s.quoted = "yes" ->
            [t EXCEPT !.quoted = CASE ch = "b" -> "escaped" [] ch = "q" -> "no" [] OTHER -> "yes"]
      [] OTHER ->
            CASE ch = "q" -> [t EXCEPT !.quoted = "yes"]
              [] ch \in {"{", "["} -> [t EXCEPT !.open = Append(@, ch)]
              [] <<Last(s.open), ch>> \in {<<"{", "}">>, <<"[", "]">>} ->
                    IF inner THEN [t EXCEPT !.open = Front(@)] ELSE Judged(s, raw, TRUE)
              [] <<Last(s.open), ch>> \in {<<"{", "]">>, <<"[", "}">>} -> Judged(s, raw, FALSE)
              [] OTHER -> t

Filtered(text) == FoldLeft(FilterChar, FilterStart, text)

\* A chunk ends inside a character.
SplitsCharacter(chunks) ==
    \E i \in 1 .. Len(chunks) - 1 : Last(chunks[i]) = "h" /\ Head(chunks[i + 1]) = "t"

\* Text in which a two-octet character cannot be told from two replacements.
Garbled(text) == FoldLeft(LAMBDA t, ch : t \o (IF ch = "u" THEN <<"r", "r">> ELSE <<ch>>), <<>>, text)

\* However the client's octets are cut into chunks, the child receives exactly
\* what the character filter lets through of the text the gate read (the text
\* between values, and of every value that parses the permitted items), and the
\* client is told of every other request once, in order, an unfinished last
\* value included; denied notifications get no answer.  The text the gate read
\* is the one that was sent, except that a character whose octets fall into two
\* chunks is read as replacement characters: decided and forwarded so.
ChunksDoNotMatter == Answered("stream") =>
    LET read == FlattenSeq([i \in DOMAIN given |-> Decoded(given[i])])
        sent == Decoded(FlattenSeq(given))
        whole == Filtered(read)
        told == IF whole.open = <<>> THEN whole.told ELSE Append(whole.told, "parse_error") IN
    /\ TextOf(answer.inbound, "wrote") = whole.child
    /\ TextOf(answer.inbound, "answers") = told
    /\ Garbled(read) = Garbled(sent) /\ (~SplitsCharacter(given) => read = sent)

\* The child's output reaches the client unchanged (what is not UTF-8 apart),
\* and the boundary is shown a JSON value (even one split over chunks) before
\* the client has all of it, so that its evidence is persisted before control
\* returns to the agent.
ShownBeforeReturned == Answered("stream") =>
    LET before(i) == SubSeq(answer.outbound, 1, i) IN
    /\ TextOf(answer.outbound, "wrote") = Decoded(FlattenSeq(given))
    /\ \A i \in 1 .. Len(answer.outbound) :
          IsPrefix(Filtered(TextOf(before(i), "wrote")).values, TextOf(before(i), "shows"))

\* Where a stream is cut into chunks makes no difference to what is judged,
\* forwarded, answered and shown, in either direction, but for characters of
\* the client that a cut goes through (stream-gate.js).
FramingIsInvisible == ChunksDoNotMatter /\ ShownBeforeReturned
=============================================================================
