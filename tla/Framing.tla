------------------------------ MODULE Framing ------------------------------
(***************************************************************************)
(* How a result travels as bytes: the marker parsers of a one-shot query   *)
(* (src/runner/frame-extractor.js) and of a session                        *)
(* (src/broker/session-result-parser.js), both on BoundedBuffer, and the   *)
(* packets of src/broker/protocol.js.  A stream is a sequence of symbols,  *)
(* and arrives in chunks that are cut anywhere.                            *)
(*                                                                         *)
(* A parser is a record: the bytes it keeps in pending, its state, the     *)
(* buffer of the body, and how it ended.                                   *)
(***************************************************************************)
EXTENDS Naturals, Sequences, SequencesExt, TLC

CONSTANTS MAX_RESULT_BYTES

ASSUME FramingAssumption == MAX_RESULT_BYTES \in Nat

\* Begin, end and status share their first and last symbols, as the real
\* ones share their first and last characters.
StartMarker == <<"_", "B", "_", "\n">>
EndMarker == <<"_", "E", "_">>
ResultPrefix == <<"_", "S", "_">>

\* subarray(n)
From(bytes, n) == SubSeq(bytes, n + 1, Len(bytes))

IndexOf(bytes, marker) ==
    LET found == {i \in DOMAIN bytes : IsPrefix(marker, From(bytes, i - 1))}
    IN  IF found = {} THEN 0 ELSE CHOOSE i \in found : \A j \in found : i <= j

\* Mutant: a whole marker's length is given up.
KeepOfTooFew(bytes, marker) ==
    LET keep == Len(marker) - 2
    IN  IF Len(bytes) > keep THEN From(bytes, Len(bytes) - keep) ELSE bytes

\* What may be the beginning of a marker that is not complete.
KeepOf(bytes, marker) ==
    LET keep == Len(marker) - 1
    IN  IF Len(bytes) > keep THEN From(bytes, Len(bytes) - keep) ELSE bytes

NewParser == [state |-> "start", pending |-> <<>>, buffer |-> <<>>]

\* BoundedBuffer.push, and what is kept beside it.
Buffer(parser, bytes, pending, state) ==
    IF Len(parser.buffer) + Len(bytes) > MAX_RESULT_BYTES
    THEN [parser EXCEPT !.state = "too_large"]
    ELSE [state |-> state, pending |-> pending, buffer |-> parser.buffer \o bytes]

AwaitStart(parser) ==
    LET at == IndexOf(parser.pending, StartMarker)
    IN  IF at = 0 THEN [parser EXCEPT !.pending = KeepOf(@, StartMarker)]
        ELSE [parser EXCEPT !.state = "xml",
                            !.pending = From(@, at - 1 + Len(StartMarker))]

\* Before the end marker is found, what cannot be a part of it is flushed.
ReadBody(parser, next) ==
    LET at == IndexOf(parser.pending, EndMarker)
        kept == KeepOf(parser.pending, EndMarker)
    IN  IF parser.state # "xml" THEN parser
        ELSE IF at = 0
        THEN Buffer(parser, SubSeq(parser.pending, 1, Len(parser.pending) - Len(kept)), kept, "xml")
        ELSE Buffer(parser, SubSeq(parser.pending, 1, at - 1),
                    From(parser.pending, at - 1 + Len(EndMarker)), next)

\* The category is the line after the prefix.
ReadStatus(parser) ==
    LET at == IndexOf(parser.pending, ResultPrefix)
        line == From(parser.pending, at - 1 + Len(ResultPrefix))
        newline == IndexOf(line, <<"\n">>)
    IN  IF parser.state # "result" THEN parser
        ELSE IF at = 0 THEN [parser EXCEPT !.pending = KeepOf(@, ResultPrefix)]
        ELSE IF newline = 0 THEN parser
        ELSE [parser EXCEPT !.pending = SubSeq(line, 1, newline - 1), !.state = "done"]

Received(parser, chunk) ==
    LET more == [parser EXCEPT !.pending = @ \o chunk]
    IN  IF parser.state = "start" THEN AwaitStart(more) ELSE more

\* FrameExtractor.push
ExtractFrame(parser, chunk) ==
    IF parser.state \in {"done", "too_large"} THEN parser
    ELSE ReadBody(Received(parser, chunk), "done")

\* SessionResultParser.push; done, its category is what is pending.
ParseSession(parser, chunk) ==
    IF parser.state \in {"done", "too_large"} THEN parser
    ELSE ReadStatus(ReadBody(Received(parser, chunk), "result"))

(***************************************************************************)
(* encodePacket and readPacket: the length of the header in four bytes, a  *)
(* header that carries the length of the body, the body.                   *)
(***************************************************************************)
EncodePacket(body) ==
    LET header == <<"{", ToString(Len(body)), "}">>
    IN  <<"0", "0", "0", ToString(Len(header))>> \o header \o body

Decimal(digits, most) == CHOOSE n \in 0..most : ToString(n) = digits

NewPacket == [state |-> "reading", pending |-> <<>>, expected |-> 0]

\* Mutant: the four bytes of the prefix are forgotten.
ExpectedBody(bytes, header) == header + Decimal(bytes[6], MAX_RESULT_BYTES)

ExpectedTotal(bytes, header) == 4 + header + Decimal(bytes[6], MAX_RESULT_BYTES)

ReadPacket(packet, chunk) ==
    LET bytes == packet.pending \o chunk
        header == IF Len(bytes) >= 4 THEN Decimal(bytes[4], 9) ELSE 0
        expected == IF packet.expected = 0 /\ Len(bytes) >= 4 /\ Len(bytes) >= 4 + header
                    THEN ExpectedTotal(bytes, header) ELSE packet.expected
    IN  [pending |-> bytes, expected |-> expected,
         state |-> IF packet.state # "reading" THEN packet.state
                   ELSE IF expected = 0 \/ Len(bytes) < expected THEN "reading"
                   ELSE IF Len(bytes) > expected THEN "failed" ELSE "done"]

PacketBody(packet) == From(packet.pending, 7)
=============================================================================
