------------------------------ MODULE SseParser ------------------------------
(***************************************************************************)
(* parseSSEStream (src/src/utils/stream.ts): bytes in reads of any size to *)
(* SSE events.  A byte is a pair <<kind, x>>: the field names "data" and   *)
(* "event" and the colon of a comment stand for one byte each, since only  *)
(* the place where a read ends matters; payload x is one character of two  *)
(* bytes, its "lead" and its "cont", so that a read can end inside it.     *)
(***************************************************************************)
EXTENDS Integers, Sequences, SequencesExt

LF == <<"LF", 0>>
CR == <<"CR", 0>>
NL == <<"NL", 0>>      \* the newline that joins the data lines of an event
Bad == <<"bad", 0>>    \* U+FFFD
NoByte == <<"none", 0>>
NoEvent == [name |-> 0, data |-> <<>>]

(* State of the parser: text not cut into lines yet, the lead byte the      *)
(* decoder keeps between reads, and the lines of the event being read.      *)
NewParser == [buffer |-> <<>>, carry |-> NoByte, lines |-> <<>>, name |-> 0]

(* One byte through the TextDecoder. *)
DecodeByte(p, b) ==
    CASE b[1] = "lead" -> [p EXCEPT !.carry = b]
      [] b[1] = "cont" ->
            [p EXCEPT !.buffer = Append(@, IF p.carry = NoByte
                                           THEN Bad ELSE <<"char", b[2]>>),
                      !.carry = NoByte]
      [] OTHER -> [p EXCEPT !.buffer = Append(@, b)]

(* decoder.decode() at the end of the stream: a lead byte alone is no        *)
(* character.                                                               *)
DecodeRest(p) ==
    [p EXCEPT !.buffer = IF p.carry = NoByte THEN @ ELSE Append(@, Bad),
              !.carry = NoByte]

(* Mutant of Decoded: decode() without { stream: true }. *)
DecodedWhole(p, bytes) == DecodeRest(FoldLeft(DecodeByte, p, bytes))

(* decoder.decode(value, { stream: true }): a lead byte at the end of a     *)
(* read waits for the next one.                                             *)
Decoded(p, bytes) == FoldLeft(DecodeByte, p, bytes)

stripTrailingCR(line) ==
    IF line # <<>> /\ Last(line) = CR THEN Front(line) ELSE line

(* The pending event, if there is one, and the parser without it. *)
Flush(p) ==
    [parser |-> [p EXCEPT !.lines = <<>>, !.name = 0],
     event  |-> [name |-> p.name,
                 data |-> IF p.lines = <<>> THEN <<>>
                          ELSE Tail(FlattenSeq([i \in DOMAIN p.lines |->
                                                    <<NL>> \o p.lines[i]]))],
     found  |-> p.lines # <<>> \/ p.name # 0]

Nothing(p) == [parser |-> p, event |-> NoEvent, found |-> FALSE]

(* processLine: a blank line ends the event; comments and unknown fields    *)
(* are dropped; x in <<"event", x>> stands for the name of the event.      *)
ProcessLine(p, raw) ==
    LET line == stripTrailingCR(raw) IN
    CASE line = <<>> -> Flush(p)
      [] line # <<>> /\ line[1][1] = "data" ->
            Nothing([p EXCEPT !.lines = Append(@, Tail(line))])
      [] line # <<>> /\ line[1][1] = "event" ->
            Nothing([p EXCEPT !.name = line[1][2]])
      [] OTHER -> Nothing(p)

HasLine(p) == Contains(p.buffer, LF)

(* The loop over the complete lines of the buffer, one turn. *)
NextLine(p) ==
    LET end == SelectInSeq(p.buffer, LAMBDA c : c = LF) IN
    ProcessLine([p EXCEPT !.buffer = SubSeq(@, end + 1, Len(@))],
                SubSeq(p.buffer, 1, end - 1))

(* The end of the stream: what is left is a last line, and what that leaves *)
(* open is a last event.  At most one of the two yields something.          *)
LastEvent(p) ==
    LET rest == DecodeRest(p)
        line == IF rest.buffer = <<>> THEN Nothing(rest)
                ELSE ProcessLine([rest EXCEPT !.buffer = <<>>], rest.buffer)
    IN  IF line.found THEN line ELSE Flush(line.parser)
=============================================================================
