------------------------------- MODULE Frames -------------------------------
(***************************************************************************)
(* The two wire formats: frames of the channel between the server and a    *)
(* worker, and frames of a websocket client.  A stream is a sequence of    *)
(* cells, which arrive in chunks cut anywhere; a number takes several      *)
(* cells of a small base, so that a cut can go through it.                 *)
(***************************************************************************)
EXTENDS Naturals, Sequences, FiniteSets, SequencesExt, FiniteSetsExt

CONSTANTS
    Messages,       \* of the channel: [meta, kind, body]
    ClientFrames,   \* of a websocket: [fin, opcode, reserved, masked, payload]
    MaxFrames,      \* bound: frames of a stream
    Base,           \* of a cell
    MaxFrameLength, \* ChannelMaxFrameLength
    MaxMessage,     \* of a websocket, 0 for no limit
    Short           \* websocket lengths below it are in the header (126)

VARIABLES
    format,     \* "channel" or "websocket"
    frames,     \* that were sent
    wire,       \* cells that did not arrive yet
    buffer,     \* chunks: cells of a frame that is not complete
    needed,     \* how many are needed to go on
    fragments,  \* of a websocket message that is not complete, with its opcode
    got,        \* what was handed on
    failure     \* "none", or why the stream is not read any more

vars == <<format, frames, wire, buffer, needed, fragments, got, failure>>

Tail_(s, n) == SubSeq(s, n + 1, Len(s))
Concat(seqs) == FlattenSeq(seqs)

-----------------------------------------------------------------------------
(* frames.ts: u32 length of the rest | kind | u32 length of the metadata   *)
(* | metadata | body                                                       *)

Number(n) == <<n % Base, n \div Base>>
NumberAt(cells, i) == cells[i] + Base * cells[i + 1]
Width == 2

Rest(message) == 1 + Width + message.meta + Len(message.body)

EncodeMessage(message) ==
    Number(Rest(message)) \o <<message.kind>> \o Number(message.meta)
        \o [i \in 1..message.meta |-> message.meta] \o message.body

(* send: what the other end would not take is not written                  *)
Sent(messages) == SelectSeq(messages, LAMBDA message : Rest(message) <= MaxFrameLength)

(* the metadata has a length of its own for the decoder to find the body   *)
Decode(frame) ==
    LET meta == NumberAt(frame, 2)
    IN  [meta |-> meta, kind |-> frame[1],
         body |-> IF frame[1] \in {"bytes", "text"} THEN Tail_(frame, 1 + Width + meta) ELSE <<>>]

Step(offset, more, value, error) ==
    [offset |-> offset, needed |-> more, value |-> value, error |-> error]

(* hasFrame and readFrame at the start of the cells                        *)
ReadMessage(cells) ==
    IF Len(cells) < Width THEN Step(0, 0, <<>>, "none")
    ELSE LET length == NumberAt(cells, 1)
         IN  IF length > MaxFrameLength THEN Step(0, 0, <<>>, "too long")
             ELSE IF Len(cells) - Width < length THEN Step(0, Width + length, <<>>, "none")
             ELSE LET frame == SubSeq(cells, Width + 1, Width + length)
                  IN  IF 1 + Width + NumberAt(frame, 2) > Len(frame)
                      THEN Step(0, 0, <<>>, "metadata")
                      ELSE Step(Width + length, 0, <<Decode(frame)>>, "none")

-----------------------------------------------------------------------------
(* create-ws-frame-parser.ts: flags and opcode | mask bit and length | the *)
(* length again when it is long | the mask | the masked payload            *)

Mask == <<1, 2>>
Controls == {"close", "ping", "pong"}
LengthCells(length) == IF length < Short THEN 0 ELSE IF length < Base THEN 1 ELSE 2

EncodeFrame(frame) ==
    LET length == Len(frame.payload)
        marker == IF length < Short THEN length ELSE Short + LengthCells(length) - 1
    IN  <<[fin |-> frame.fin, opcode |-> frame.opcode, reserved |-> frame.reserved],
          [masked |-> frame.masked, length |-> marker]>>
        \o SubSeq(<<length % Base, length \div Base>>, 1, LengthCells(length))
        \o Mask
        \o [i \in 1..length |-> <<frame.payload[i], Mask[((i - 1) % Len(Mask)) + 1]>>]

Unmask(payload, mask) ==
    [i \in 1..Len(payload) |->
        IF payload[i][2] = mask[((i - 1) % Len(mask)) + 1] THEN payload[i][1] ELSE "garbled"]

(* assertValidHeader: nothing reserved, opcode, masked, control frames are *)
(* whole and short                                                         *)
IsValidHeader(first, second) ==
    /\ ~first.reserved /\ second.masked
    /\ first.opcode \in Controls \cup {"text", "binary", "continuation"}
    /\ first.opcode \in Controls => first.fin /\ second.length < Short

ReadPayloadLength(cells, lengthCells) ==
    CASE lengthCells = 0 -> cells[2].length
      [] lengthCells = 1 -> cells[3]
      [] lengthCells = 2 -> NumberAt(cells, 3)

ReadFrame(cells) ==
    IF Len(cells) < 2 THEN Step(0, 2, <<>>, "none")
    ELSE IF ~IsValidHeader(cells[1], cells[2]) THEN Step(0, 0, <<>>, "protocol")
    ELSE LET marker == cells[2].length
             lengthCells == IF marker < Short THEN 0 ELSE marker - Short + 1
             head == 2 + lengthCells + Len(Mask)
         IN  IF Len(cells) < head THEN Step(0, head, <<>>, "none")
             ELSE LET payload == ReadPayloadLength(cells, lengthCells)
                  IN  IF MaxMessage > 0 /\ payload > MaxMessage THEN Step(0, 0, <<>>, "too big")
                      ELSE IF Len(cells) < head + payload THEN Step(0, head + payload, <<>>, "none")
                      ELSE Step(head + payload, 0,
                                <<[fin |-> cells[1].fin, opcode |-> cells[1].opcode,
                                   payload |-> Unmask(SubSeq(cells, head + 1, head + payload),
                                                      SubSeq(cells, head - Len(Mask) + 1, head))]>>,
                                "none")

(* readClose, readData and readFrameEvents: what a frame adds to the state *)
(* of the reader                                                           *)
Event(type, data) == <<[type |-> type, data |-> data]>>
NoFragments == [opcode |-> "none", data |-> <<>>]

ReadData(reader, frame) ==
    LET opcode == IF reader.fragments.opcode = "none" THEN frame.opcode ELSE reader.fragments.opcode
        data == reader.fragments.data \o frame.payload
        fail == [reader EXCEPT !.error = "protocol"]
    IN  IF (frame.opcode = "continuation") # (reader.fragments.opcode # "none") THEN fail
        ELSE IF MaxMessage > 0 /\ Len(data) > MaxMessage THEN [reader EXCEPT !.error = "too big"]
        ELSE IF frame.fin
        THEN [reader EXCEPT !.events = @ \o Event(opcode, data), !.fragments = NoFragments]
        ELSE [reader EXCEPT !.fragments = [opcode |-> opcode, data |-> data]]

ReadFrameEvents(reader, frame) ==
    CASE reader.error # "none" -> reader
      [] frame.opcode \in {"ping", "pong"} -> [reader EXCEPT !.events = @ \o Event(frame.opcode, frame.payload)]
      [] frame.opcode = "close" ->
            IF Len(frame.payload) = 1 THEN [reader EXCEPT !.error = "protocol"]
            ELSE [reader EXCEPT !.events = @ \o Event("close", frame.payload)]
      [] OTHER -> ReadData(reader, frame)

-----------------------------------------------------------------------------

(* The loop of both decoders: frames are read as long as there are whole   *)
(* ones; what is left waits for the next chunk.                            *)
RECURSIVE ReadAll(_, _)
ReadAll(cells, values) ==
    LET step == IF format = "channel" THEN ReadMessage(cells) ELSE ReadFrame(cells)
    IN  IF step.value = <<>>
        THEN [values |-> values, rest |-> cells, needed |-> step.needed, error |-> step.error]
        ELSE ReadAll(Tail_(cells, step.offset), values \o step.value)

Init ==
    /\ \/ /\ format = "channel"
          /\ frames \in {Sent(s) : s \in UNION {[1..n -> Messages] : n \in 1..MaxFrames}}
          /\ wire = Concat([i \in 1..Len(frames) |-> EncodeMessage(frames[i])])
       \/ /\ format = "websocket"
          /\ frames \in UNION {[1..n -> ClientFrames] : n \in 1..MaxFrames}
          /\ wire = Concat([i \in 1..Len(frames) |-> EncodeFrame(frames[i])])
    /\ buffer = <<>> /\ needed = 0 /\ fragments = NoFragments /\ got = <<>> /\ failure = "none"

(* what the last frame needed is still needed                              *)
PushWithoutReset(chunk) ==
    LET cells == buffer \o chunk
    IN  IF Len(cells) < needed
        THEN buffer' = cells /\ UNCHANGED <<needed, got, failure>>
        ELSE LET result == ReadAll(cells, <<>>)
             IN  /\ buffer' = result.rest
                 /\ needed' = Max({needed, result.needed})
                 /\ got' = got \o result.values /\ failure' = result.error

(* FrameDecoder.push: messages are handed on as they are read              *)
Push(chunk) ==
    LET cells == buffer \o chunk
    IN  IF Len(cells) < needed
        THEN buffer' = cells /\ UNCHANGED <<needed, got, failure>>
        ELSE LET result == ReadAll(cells, <<>>)
             IN  /\ buffer' = result.rest /\ needed' = result.needed
                 /\ got' = got \o result.values /\ failure' = result.error

(* the parser, then the reader: a frame that is not valid takes the ones   *)
(* in front of it in its chunk along                                       *)
Parse(chunk) ==
    LET cells == buffer \o chunk
    IN  IF Len(cells) < needed
        THEN buffer' = cells /\ UNCHANGED <<needed, fragments, got, failure>>
        ELSE LET result == ReadAll(cells, <<>>)
                 reader == FoldLeft(ReadFrameEvents,
                                    [fragments |-> fragments, events |-> <<>>, error |-> "none"],
                                    result.values)
             IN  /\ buffer' = result.rest /\ needed' = result.needed
                 /\ IF result.error # "none" \/ reader.error # "none"
                    THEN /\ failure' = IF result.error # "none" THEN result.error ELSE reader.error
                         /\ UNCHANGED <<fragments, got>>
                    ELSE /\ fragments' = reader.fragments /\ got' = got \o reader.events
                         /\ UNCHANGED failure

Arrives ==
    /\ failure = "none"
    /\ \E n \in 1..Len(wire) :
        /\ wire' = Tail_(wire, n)
        /\ IF format = "channel"
           THEN Push(SubSeq(wire, 1, n)) /\ UNCHANGED fragments
           ELSE Parse(SubSeq(wire, 1, n))
    /\ UNCHANGED <<format, frames>>

Next == Arrives

Spec == Init /\ [][Next]_vars

-----------------------------------------------------------------------------

Size(frame) == Len(IF format = "channel" THEN EncodeMessage(frame) ELSE EncodeFrame(frame))
SizeOfFirst(n) == FoldLeft(LAMBDA size, frame : size + Size(frame), 0, SubSeq(frames, 1, n))
Arrived == SizeOfFirst(Len(frames)) - Len(wire)

(* how many frames have arrived with all of their cells                    *)
WholeFrames == Max({n \in 0..Len(frames) : SizeOfFirst(n) <= Arrived})

(* the i-th frame belongs to the message that the k-th frame ends          *)
IsData(i) == frames[i].opcode \notin Controls
EndsBefore(i) == {j \in 1..(i - 1) : IsData(j) /\ frames[j].fin}
StartOf(i) == IF EndsBefore(i) = {} THEN 1 ELSE Max(EndsBefore(i)) + 1
MessageOf(i) == SelectSeq(SubSeq([j \in 1..Len(frames) |-> j], StartOf(i), i), IsData)
DataOf(i) == Concat([j \in 1..Len(MessageOf(i)) |-> frames[MessageOf(i)[j]].payload])

(* a frame that the protocol of websockets, or the limit, does not allow   *)
IsWrong(i) ==
    LET frame == frames[i]
    IN  \/ frame.reserved \/ ~frame.masked
        \/ frame.opcode \in Controls /\ (~frame.fin \/ Len(frame.payload) >= Short)
        \/ frame.opcode = "close" /\ Len(frame.payload) = 1
        \/ IsData(i) /\ (Head(MessageOf(i)) = i) = (frame.opcode = "continuation")
        \/ IsData(i) /\ MaxMessage > 0 /\ Len(DataOf(i)) > MaxMessage

EventOf(i) ==
    IF ~IsData(i) THEN [type |-> frames[i].opcode, data |-> frames[i].payload]
    ELSE [type |-> frames[Head(MessageOf(i))].opcode, data |-> DataOf(i)]

EventsOf(n) ==
    LET ends == SelectSeq([j \in 1..n |-> j], LAMBDA j : ~IsData(j) \/ frames[j].fin)
    IN  [k \in 1..Len(ends) |-> EventOf(ends[k])]

(* However the stream was cut, each message whose last byte arrived was    *)
(* handed on, as it was sent and in its order, and no other (frames.ts:54  *)
(* "whatever the way the stream split them"): a whole frame never waits    *)
(* for the next one.  The same holds for the messages, fragments and       *)
(* control frames of a websocket as long as none is wrong, and a stream    *)
(* with a wrong frame is refused when that frame is there.                 *)
FramesSurviveCuts ==
    IF format = "channel"
    THEN failure = "none" /\ got = SubSeq(frames, 1, WholeFrames)
    ELSE LET wrong == {i \in 1..WholeFrames : IsWrong(i)}
         IN  IF wrong = {}
             THEN /\ failure = "none" => got = EventsOf(WholeFrames)
                  /\ failure # "none" => WholeFrames < Len(frames) /\ IsWrong(WholeFrames + 1)
             ELSE failure # "none" /\ IsPrefix(got, EventsOf(Min(wrong) - 1))
=============================================================================
