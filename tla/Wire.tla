-------------------------------- MODULE Wire --------------------------------
(***************************************************************************)
(* Messages on their way from one end to the other, byte by byte: split    *)
(* into frames by start_send, encoded and masked by queue_frame, written   *)
(* in parts from the FrameQueue, and cut into frames again by decode.      *)
(* What decode does to a payload that arrives in pieces is in Codec; here  *)
(* are the bytes of the headers, the lengths and the key.                  *)
(*                                                                         *)
(* A byte of the key has the number FramingKey gives it.  A byte of a      *)
(* payload has as its value the number of the byte of the key that it is   *)
(* XORed with, or Plain.                                                   *)
(***************************************************************************)
EXTENDS FrameQueue, Mask

CONSTANTS
    Messages,       \* messages that are sent, [op, len]
    FrameSize,      \* Config::frame_size
    LimitValues,    \* values of Limits::max_payload_len of the receiver
    Addresses,      \* where a payload may be in memory
    BlockWidths,    \* widths of the SIMD blocks of some CPUs, 0 for none
    MaxMessages     \* bound: messages sent

ASSUME WireAssumption ==
    /\ Messages \subseteq [op : OpCodes \ {"Continuation"}, len : Nat]
    /\ \A m \in Messages : m.len < UsizeValues                      \* a length in memory
    /\ \A m \in Messages : m.op \in ControlOps => m.len <= Max7     \* Message::ping, pong, close
    /\ \A m \in Messages : m.op = "Close" => m.len # 1              \* a code, or nothing
    /\ FrameSize \in Nat \ {0}
    /\ LimitValues \subseteq Nat /\ MaxMessages \in Nat
    /\ Addresses \subseteq Nat
    /\ BlockWidths \subseteq Nat /\ \A w \in BlockWidths : w % 4 = 0

VARIABLES
    role,           \* the role of the end that sends
    max_payload_len,
    count,          \* messages sent
    sent,           \* frames queued, in order
    consumed,       \* bytes that decode has removed from the buffer
    frag,           \* fragmented_message_opcode of the receiver
    partial,        \* length of its partial_payload
    received,       \* frames that decode returned
    failed          \* whether decode returned an error

config == <<role, max_payload_len>>
messageVars == <<frag, partial>>
vars == <<queueVars, config, count, sent, consumed, messageVars, received, failed>>

Plain == 4
Frame(op, fin, payload) == [op |-> op, fin |-> fin, payload |-> payload]

Init ==
    /\ QueueInit
    /\ role \in {"Client", "Server"} /\ max_payload_len \in LimitValues
    /\ count = 0 /\ sent = <<>>
    /\ consumed = 0 /\ frag = "Continuation" /\ partial = 0 /\ received = <<>>
    /\ failed = FALSE

-----------------------------------------------------------------------------
(* The sender.                                                             *)

FrameCount(m) ==
    IF m.op \in ControlOps \/ m.len <= FrameSize THEN 1 ELSE (m.len + FrameSize - 1) \div FrameSize

\* Message::into_frames, or the whole message as one frame: chunk i holds the
\* places of the payload of message number k behind chunk i - 1.
into_frames(k, m) ==
    LET n == FrameCount(m)
        size == IF n = 1 THEN m.len ELSE FrameSize
    IN  [i \in 1..n |->
            Frame(IF i = 1 THEN m.op ELSE "Continuation", i = n,
                  [j \in 1..Min({size, m.len - (i - 1) * size}) |-> <<k, (i - 1) * size + j>>])]

\* Mutant: the key is masked with in place and sent as that leaves it.
queue_frame_SendsRotatedKey(f, addr, w) ==
    LET mask == frame(FramingKey, addr, Len(f.payload), w)
        key == [i \in 1..4 |-> mask.key[i - 1]]
    IN  [header |-> HeaderArray(encode(f.op, f.fin, Len(f.payload)), role = "Client", key),
         payload |-> [i \in DOMAIN f.payload |->
                        Byte(IF role = "Client" THEN mask.used[i] ELSE Plain, f.payload[i])]]

\* queue_frame: a client masks the payload with a copy of the key it sends.
queue_frame(f, addr, w) ==
    LET mask == frame(FramingKey, addr, Len(f.payload), w)
        key == [i \in 1..4 |-> FramingKey[i - 1]]
    IN  [header |-> HeaderArray(encode(f.op, f.fin, Len(f.payload)), role = "Client", key),
         payload |-> [i \in DOMAIN f.payload |->
                        Byte(IF role = "Client" THEN mask.used[i] ELSE Plain, f.payload[i])]]

\* start_send; nothing is sent behind a close frame.
start_send(m) ==
    LET frames == into_frames(count + 1, m)
    IN  /\ count < MaxMessages
        /\ \A i \in DOMAIN sent : sent[i].op # "Close"
        /\ count' = count + 1
        /\ sent' = sent \o frames
        /\ \E addr \in Addresses, w \in BlockWidths :
            push([i \in DOMAIN frames |-> queue_frame(frames[i], addr, w)])
        /\ UNCHANGED <<config, consumed, messageVars, received, failed>>

\* poll_flush, one write of it
Flush == (Write \/ WriteVectored) /\ UNCHANGED <<config, count, sent, consumed, messageVars,
                                           received, failed>>

-----------------------------------------------------------------------------
(* The receiver.  Its buffer holds what the transport took and decode has  *)
(* not removed.  A decode that needs more bytes returns None and changes   *)
(* nothing here.                                                           *)

Buffer == SubSeq(wire, consumed + 1, Len(wire))
Values(bytes) == [i \in DOMAIN bytes |-> bytes[i].val]

\* Enough for the checks of the first two bytes, of the length, for the frame.
HeadArrived(src) == Len(src) >= 2
LengthArrived(src) == HeadArrived(src) /\ Len(src) >= 2 + ExtendedLen(src)
FrameArrived(src) == LengthArrived(src) /\ Len(src) >= PayloadOffset(src) + PayloadLength(src)

Invalid(src) ==
    \/ HeadArrived(src) /\ InvalidHead(src, role = "Client", frag)
    \/ LengthArrived(src) /\ (InvalidLength(src) \/ PayloadLength(src) > max_payload_len)

\* The payload, unmasked with the key in the header: a byte is what it was if
\* it is XORed with the same byte of the key again.
Unmasked(src, addr, w) ==
    LET offset == PayloadOffset(Values(src))
        n == PayloadLength(Values(src))
        key == [i \in 0..3 |-> src[offset - 3 + i].val]
        used == IF IsMasked(Values(src)) THEN frame(key, addr, n, w).used
                                         ELSE [i \in 1..n |-> Plain]
    IN  [i \in 1..n |-> IF src[offset + i].val = used[i] THEN src[offset + i].of ELSE NoPlace]

DecodeError ==
    /\ ~failed /\ Invalid(Values(Buffer))
    /\ failed' = TRUE
    /\ UNCHANGED <<queueVars, config, count, sent, consumed, messageVars, received>>

\* Mutant: poll_next keeps the opcode of a message that is whole.
Collect_KeepsOpcode(op, fin, n) ==
    /\ frag' = IF op \in {"Text", "Binary"} /\ ~fin THEN op ELSE frag
    /\ UNCHANGED partial

\* poll_next, with a frame of n bytes that decode returned: a whole message
\* goes to the application, a fragment opens or continues partial_payload, and
\* the last one takes it and the opcode.  A fragment that makes the message too
\* long is dropped, and whatever was open before stays open (PayloadTooLong).
Collect(op, fin, n) ==
    \/ op # "Continuation" /\ fin /\ UNCHANGED messageVars
    \/ op # "Continuation" /\ ~fin /\ frag' = op /\ partial' = n
    \/ op = "Continuation" /\ partial + n > max_payload_len /\ UNCHANGED messageVars
    \/ /\ op = "Continuation" /\ partial + n <= max_payload_len
       /\ \/ ~fin /\ partial' = partial + n /\ UNCHANGED frag
          \/ fin /\ partial' = 0 /\ frag' = "Continuation"     \* take_message_opcode

\* decode returns a frame, and poll_next gets it.
DecodeFrame ==
    LET src == Values(Buffer)
        op == Op(src)
        fin == Fin(src)
        n == PayloadLength(src)
    IN  /\ ~failed /\ FrameArrived(src) /\ ~Invalid(src)
        /\ \E addr \in Addresses, w \in BlockWidths :
            received' = Append(received, Frame(op, fin, Unmasked(Buffer, addr, w)))
        /\ consumed' = consumed + PayloadOffset(src) + n
        /\ Collect(op, fin, n)
        /\ UNCHANGED <<queueVars, config, count, sent, failed>>

Next == (\E m \in Messages : start_send(m)) \/ Flush \/ DecodeError \/ DecodeFrame

Spec == Init /\ [][Next]_vars

-----------------------------------------------------------------------------
Channel == INSTANCE FrameChannel WITH
    Batches <- {into_frames(k, m) : k \in 1..MaxMessages, m \in Messages}

\* The frames one end queues are the frames the other end decodes, in order and
\* unchanged, whatever their lengths, however their bytes are cut on the way,
\* in both directions: Frame::encode, queue_frame, FrameQueue and decode
\* implement a first-in first-out channel of frames.
ImplementsChannel == Channel!Spec

\* How long its message is at the end of the frame f.
MessageLen(f) == IF f.payload = <<>> THEN 0 ELSE f.payload[Len(f.payload)][2]

\* decode rejects a frame of this crate only if it is longer than the limit, or
\* if it begins a message after an earlier one was longer than the limit and so
\* may still be open (PayloadTooLong keeps the opcode); no frame longer than the
\* limit gets through; when everything is written and nothing was rejected every
\* frame has arrived: decode never waits for a byte that the encoder did not
\* write, nor leaves one in the buffer.
RejectsOnlyTooLong ==
    LET TooLong(f) == Len(f.payload) > max_payload_len
        next == sent[Len(received) + 1]
    IN  /\ failed =>
            \/ TooLong(next)
            \/ /\ next.op \in {"Text", "Binary"}
               /\ \E i \in DOMAIN received : MessageLen(received[i]) > max_payload_len
        /\ \A i \in DOMAIN received : ~TooLong(received[i])
        /\ pending_bytes = 0 /\ ~failed /\ ~FrameArrived(Values(Buffer)) /\ ~Invalid(Values(Buffer)) =>
               Len(received) = Len(sent) /\ consumed = Len(wire)
=============================================================================
