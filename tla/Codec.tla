------------------------------- MODULE Codec -------------------------------
(***************************************************************************)
(* WebSocketProtocol::decode of src/proto/codec.rs, called by FramedRead   *)
(* whenever bytes have arrived.  The bytes of a frame arrive in pieces; a  *)
(* text frame is unmasked and validated as it arrives, any other frame     *)
(* when it is whole.  decode changes the bytes in the source buffer, the   *)
(* masking key among them, and returns Ok(None) without consuming any.     *)
(*                                                                         *)
(* `sent' holds the frames the peer has written and decode has not         *)
(* consumed; `available' counts how many of their bytes are in the buffer. *)
(* For each payload byte of the first frame `residue' is the set of key    *)
(* bytes it is still XORed with.  The thresholds of the length encoding    *)
(* are parameters, as in FrameQueue.                                       *)
(***************************************************************************)
EXTENDS Utf8, Mask, FiniteSetsExt

CONSTANTS
    PeerFrames,      \* frames the peer may send
    Server,          \* Role::Server: expects masked frames
    Max7, Max16,     \* 125 and 65535
    MaxPayloadLen,   \* Limits::max_payload_len
    Addresses,       \* where the buffer may put a payload byte; it may move between reads
    BlockWidths,     \* widths of the SIMD blocks of some CPUs, 0 for none
    MaxFrames        \* bound: frames sent

ControlOps == {"Close", "Ping", "Pong"}
OpCodes == ControlOps \cup {"Text", "Binary", "Continuation"}
LenFields == {"7 bit", "16 bit", "64 bit"}

\* `close' says whether the status code and the reason of a close frame pass.
Frames ==
    [op : OpCodes \cup {"Reserved"}, fin : BOOLEAN, rsv : BOOLEAN, masked : BOOLEAN,
     field : LenFields, payload : Seq(ByteClasses), close : BOOLEAN]

ASSUME CodecAssumption ==
    /\ PeerFrames \subseteq Frames
    /\ Server \in BOOLEAN
    /\ Max7 \in Nat /\ Max16 \in Nat /\ Max7 < Max16
    /\ MaxPayloadLen \in Nat /\ MaxFrames \in Nat
    /\ Addresses \subseteq Nat
    /\ BlockWidths \subseteq Nat /\ \A w \in BlockWidths : w % 4 = 0

VARIABLES
    sent, available, key, residue,       \* the source buffer
    fragmented_message_opcode, payload_processed, partial_codepoint,
    partial_payload, \* how much of a fragmented message poll_next has
    error,          \* what decode returned last: an error, or "no"
    count,          \* frames sent
    text, whole,    \* the text message so far; whether it is finished
    garbled         \* whether a frame was handed out that is not unmasked

sourceVars == <<sent, available, key, residue>>
decoderVars == <<fragmented_message_opcode, payload_processed, partial_codepoint, partial_payload>>
vars == <<sourceVars, decoderVars, error, count, text, whole, garbled>>

-----------------------------------------------------------------------------
(* The layout of a frame in the buffer.                                    *)

ExtendedLen(f) == CASE f.field = "7 bit" -> 0 [] f.field = "16 bit" -> 2 [] f.field = "64 bit" -> 8
Offset(f) == 2 + ExtendedLen(f) + (IF f.masked THEN 4 ELSE 0)
FrameLen(f) == Offset(f) + Len(f.payload)

\* A masked byte arrives XORed with the key byte of its place.
MaskOf(f) == [i \in 1..Len(f.payload) |-> IF f.masked THEN {(i - 1) % 4} ELSE {}]
ResidueOfFirst(fs) == IF fs = <<>> THEN <<>> ELSE MaskOf(Head(fs))

Init ==
    /\ sent = <<>> /\ available = 0 /\ key = FramingKey /\ residue = <<>>
    /\ fragmented_message_opcode = "Continuation"
    /\ payload_processed = 0
    /\ partial_codepoint = <<>> /\ partial_payload = 0
    /\ error = "no" /\ count = 0
    /\ text = <<>> /\ whole = FALSE /\ garbled = FALSE

PeerWrite(f) ==
    /\ error = "no" /\ count < MaxFrames
    /\ count' = count + 1
    /\ sent' = Append(sent, f)
    /\ residue' = IF sent = <<>> THEN MaskOf(f) ELSE residue
    /\ UNCHANGED <<available, key, decoderVars, error, text, whole, garbled>>

Arriving == MapThenSumSet(LAMBDA i : FrameLen(sent[i]), DOMAIN sent)

\* FramedRead reads some of the bytes into the buffer.
Read ==
    /\ error = "no"
    /\ \E n \in (available + 1)..Arriving : available' = n
    /\ UNCHANGED <<sent, key, residue, decoderVars, error, count, text, whole, garbled>>

-----------------------------------------------------------------------------
(* decode, in the order of its checks, for the first frame f.              *)

\* The checks on the first two bytes.
InvalidHeader(f) ==
    \/ f.rsv
    \/ f.op = "Reserved"
    \/ f.op \in ControlOps /\ ~f.fin
    \/ f.op = "Continuation" /\ fragmented_message_opcode = "Continuation"
    \/ f.op \in {"Text", "Binary"} /\ fragmented_message_opcode # "Continuation"
    \/ f.masked # Server
    \/ f.op = "Close" /\ Len(f.payload) = 1
    \/ f.op \in ControlOps /\ f.field # "7 bit"

\* The length has to be in the shortest field that holds it.
InvalidLength(f) ==
    \/ f.field = "16 bit" /\ Len(f.payload) <= Max7
    \/ f.field = "64 bit" /\ Len(f.payload) <= Max16

TooLong(f) == Len(f.payload) > MaxPayloadLen

Decoding(f) == error = "no" /\ sent # <<>> /\ f = Head(sent)
HeaderPasses(f) ==
    /\ available >= Offset(f)
    /\ ~InvalidHeader(f) /\ ~InvalidLength(f) /\ ~TooLong(f)

DecodeInvalidHeader(f) ==
    /\ Decoding(f)
    /\ \/ available >= 2 /\ InvalidHeader(f) /\ error' = "header"
       \/ /\ available >= 2 + ExtendedLen(f) /\ ~InvalidHeader(f)
          /\ \/ InvalidLength(f) /\ error' = "length"
             \/ ~InvalidLength(f) /\ TooLong(f) /\ error' = "too long"
    /\ UNCHANGED <<sourceVars, decoderVars, count, text, whole, garbled>>

IsText(f) ==
    \/ f.op = "Text"
    \/ f.op = "Continuation" /\ fragmented_message_opcode = "Text"

PayloadAvailable(f) == Min({available - Offset(f), Len(f.payload)})
IsComplete(f) == PayloadAvailable(f) = Len(f.payload)

\* mask::frame on the bytes from payload_processed up to payload_available.
\* XORing a byte with the same key byte twice undoes it, hence SymDiff.
MaskFrames(f) ==
    {frame(key, addr, PayloadAvailable(f) - payload_processed, w) : addr \in Addresses, w \in BlockWidths}
Unmasked(f, mask) ==
    LET used == mask.used
        at(i) == i - payload_processed
    IN  [i \in DOMAIN residue |->
            IF f.masked /\ at(i) \in DOMAIN used
            THEN SymDiff(residue[i], {used[at(i)]})
            ELSE residue[i]]

\* The frame stays in the buffer with what was unmasked and the rotated key.
UnmaskInPlace(f, mask) ==
    /\ residue' = Unmasked(f, mask)
    /\ key' = IF f.masked THEN mask.key ELSE key

\* poll_next, with the frame: a fragment opens or continues the message, the
\* last one takes it and its opcode.  A fragment that makes the message too long
\* is dropped and the message stays open (PayloadTooLong).
Assemble(f) ==
    LET len == partial_payload + Len(f.payload)
        next(op, n) == fragmented_message_opcode' = op /\ partial_payload' = n
    IN  \/ /\ f.op # "Continuation"
           /\ IF f.fin THEN UNCHANGED <<fragmented_message_opcode, partial_payload>>
                       ELSE next(f.op, Len(f.payload))
        \/ /\ f.op = "Continuation" /\ len > MaxPayloadLen
           /\ UNCHANGED <<fragmented_message_opcode, partial_payload>>
        \/ /\ f.op = "Continuation" /\ len <= MaxPayloadLen
           /\ IF f.fin THEN next("Continuation", 0) ELSE next(fragmented_message_opcode, len)

\* The frame leaves the buffer, and poll_next gets it.
HandOut(f, plain) ==
    /\ sent' = Tail(sent)
    /\ available' = available - FrameLen(f)
    /\ key' = FramingKey
    /\ residue' = ResidueOfFirst(Tail(sent))
    /\ garbled' = (garbled \/ \E i \in DOMAIN plain : plain[i] # {})
    /\ Assemble(f)

\* Mutant: payload_processed is not set back.
Consume_KeepsProcessed(f, plain) ==
    /\ HandOut(f, plain)
    /\ payload_processed' = IF IsText(f) THEN Len(f.payload) ELSE payload_processed

\* The end of decode.
Consume(f, plain) ==
    /\ HandOut(f, plain)
    /\ payload_processed' = 0

\* What the message is after n bytes of f, if f belongs to a text message.
TextUpTo(f, n) ==
    (IF f.op = "Text" THEN <<>> ELSE text) \o SubSeq(f.payload, 1, n)
Collect(f) ==
    IF IsText(f) THEN text' = TextUpTo(f, Len(f.payload)) /\ whole' = f.fin
                 ELSE UNCHANGED <<text, whole>>

\* A frame without a payload is neither unmasked nor validated.
DecodeEmpty(f) ==
    /\ Decoding(f) /\ HeaderPasses(f)
    /\ f.payload = <<>>
    /\ Consume(f, residue)
    /\ Collect(f)
    /\ UNCHANGED <<partial_codepoint, error, count>>

\* Mutants: the end of any frame counts as the end of the message; only the end
\* of an unfragmented message does.
EndsText_AnyFrame(f) == IsComplete(f)
EndsText_Unfragmented(f) == IsComplete(f) /\ f.fin /\ f.op = "Text"

EndsText(f) == IsComplete(f) /\ f.fin

\* A text frame, as much of it as there is.  A byte that is not unmasked
\* looks like any other byte to the validator, an invalid one at worst.
DecodeText(f) ==
    /\ Decoding(f) /\ HeaderPasses(f)
    /\ f.payload # <<>> /\ IsText(f)
    /\ \E mask \in MaskFrames(f) :
       LET n == PayloadAvailable(f)
           plain == Unmasked(f, mask)
           payload == [i \in 1..Len(f.payload) |-> IF plain[i] = {} THEN f.payload[i] ELSE "X"]
           verdict == feed(partial_codepoint, SubSeq(payload, payload_processed + 1, n), EndsText(f))
       IN
        /\ partial_codepoint' = verdict.partial
        /\ \/ /\ ~verdict.ok
              /\ error' = "utf8"
              /\ UnmaskInPlace(f, mask)
              /\ text' = TextUpTo(f, n) /\ whole' = (n = Len(f.payload) /\ f.fin)
              /\ UNCHANGED <<sent, available, fragmented_message_opcode, partial_payload, payload_processed, garbled>>
           \/ /\ verdict.ok /\ ~IsComplete(f)
              /\ UnmaskInPlace(f, mask)
              /\ payload_processed' = n
              /\ UNCHANGED <<sent, available, fragmented_message_opcode, partial_payload, error, text, whole, garbled>>
           \/ /\ verdict.ok /\ IsComplete(f)
              /\ Consume(f, plain)
              /\ Collect(f)
              /\ UNCHANGED error
    /\ UNCHANGED count

\* Any other frame, once it is complete.
DecodeOther(f) ==
    /\ Decoding(f) /\ HeaderPasses(f)
    /\ f.payload # <<>> /\ ~IsText(f) /\ IsComplete(f)
    /\ \E mask \in MaskFrames(f) :
       \/ /\ f.op = "Close" /\ ~f.close
          /\ error' = "close"
          /\ UnmaskInPlace(f, mask)
          /\ UNCHANGED <<sent, available, fragmented_message_opcode, partial_payload, payload_processed, garbled>>
       \/ /\ ~(f.op = "Close" /\ ~f.close)
          /\ Consume(f, Unmasked(f, mask))
          /\ UNCHANGED error
    /\ UNCHANGED <<partial_codepoint, count, text, whole>>

Next ==
    \/ \E f \in PeerFrames :
        \/ PeerWrite(f)
        \/ DecodeInvalidHeader(f) \/ DecodeEmpty(f) \/ DecodeText(f) \/ DecodeOther(f)
    \/ Read

Spec == Init /\ [][Next]_vars

-----------------------------------------------------------------------------
\* poll_next makes a text Message without another check ("SAFETY: Codec
\* validates text frames as UTF-8"): the text of the frames that all passed is
\* valid UTF-8, however it was fragmented and however its bytes arrived.  It is
\* what decode has seen, a fragment that poll_next drops as too long included.
TextIsValid == whole /\ error = "no" => Valid(text)

\* decode gives up on a text only if it is invalid: nothing about how it was
\* fragmented, masked or cut in transit makes decode reject a valid one, and
\* nothing is left over from the message before.
Utf8ErrorIsReal == error = "utf8" => IF whole THEN ~Valid(text) ELSE Malformed(text)

\* Every payload handed out is unmasked once and only once, with the right key
\* bytes, although decode rotates the key in the buffer between two pieces.
PayloadIsPlain == ~garbled

\* The bounds of get_unchecked_mut ("SAFETY: self.payload_processed <=
\* payload_length"): what is processed is in the buffer, is part of the
\* frame decode looks at, and is unmasked.
ProcessedIsInBuffer ==
    payload_processed > 0 =>
        /\ sent # <<>> /\ payload_processed <= PayloadAvailable(Head(sent))
        /\ \A i \in DOMAIN residue : i <= payload_processed => residue[i] = {}
=============================================================================
