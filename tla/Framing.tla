------------------------------ MODULE Framing ------------------------------
(***************************************************************************)
(* The bytes of a frame header: Frame::encode and the conversions of       *)
(* OpCode of src/proto/types.rs, EncodedFrame::header_len and the masking  *)
(* bit of queue_frame of src/proto/stream.rs, and the header as decode of  *)
(* src/proto/codec.rs reads it.                                            *)
(*                                                                         *)
(* The 125 of the 7 bit length, the 256 values of a digit of a length and  *)
(* the width of usize are parameters, so that all three length fields and  *)
(* the limits between them are met with short payloads.                    *)
(***************************************************************************)
EXTENDS Integers, Sequences

CONSTANTS
    Max7,           \* 125: the longest payload with a 7 bit length
    Base,           \* 256: values of a digit of a 16 or 64 bit length
    UsizeBytes      \* digits of a usize: 8, or 4 on a 32 bit target

ASSUME FramingAssumption ==
    /\ Max7 \in Nat /\ Base \in Nat \ {0, 1} /\ Max7 < Base * Base - 1
    /\ UsizeBytes \in {4, 8}

Max16 == Base * Base - 1    \* u16::MAX
Marker16 == Max7 + 1        \* 126
Marker64 == Max7 + 2        \* 127
MaskBit == Max7 + 3         \* 128: 1 << 7
FinBit == 128

ControlOps == {"Close", "Ping", "Pong"}
OpCodes == ControlOps \cup {"Continuation", "Text", "Binary"}

\* u8::from(OpCode)
OpCodeToU8(op) ==
    CASE op = "Continuation" -> 0 [] op = "Text" -> 1 [] op = "Binary" -> 2
      [] op = "Close" -> 8 [] op = "Ping" -> 9 [] op = "Pong" -> 10

\* OpCode::try_from(u8)
OpCodeTryFrom(value) ==
    CASE value = 0 -> "Continuation" [] value = 1 -> "Text" [] value = 2 -> "Binary"
      [] value = 8 -> "Close" [] value = 9 -> "Ping" [] value = 10 -> "Pong"
      [] OTHER -> "InvalidOpcode"

-----------------------------------------------------------------------------
(* Lengths in big-endian order.                                            *)

to_be_bytes_u16(n) == <<n \div Base, n % Base>>

to_be_bytes_u64(n) ==
    LET q1 == n \div Base
        q2 == q1 \div Base
        q3 == q2 \div Base
        q4 == q3 \div Base
        q5 == q4 \div Base
        q6 == q5 \div Base
        q7 == q6 \div Base
    IN  <<q7 % Base, q6 % Base, q5 % Base, q4 % Base, q3 % Base, q2 % Base, q1 % Base, n % Base>>

from_be_bytes_u16(b) == b[1] * Base + b[2]

from_be_bytes_u64(b) ==
    ((((((b[1] * Base + b[2]) * Base + b[3]) * Base + b[4]) * Base + b[5]) * Base + b[6]) * Base
        + b[7]) * Base + b[8]

U32Values == Base * Base * Base * Base
UsizeValues == IF UsizeBytes = 4 THEN U32Values ELSE U32Values * U32Values

\* Mutant: the cast keeps the digits of a 32 bit usize.
as_usize_32Bit(n) == n % U32Values

\* The cast from u64 to usize keeps the digits that fit.
as_usize(n) == n % UsizeValues

-----------------------------------------------------------------------------
(* Encoding.                                                               *)

\* Mutant: the longest payload with a 16 bit length gets the 64 bit field.
encode_Wide(op, fin, len) ==
    LET first == (IF fin THEN FinBit ELSE 0) + OpCodeToU8(op)
    IN  CASE len >= Max16 -> <<first, Marker64>> \o to_be_bytes_u64(len)
          [] len > Max7 /\ len < Max16 -> <<first, Marker16>> \o to_be_bytes_u16(len)
          [] OTHER -> <<first, len>>

\* Frame::encode: the header up to where the mask is written.
encode(op, fin, len) ==
    LET first == (IF fin THEN FinBit ELSE 0) + OpCodeToU8(op)
    IN  CASE len > Max16 -> <<first, Marker64>> \o to_be_bytes_u64(len)
          [] len > Max7 /\ len <= Max16 -> <<first, Marker16>> \o to_be_bytes_u16(len)
          [] OTHER -> <<first, len>>

\* The array [u8; 14] that queue_frame fills: the encoded head, and for a client
\* the mask behind it and its bit in the second byte.
HeaderArray(head, masked, mask) ==
    LET filled == IF masked THEN [head EXCEPT ![2] = @ + MaskBit] \o mask ELSE head
    IN  [i \in 1..14 |-> IF i <= Len(filled) THEN filled[i] ELSE 0]

\* EncodedFrame::header_len
header_len(header) ==
    (IF header[2] >= MaskBit THEN 4 ELSE 0)
        + (CASE header[2] % MaskBit = Marker64 -> 10
             [] header[2] % MaskBit = Marker16 -> 4
             [] OTHER -> 2)

-----------------------------------------------------------------------------
(* The header of the frame at the start of src, as decode reads it.        *)

Fin(src) == src[1] >= FinBit
Rsv(src) == (src[1] % FinBit) \div 16
Op(src) == OpCodeTryFrom(src[1] % 16)
IsMasked(src) == src[2] >= MaskBit
ShortLen(src) == src[2] % MaskBit
ExtendedLen(src) ==
    CASE ShortLen(src) = Marker16 -> 2 [] ShortLen(src) = Marker64 -> 8 [] OTHER -> 0
PayloadLength(src) ==
    CASE ShortLen(src) = Marker16 -> from_be_bytes_u16(SubSeq(src, 3, 4))
      [] ShortLen(src) = Marker64 -> as_usize(from_be_bytes_u64(SubSeq(src, 3, 10)))
      [] OTHER -> ShortLen(src)
PayloadOffset(src) == 2 + ExtendedLen(src) + (IF IsMasked(src) THEN 4 ELSE 0)

\* The checks on the first two bytes, by an end that expects masked frames if
\* it is the server, inside a message that was opened with frag.
InvalidHead(src, server, frag) ==
    \/ Rsv(src) # 0
    \/ Op(src) = "InvalidOpcode"
    \/ Op(src) \in ControlOps /\ ~Fin(src)
    \/ Op(src) = "Continuation" /\ frag = "Continuation"
    \/ Op(src) \in {"Text", "Binary"} /\ frag # "Continuation"
    \/ IsMasked(src) # server
    \/ Op(src) = "Close" /\ ShortLen(src) = 1
    \/ Op(src) \in ControlOps /\ ShortLen(src) > Max7

\* A length that a shorter field would hold.
InvalidLength(src) ==
    \/ ShortLen(src) = Marker16 /\ PayloadLength(src) <= Max7
    \/ ShortLen(src) = Marker64 /\ PayloadLength(src) <= Max16
=============================================================================
