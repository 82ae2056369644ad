---------------------------- MODULE CodecProofs ----------------------------
(***************************************************************************)
(* Proofs about Codec: frames of every length, cut in transit in every way *)
(* and unmasked at any address with blocks of any width.                   *)
(***************************************************************************)
EXTENDS Codec, DecodingFacts

-----------------------------------------------------------------------------
(* The buffer between two calls of decode.                                 *)

\* How the first frame is masked when n of its bytes are unmasked.
MaskedFrom(f, n) ==
    [i \in 1..Len(f.payload) |-> IF f.masked /\ i > n THEN {(i - 1) % 4} ELSE {}]
KeyAt(f, n) == IF f.masked THEN rotate_mask(FramingKey, n) ELSE FramingKey

BufferInv ==
    /\ IsSeq(sent) /\ \A i \in 1..Len(sent) : sent[i] \in PeerFrames
    /\ available \in Nat /\ payload_processed \in Nat
    /\ sent = <<>> => payload_processed = 0 /\ key = FramingKey
    /\ sent # <<>> =>
        /\ payload_processed <= Len(Head(sent).payload)
        /\ payload_processed > 0 => available >= Offset(Head(sent)) + payload_processed
        /\ residue = MaskedFrom(Head(sent), payload_processed)
        /\ key = KeyAt(Head(sent), payload_processed)

\* decode is not called again after an error.
SourceInv ==
    /\ error = "no" => BufferInv
    /\ ProcessedIsInBuffer /\ PayloadIsPlain

\* The parts of a frame.
LEMMA FrameFacts ==
    ASSUME NEW f \in PeerFrames
    PROVE  /\ IsSeq(f.payload) /\ Len(f.payload) \in Nat /\ f.masked \in BOOLEAN /\ f.fin \in BOOLEAN
           /\ Offset(f) \in Nat /\ FrameLen(f) \in Nat /\ FrameLen(f) = Offset(f) + Len(f.payload)
<1>1. f \in Frames
    BY CodecAssumption
<1>2. /\ f.payload \in Seq(ByteClasses) /\ f.masked \in BOOLEAN /\ f.fin \in BOOLEAN
      /\ f.field \in {"7 bit", "16 bit", "64 bit"}
    BY <1>1 DEF Frames, LenFields
<1>3. IsSeq(f.payload)
    BY <1>2, SeqIsSeq
<1>4. Len(f.payload) \in Nat
    BY <1>3, LengthFacts
<1>5. ExtendedLen(f) \in Nat
    BY <1>2 DEF ExtendedLen
<1> DEFINE x == IF f.masked THEN 4 ELSE 0
<1>6. x \in Nat /\ Offset(f) = 2 + ExtendedLen(f) + x
    BY DEF Offset
<1> HIDE DEF x
<1>7. Offset(f) \in Nat
    BY <1>5, <1>6
<1>8. FrameLen(f) = Offset(f) + Len(f.payload)
    BY DEF FrameLen
<1>9. FrameLen(f) \in Nat
    BY <1>4, <1>7, <1>8
<1> QED
    BY <1>2, <1>3, <1>4, <1>7, <1>8, <1>9

\* Nothing of a frame is unmasked.
LEMMA AtFirst ==
    ASSUME NEW f \in PeerFrames
    PROVE  MaskOf(f) = MaskedFrom(f, 0) /\ KeyAt(f, 0) = FramingKey
<1>1. Len(f.payload) \in Nat
    BY FrameFacts
<1>2. \A i \in 1..Len(f.payload) : i > 0
    BY <1>1
<1>3. MaskOf(f) = MaskedFrom(f, 0)
    BY <1>2 DEF MaskOf, MaskedFrom
<1>4. \A i \in 0..3 : (i + 0) % 4 \in 0..3 /\ (i + 0) % 4 = i
    OBVIOUS
<1>5. rotate_mask(FramingKey, 0) = FramingKey
    BY <1>4 DEF rotate_mask, FramingKey
<1> QED
    BY <1>3, <1>5 DEF KeyAt

\* payload_available
LEMMA AvailableFacts ==
    ASSUME NEW f \in PeerFrames, available \in Nat, available >= Offset(f)
    PROVE  /\ PayloadAvailable(f) \in Nat /\ PayloadAvailable(f) <= Len(f.payload)
           /\ PayloadAvailable(f) <= available - Offset(f)
           /\ \A p \in Nat : p <= Len(f.payload) /\ p <= available - Offset(f) => p <= PayloadAvailable(f)
<1> DEFINE L == Len(f.payload)
           r == available - Offset(f)
<1>1. L \in Nat /\ r \in Nat
    BY FrameFacts
<1>3. PayloadAvailable(f) = Min({r, L})
    BY DEF PayloadAvailable
<1> HIDE DEF L, r
<1>0. L \in Int /\ r \in Int
    BY <1>1
<1>2. Min({r, L}) \in {r, L} /\ Min({r, L}) <= r /\ Min({r, L}) <= L
    BY <1>0, MinFacts
<1>4. PayloadAvailable(f) \in Nat
    BY <1>1, <1>2, <1>3
<1>5. \A p \in Nat : p <= L /\ p <= r => p <= PayloadAvailable(f)
    BY <1>2, <1>3
<1> QED
    BY <1>2, <1>3, <1>4, <1>5 DEF L, r

\* A piece of the first frame is unmasked: it had been XORed with the key from
\* its first byte on, and is XORed with the rotated key.
LEMMA PieceFacts ==
    ASSUME BufferInv, NEW f \in PeerFrames, Decoding(f), HeaderPasses(f), NEW mask \in MaskFrames(f)
    PROVE  /\ PayloadAvailable(f) \in Nat /\ payload_processed <= PayloadAvailable(f)
           /\ PayloadAvailable(f) <= Len(f.payload) /\ PayloadAvailable(f) <= available - Offset(f)
           /\ Unmasked(f, mask) = MaskedFrom(f, PayloadAvailable(f))
           /\ (IF f.masked THEN mask.key ELSE key) = KeyAt(f, PayloadAvailable(f))
<1> DEFINE n == PayloadAvailable(f)
           p == payload_processed
           L == Len(f.payload)
           d == n - p
<1>1. L \in Nat /\ Offset(f) \in Nat /\ f.masked \in BOOLEAN
    BY FrameFacts
<1>2. /\ p \in Nat /\ p <= L /\ (p > 0 => available >= Offset(f) + p)
      /\ residue = MaskedFrom(f, p) /\ key = KeyAt(f, p) /\ available \in Nat /\ available >= Offset(f)
    BY DEF BufferInv, Decoding, HeaderPasses
<1>3. n \in Nat /\ n <= L /\ n <= available - Offset(f) /\ p <= n
  <2>1. p <= available - Offset(f)
    BY <1>1, <1>2
  <2> QED
    BY <1>2, <2>1, AvailableFacts
<1>4. PICK addr \in Addresses, w \in BlockWidths : mask = frame(key, addr, d, w)
    BY DEF MaskFrames
<1>5. addr \in Nat /\ w \in Nat /\ w % 4 = 0
    BY CodecAssumption
<1>0. Unmasked(f, mask) =
        [i \in DOMAIN residue |->
            IF f.masked /\ i - p \in DOMAIN mask.used
            THEN SymDiff(residue[i], {mask.used[i - p]}) ELSE residue[i]]
    BY DEF Unmasked
<1>6. d \in Nat /\ p + 0 + d = n /\ 0 % 4 = 0
    BY <1>2, <1>3
<1> HIDE DEF n, p, L
<1>7. mask.used = Repeated(key, d) /\ mask.key = rotate_mask(key, d)
  <2> HIDE DEF d
  <2>1. frame(key, addr, d, w).used = Repeated(key, d) /\ frame(key, addr, d, w).key = rotate_mask(key, d)
    BY <1>5, <1>6, MaskRepeats
  <2> QED
    BY <1>4, <2>1
<1>8. (IF f.masked THEN mask.key ELSE key) = KeyAt(f, n)
  <2>1. rotate_mask(rotate_mask(FramingKey, p), d) = rotate_mask(FramingKey, p + 0 + d)
    BY <1>2, <1>6, RotateTwice
  <2> QED
    BY <1>2, <1>6, <1>7, <2>1 DEF KeyAt
<1>9. DOMAIN residue = 1..L /\ \A i \in 1..L : residue[i] = IF f.masked /\ i > p THEN {(i - 1) % 4} ELSE {}
    BY <1>2 DEF MaskedFrom, L
<1>10. DOMAIN mask.used = 1..d /\ \A j \in 1..d : mask.used[j] = key[(j - 1) % 4]
    BY <1>7 DEF Repeated
<1>11. ASSUME NEW i \in 1..L
       PROVE  (IF f.masked /\ i - p \in DOMAIN mask.used
               THEN SymDiff(residue[i], {mask.used[i - p]}) ELSE residue[i])
              = IF f.masked /\ i > n THEN {(i - 1) % 4} ELSE {}
  <2>1. CASE ~f.masked
    BY <1>9, <1>11, <2>1
  <2>2. CASE f.masked /\ i <= p
    <3>1. i - p \notin 1..d /\ ~(i > n) /\ ~(i > p)
      BY <1>1, <1>2, <1>3, <2>2 DEF L
    <3> QED
      BY <1>9, <1>10, <2>2, <3>1
  <2>3. CASE f.masked /\ i > n
    <3>1. i - p \notin 1..d /\ i > p
      BY <1>1, <1>2, <1>3, <1>6, <2>3 DEF L
    <3> QED
      BY <1>9, <1>10, <2>3, <3>1
  <2>4. CASE f.masked /\ i > p /\ i <= n
    <3> DEFINE j == i - p
    <3>1. j \in 1..d /\ j \in Nat \ {0} /\ ~(i > n) /\ p + j - 1 = i - 1 /\ (i - 1) % 4 \in 0..3
      BY <1>1, <1>2, <1>3, <1>6, <2>4 DEF L
    <3> HIDE DEF j, d
    <3>2. mask.used[j] = key[(j - 1) % 4]
      BY <1>10, <3>1
    <3>3. rotate_mask(FramingKey, p)[(j - 1) % 4] = FramingKey[(p + j - 1) % 4]
      BY <1>2, <3>1, RotateRepeats
    <3>4. key = rotate_mask(FramingKey, p)
      BY <1>2, <2>4 DEF KeyAt
    <3>5. FramingKey[(i - 1) % 4] = (i - 1) % 4
      BY <3>1 DEF FramingKey
    <3>6. mask.used[j] = (i - 1) % 4
      BY <3>1, <3>2, <3>3, <3>4, <3>5
    <3>7. residue[i] = {(i - 1) % 4}
      BY <1>9, <2>4
    <3>8. SymDiff(residue[i], {mask.used[j]}) = {}
      BY <3>6, <3>7 DEF SymDiff
    <3>9. j \in DOMAIN mask.used
      BY <1>10, <3>1
    <3> QED
      BY <2>4, <3>1, <3>8, <3>9 DEF j
  <2> QED
    BY <1>1, <1>2, <1>3, <2>1, <2>2, <2>3, <2>4 DEF L
<1>12. Unmasked(f, mask) = MaskedFrom(f, n)
    BY <1>0, <1>9, <1>11 DEF MaskedFrom, L
<1> QED
    BY <1>3, <1>8, <1>12 DEF n, p, L

\* The first frame leaves the buffer: the next one is as the peer sent it.
LEMMA ConsumeKeeps ==
    ASSUME BufferInv, NEW f \in PeerFrames, Decoding(f), available >= FrameLen(f),
           Consume(f, MaskedFrom(f, Len(f.payload)))
    PROVE  BufferInv' /\ payload_processed' = 0 /\ (garbled' <=> garbled)
<1> DEFINE rest == Tail(sent)
           L == Len(f.payload)
           plain == MaskedFrom(f, L)
<1>1. /\ sent' = rest /\ available' = available - FrameLen(f) /\ key' = FramingKey
      /\ residue' = ResidueOfFirst(rest) /\ payload_processed' = 0
      /\ garbled' = (garbled \/ \E i \in DOMAIN plain : plain[i] # {})
    BY DEF Consume, HandOut
<1>2. IsSeq(sent) /\ sent # <<>> /\ available \in Nat
    BY DEF BufferInv, Decoding
<1>3. FrameLen(f) \in Nat /\ L \in Nat
    BY FrameFacts
<1>4. available' \in Nat
    BY <1>1, <1>2, <1>3
<1>5. DOMAIN plain = 1..L /\ \A i \in 1..L : plain[i] = IF f.masked /\ i > L THEN {(i - 1) % 4} ELSE {}
    BY DEF MaskedFrom
<1>6. \A i \in 1..L : ~(i > L)
    BY <1>3
<1>7. \A i \in DOMAIN plain : plain[i] = {}
    BY <1>5, <1>6
<1> HIDE DEF plain
<1>8. garbled' <=> garbled
    BY <1>1, <1>7
<1>9. IsSeq(rest) /\ Len(rest) = Len(sent) - 1 /\ Len(sent) \in Nat
    BY <1>2, HeadTail, LengthFacts
<1>10. \A i \in 1..Len(rest) : rest[i] = sent[i + 1]
    BY <1>2 DEF IsSeq
<1>11. \A i \in 1..Len(rest) : rest[i] \in PeerFrames
  <2>1. \A i \in 1..Len(rest) : i + 1 \in 1..Len(sent)
    BY <1>9
  <2> QED
    BY <1>10, <2>1 DEF BufferInv
<1> HIDE DEF rest
<1>12. ASSUME rest # <<>>
       PROVE  /\ residue' = MaskedFrom(Head(rest), 0) /\ key' = KeyAt(Head(rest), 0)
              /\ Len(Head(rest).payload) \in Nat
  <2>1. Head(rest) = rest[1] /\ 1 \in 1..Len(rest)
    BY <1>9, <1>12, HeadTail, LengthFacts
  <2>2. Head(rest) \in PeerFrames
    BY <1>11, <2>1
  <2> QED
    BY <1>1, <1>12, <2>2, AtFirst, FrameFacts DEF ResidueOfFirst
<1>13. BufferInv'
    BY <1>1, <1>4, <1>9, <1>11, <1>12 DEF BufferInv
<1> QED
    BY <1>1, <1>8, <1>13

\* The invariant says what a run checks of the buffer.
LEMMA BufferIsPlain == BufferInv => ProcessedIsInBuffer
<1> SUFFICES ASSUME BufferInv, payload_processed > 0 PROVE
        /\ sent # <<>> /\ payload_processed <= PayloadAvailable(Head(sent))
        /\ \A i \in DOMAIN residue : i <= payload_processed => residue[i] = {}
    BY DEF ProcessedIsInBuffer
<1> DEFINE f == Head(sent)
           p == payload_processed
<1>1. /\ p \in Nat /\ sent # <<>> /\ IsSeq(sent) /\ p <= Len(f.payload) /\ available >= Offset(f) + p
      /\ available \in Nat /\ residue = MaskedFrom(f, p)
    BY DEF BufferInv
<1>2. f \in PeerFrames
  <2>1. f = sent[1] /\ 1 \in 1..Len(sent)
    BY <1>1, HeadTail, LengthFacts
  <2> QED
    BY <2>1 DEF BufferInv
<1>3. Len(f.payload) \in Nat /\ Offset(f) \in Nat
    BY <1>2, FrameFacts
<1> HIDE DEF f, p
<1>4. available >= Offset(f) /\ p <= available - Offset(f)
    BY <1>1, <1>3
<1>5. p <= PayloadAvailable(f)
    BY <1>1, <1>2, <1>4, AvailableFacts
<1>6. ASSUME NEW i \in DOMAIN residue, i <= p PROVE residue[i] = {}
  <2>1. i \in 1..Len(f.payload)
    BY <1>1, <1>6 DEF MaskedFrom
  <2>2. ~(i > p)
    BY <1>1, <1>3, <1>6, <2>1
  <2> QED
    BY <1>1, <2>1, <2>2 DEF MaskedFrom
<1> QED
    BY <1>1, <1>5, <1>6 DEF f, p

\* The peer sends a frame.
LEMMA WriteKeepsSource ==
    ASSUME SourceInv, NEW f \in PeerFrames, PeerWrite(f)
    PROVE  SourceInv'
<1>1. /\ error = "no" /\ sent' = Append(sent, f)
      /\ residue' = (IF sent = <<>> THEN MaskOf(f) ELSE residue)
      /\ available' = available /\ key' = key /\ payload_processed' = payload_processed
      /\ garbled' = garbled
    BY DEF PeerWrite, decoderVars
<1>2. BufferInv
    BY <1>1 DEF SourceInv
<1> DEFINE q == Append(sent, f)
<1>0. IsSeq(sent)
    BY <1>2 DEF BufferInv
<1>3. IsSeq(sent) /\ Len(sent) \in Nat
    BY <1>0, LengthFacts
<1>4. /\ IsSeq(q) /\ Len(q) = Len(sent) + 1 /\ q # <<>> /\ q[Len(sent) + 1] = f
      /\ \A i \in 1..Len(sent) : q[i] = sent[i]
    BY <1>0, AppendElements
<1>5. \A i \in 1..Len(q) : q[i] \in PeerFrames
  <2> SUFFICES ASSUME NEW i \in 1..Len(q) PROVE q[i] \in PeerFrames
    OBVIOUS
  <2>1. CASE i = Len(sent) + 1
    BY <1>4, <2>1
  <2>2. CASE i \in 1..Len(sent)
    BY <1>2, <1>4, <2>2 DEF BufferInv
  <2> QED
    BY <1>3, <1>4, <2>1, <2>2
<1> HIDE DEF q
<1>6. Head(q) = q[1]
    BY <1>4, HeadTail
<1>7. BufferInv'
  <2>1. CASE sent = <<>>
    <3>1. Len(sent) = 0
      BY <1>3, <2>1, LengthFacts
    <3>2. Head(q) = f
      BY <1>4, <1>6, <3>1
    <3>3. payload_processed = 0 /\ key = FramingKey /\ available \in Nat
      BY <1>2, <2>1 DEF BufferInv
    <3>4. MaskOf(f) = MaskedFrom(f, 0) /\ KeyAt(f, 0) = FramingKey /\ Len(f.payload) \in Nat
      BY AtFirst, FrameFacts
    <3> QED
      BY <1>1, <1>4, <1>5, <2>1, <3>2, <3>3, <3>4 DEF BufferInv, q
  <2>2. CASE sent # <<>>
    <3>1. Len(sent) # 0
      BY <1>3, <2>2, LengthFacts
    <3>2. Head(q) = Head(sent)
      <4>1. 1 \in 1..Len(sent) /\ Head(sent) = sent[1]
        BY <1>3, <2>2, <3>1, HeadTail
      <4> QED
        BY <1>4, <1>6, <4>1
    <3> QED
      BY <1>1, <1>2, <1>4, <1>5, <2>2, <3>2 DEF BufferInv, Offset, q
  <2> QED
    BY <2>1, <2>2
<1>8. ProcessedIsInBuffer'
    BY <1>7, BufferIsPlain, PTL
<1> QED
    BY <1>1, <1>7, <1>8 DEF SourceInv, PayloadIsPlain

\* More bytes of the frames arrive.
LEMMA ReadKeepsSource ==
    ASSUME SourceInv, Read
    PROVE  SourceInv'
<1>1. /\ error = "no" /\ available' \in (available + 1)..Arriving
      /\ sent' = sent /\ key' = key /\ residue' = residue /\ payload_processed' = payload_processed
      /\ garbled' = garbled
    BY DEF Read, decoderVars
<1>2. BufferInv
    BY <1>1 DEF SourceInv
<1>3. available \in Nat /\ available' \in Nat /\ available' > available
    BY <1>1, <1>2 DEF BufferInv
<1>4. sent # <<>> /\ payload_processed > 0 => available' >= Offset(Head(sent)) + payload_processed
  <2> SUFFICES ASSUME sent # <<>>, payload_processed > 0
               PROVE  available' >= Offset(Head(sent)) + payload_processed
    OBVIOUS
  <2>1. Head(sent) \in PeerFrames
    <3>1. IsSeq(sent)
      BY <1>2 DEF BufferInv
    <3>2. Head(sent) = sent[1] /\ 1 \in 1..Len(sent)
      BY <3>1, HeadTail, LengthFacts
    <3> QED
      BY <1>2, <3>2 DEF BufferInv
  <2>2. Offset(Head(sent)) \in Nat
    BY <2>1, FrameFacts
  <2>3. payload_processed \in Nat /\ available >= Offset(Head(sent)) + payload_processed
    BY <1>2 DEF BufferInv
  <2> QED
    BY <1>3, <2>2, <2>3
<1>5. BufferInv'
    BY <1>1, <1>2, <1>3, <1>4 DEF BufferInv, Offset
<1>6. ProcessedIsInBuffer'
    BY <1>5, BufferIsPlain, PTL
<1> QED
    BY <1>1, <1>5, <1>6 DEF SourceInv, PayloadIsPlain

\* decode returns an error and leaves the frame where it is.
LEMMA HeaderKeepsSource ==
    ASSUME SourceInv, NEW f \in PeerFrames, DecodeInvalidHeader(f)
    PROVE  SourceInv'
<1>1. /\ error' # "no" /\ sent' = sent /\ available' = available /\ residue' = residue
      /\ payload_processed' = payload_processed /\ garbled' = garbled
    BY DEF DecodeInvalidHeader, sourceVars, decoderVars
<1> QED
    BY <1>1 DEF SourceInv, PayloadIsPlain, ProcessedIsInBuffer, PayloadAvailable, Offset

\* A piece of the first frame is unmasked in place.
LEMMA InPlaceKeepsSource ==
    ASSUME BufferInv, PayloadIsPlain, NEW f \in PeerFrames, Decoding(f), HeaderPasses(f),
           NEW mask \in MaskFrames(f), UnmaskInPlace(f, mask),
           sent' = sent, available' = available, garbled' = garbled,
           \/ error' # "no" /\ payload_processed' = payload_processed
           \/ payload_processed' = PayloadAvailable(f)
    PROVE  SourceInv'
<1> DEFINE n == PayloadAvailable(f)
           p == payload_processed
<1>1. /\ n \in Nat /\ p <= n /\ n <= Len(f.payload) /\ n <= available - Offset(f)
      /\ residue' = MaskedFrom(f, n) /\ key' = KeyAt(f, n)
    BY PieceFacts DEF UnmaskInPlace
<1>2. f = Head(sent) /\ sent # <<>> /\ p \in Nat /\ available \in Nat
    BY DEF Decoding, BufferInv
<1>3. Len(f.payload) \in Nat /\ Offset(f) \in Nat
    BY FrameFacts
<1> HIDE DEF n
<1>4. n > 0 => available >= Offset(f) + n
    BY <1>1, <1>2, <1>3
<1>5. CASE payload_processed' = n
  <2>1. BufferInv'
    BY <1>1, <1>2, <1>4, <1>5 DEF BufferInv
  <2>2. ProcessedIsInBuffer'
    BY <2>1, BufferIsPlain, PTL
  <2> QED
    BY <2>1, <2>2 DEF SourceInv, PayloadIsPlain
<1>6. CASE error' # "no" /\ payload_processed' = p
  <2>1. \A i \in DOMAIN MaskedFrom(f, n) : i <= p => MaskedFrom(f, n)[i] = {}
    <3> SUFFICES ASSUME NEW i \in 1..Len(f.payload), i <= p PROVE MaskedFrom(f, n)[i] = {}
      BY DEF MaskedFrom
    <3>1. ~(i > n)
      BY <1>1, <1>2, <1>3
    <3> QED
      BY <3>1 DEF MaskedFrom
  <2>2. PayloadAvailable(Head(sent))' = n
    BY <1>2 DEF PayloadAvailable, Offset, ExtendedLen, n
  <2>3. ProcessedIsInBuffer'
    BY <1>1, <1>2, <1>6, <2>1, <2>2 DEF ProcessedIsInBuffer
  <2> QED
    BY <1>6, <2>3 DEF SourceInv, PayloadIsPlain
<1> QED
    BY <1>5, <1>6 DEF n

\* The first frame is handed out.
LEMMA ConsumeKeepsSource ==
    ASSUME BufferInv, PayloadIsPlain, NEW f \in PeerFrames, Decoding(f), available >= FrameLen(f),
           Consume(f, MaskedFrom(f, Len(f.payload)))
    PROVE  SourceInv'
<1>1. BufferInv' /\ (garbled' <=> garbled)
    BY ConsumeKeeps
<1>2. ProcessedIsInBuffer'
    BY <1>1, BufferIsPlain, PTL
<1> QED
    BY <1>1, <1>2 DEF SourceInv, PayloadIsPlain

\* A whole frame is in the buffer and all of it unmasked.
LEMMA WholeFacts ==
    ASSUME BufferInv, NEW f \in PeerFrames, Decoding(f), HeaderPasses(f)
    PROVE  /\ IsComplete(f) => available >= FrameLen(f)
           /\ f.payload = <<>> => available >= FrameLen(f) /\ residue = MaskedFrom(f, Len(f.payload))
<1>1. /\ Len(f.payload) \in Nat /\ Offset(f) \in Nat /\ FrameLen(f) = Offset(f) + Len(f.payload)
      /\ IsSeq(f.payload)
    BY FrameFacts
<1>2. /\ available \in Nat /\ available >= Offset(f) /\ payload_processed \in Nat
      /\ payload_processed <= Len(f.payload) /\ residue = MaskedFrom(f, payload_processed)
    BY DEF BufferInv, Decoding, HeaderPasses
<1>3. PayloadAvailable(f) \in Nat /\ PayloadAvailable(f) <= available - Offset(f)
    BY <1>2, AvailableFacts
<1>4. IsComplete(f) => available >= FrameLen(f)
    BY <1>1, <1>2, <1>3 DEF IsComplete
<1>5. f.payload = <<>> => Len(f.payload) = 0
    BY <1>1, LengthFacts
<1>6. Len(f.payload) = 0 => available >= FrameLen(f) /\ payload_processed = Len(f.payload)
    BY <1>1, <1>2
<1> QED
    BY <1>2, <1>4, <1>5, <1>6

\* decode, when nothing is to be unmasked.
LEMMA EmptyKeepsSource ==
    ASSUME SourceInv, NEW f \in PeerFrames, DecodeEmpty(f)
    PROVE  SourceInv'
<1>1. Decoding(f) /\ HeaderPasses(f) /\ f.payload = <<>> /\ Consume(f, residue) /\ error = "no"
    BY DEF DecodeEmpty, Decoding
<1>2. BufferInv /\ PayloadIsPlain
    BY <1>1 DEF SourceInv
<1>3. available >= FrameLen(f) /\ residue = MaskedFrom(f, Len(f.payload))
    BY <1>1, <1>2, WholeFacts
<1>4. Consume(f, MaskedFrom(f, Len(f.payload)))
    BY <1>1, <1>3
<1> QED
    BY <1>1, <1>2, <1>3, <1>4, ConsumeKeepsSource

\* What decode does to the buffer when it has unmasked a piece.
PieceStep(f, mask) ==
    \/ /\ UnmaskInPlace(f, mask)
       /\ sent' = sent /\ available' = available /\ garbled' = garbled
       /\ \/ error' # "no" /\ payload_processed' = payload_processed
          \/ payload_processed' = PayloadAvailable(f)
    \/ IsComplete(f) /\ Consume(f, Unmasked(f, mask))

\* Either way the buffer is left as the next call needs it.
LEMMA PieceKeepsSource ==
    ASSUME BufferInv, PayloadIsPlain, NEW f \in PeerFrames, Decoding(f), HeaderPasses(f),
           NEW mask \in MaskFrames(f), PieceStep(f, mask)
    PROVE  SourceInv'
<1>1. CASE IsComplete(f) /\ Consume(f, Unmasked(f, mask))
  <2>1. Unmasked(f, mask) = MaskedFrom(f, PayloadAvailable(f))
    BY PieceFacts
  <2>2. Consume(f, MaskedFrom(f, Len(f.payload))) /\ available >= FrameLen(f)
    BY <1>1, <2>1, WholeFacts DEF IsComplete
  <2> QED
    BY <2>2, ConsumeKeepsSource
<1> QED
    BY <1>1, InPlaceKeepsSource DEF PieceStep

\* decode, on as much of a text frame as there is.
LEMMA TextKeepsSource ==
    ASSUME SourceInv, NEW f \in PeerFrames, DecodeText(f)
    PROVE  SourceInv'
<1>1. Decoding(f) /\ HeaderPasses(f) /\ error = "no"
    BY DEF DecodeText, Decoding
<1>2. \E mask \in MaskFrames(f) : PieceStep(f, mask)
    BY DEF DecodeText, PieceStep
<1>3. BufferInv /\ PayloadIsPlain
    BY <1>1 DEF SourceInv
<1> QED
    BY <1>1, <1>2, <1>3, PieceKeepsSource

\* decode, on any other frame.
LEMMA OtherKeepsSource ==
    ASSUME SourceInv, NEW f \in PeerFrames, DecodeOther(f)
    PROVE  SourceInv'
<1>1. Decoding(f) /\ HeaderPasses(f) /\ error = "no"
    BY DEF DecodeOther, Decoding
<1>2. \E mask \in MaskFrames(f) : PieceStep(f, mask)
    BY DEF DecodeOther, PieceStep
<1>3. BufferInv /\ PayloadIsPlain
    BY <1>1 DEF SourceInv
<1> QED
    BY <1>1, <1>2, <1>3, PieceKeepsSource

\* Whatever arrives, in whatever pieces, valid or not.
THEOREM SourceInvariant == Spec => []SourceInv
<1>1. Init => SourceInv
    BY EmptyIsSeq DEF Init, SourceInv, BufferInv, ProcessedIsInBuffer, PayloadIsPlain
<1>2. SourceInv /\ [Next]_vars => SourceInv'
  <2> SUFFICES ASSUME SourceInv, [Next]_vars PROVE SourceInv'
    OBVIOUS
  <2>1. CASE UNCHANGED vars
    BY <2>1 DEF vars, sourceVars, decoderVars, SourceInv, BufferInv, ProcessedIsInBuffer, PayloadIsPlain,
                PayloadAvailable
  <2>2. CASE Read
    BY <2>2, ReadKeepsSource
  <2>3. ASSUME NEW f \in PeerFrames,
               \/ PeerWrite(f)
               \/ DecodeInvalidHeader(f) \/ DecodeEmpty(f) \/ DecodeText(f) \/ DecodeOther(f)
        PROVE  SourceInv'
    BY <2>3, WriteKeepsSource, HeaderKeepsSource, EmptyKeepsSource, TextKeepsSource, OtherKeepsSource
  <2> QED
    BY <2>1, <2>2, <2>3 DEF Next
<1> QED
    BY <1>1, <1>2, PTL DEF Spec

\* Every payload that decode hands out was unmasked once, with the key bytes of
\* its places, for payloads of every length and however they were cut.
THEOREM PayloadIsAlwaysPlain == Spec => []PayloadIsPlain
<1>1. SourceInv => PayloadIsPlain
    BY DEF SourceInv
<1> QED
    BY <1>1, SourceInvariant, PTL

\* The unchecked slice of decode is always in the buffer, in the first frame.
THEOREM ProcessedIsAlwaysInBuffer == Spec => []ProcessedIsInBuffer
<1>1. SourceInv => ProcessedIsInBuffer
    BY DEF SourceInv
<1> QED
    BY <1>1, SourceInvariant, PTL

-----------------------------------------------------------------------------
(* The text between two calls of decode.                                   *)

\* What the validator has seen of an unfinished text message.
Seen ==
    IF payload_processed > 0 THEN TextUpTo(Head(sent), payload_processed)
    ELSE IF fragmented_message_opcode = "Text" THEN text ELSE <<>>

ValidatorInv ==
    /\ payload_processed > 0 => IsText(Head(sent)) /\ ~InvalidHeader(Head(sent))
    /\ IsSeq(text) /\ ~Malformed(Seen) /\ partial_codepoint = Rest(Seen)
    /\ whole => Valid(text)

TextInv ==
    /\ error = "no" => ValidatorInv
    /\ Utf8ErrorIsReal

\* What follows is about peers that put the last byte of a fragmented text into
\* its last frame: decode does not validate at all when a message ends with an
\* empty fragment, which the run codec_empty_end shows.
NoEmptyEnd == \A f \in PeerFrames : f.op = "Continuation" /\ f.fin => f.payload # <<>>

\* The text up to a byte of a frame, and the next piece.
Start(f) == IF f.op = "Text" THEN <<>> ELSE text

\* TextUpTo grows by the pieces of the payload.
LEMMA TextFacts ==
    ASSUME IsSeq(text), NEW f \in PeerFrames, NEW n \in Nat, n <= Len(f.payload)
    PROVE  /\ IsSeq(TextUpTo(f, n)) /\ TextUpTo(f, n) = Join(Start(f), SubSeq(f.payload, 1, n))
           /\ TextUpTo(f, 0) = Start(f)
           /\ \A p \in Nat : p <= n =>
                /\ IsSeq(SubSeq(f.payload, p + 1, n))
                /\ Join(TextUpTo(f, p), SubSeq(f.payload, p + 1, n)) = TextUpTo(f, n)
<1> DEFINE s == f.payload
           b == Start(f)
<1>1. IsSeq(s) /\ Len(s) \in Nat
    BY FrameFacts
<1>2. IsSeq(b)
    BY EmptyIsSeq DEF Start
<1>3. \A m \in Nat : TextUpTo(f, m) = Join(b, SubSeq(s, 1, m))
    BY DEF TextUpTo, Join, Start
<1> HIDE DEF s, b
<1>4. \A m \in Nat : m <= Len(s) => IsSeq(SubSeq(s, 1, m)) /\ Len(SubSeq(s, 1, m)) = m
    BY <1>1, FromFacts
<1>5. IsSeq(Join(b, SubSeq(s, 1, n)))
    BY <1>2, <1>4, JoinFacts DEF s
<1>6. SubSeq(s, 1, 0) = <<>> /\ Join(b, <<>>) = b
    BY <1>1, <1>2, WholePrefix, JoinEmpty
<1>7. ASSUME NEW p \in Nat, p <= n
      PROVE  /\ IsSeq(SubSeq(s, p + 1, n))
             /\ Join(TextUpTo(f, p), SubSeq(s, p + 1, n)) = TextUpTo(f, n)
  <2> DEFINE x == SubSeq(s, 1, p)
             y == SubSeq(s, p + 1, n)
             z == From(s, n)
             xy == SubSeq(s, 1, n)
             yz == From(s, p)
  <2>0. n <= Len(s) /\ p <= Len(s)
    BY <1>1, <1>7 DEF s
  <2>1. IsSeq(y) /\ yz = Join(y, z)
    BY <1>1, <1>7, <2>0, CutFacts
  <2>2. IsSeq(x) /\ IsSeq(xy) /\ IsSeq(z)
    BY <1>1, <1>4, <2>0, FromFacts
  <2>3. Join(x, yz) = s /\ Join(xy, z) = s
    BY <1>1, <2>0, FromFacts
  <2> HIDE DEF x, y, z, xy, yz
  <2>4. Join(Join(x, y), z) = Join(xy, z) /\ IsSeq(Join(x, y))
    BY <2>1, <2>2, <2>3, JoinAssociative, JoinFacts
  <2>5. Join(x, y) = xy
    BY <2>2, <2>4, JoinCancelRight
  <2>6. Join(Join(b, x), y) = Join(b, xy)
    BY <1>2, <2>1, <2>2, <2>5, JoinAssociative
  <2> QED
    BY <1>3, <2>1, <2>6 DEF x, y, xy
<1> QED
    BY <1>3, <1>5, <1>6, <1>7 DEF s, b

\* At a text frame, the validator has seen the message up to the bytes processed.
LEMMA SeenIs ==
    ASSUME BufferInv, ValidatorInv, NEW f \in PeerFrames, Decoding(f), IsText(f), ~InvalidHeader(f)
    PROVE  Seen = TextUpTo(f, payload_processed)
<1>1. f = Head(sent) /\ payload_processed \in Nat
    BY DEF Decoding, BufferInv
<1>2. CASE payload_processed > 0
    BY <1>1, <1>2 DEF Seen
<1>3. CASE ~(payload_processed > 0)
  <2>1. payload_processed = 0
    BY <1>1, <1>3
  <2>2. 0 \in Nat /\ 0 <= Len(f.payload)
    BY FrameFacts
  <2>3. TextUpTo(f, 0) = Start(f)
    BY <2>2, TextFacts DEF ValidatorInv
  <2>4. Seen = IF fragmented_message_opcode = "Text" THEN text ELSE <<>>
    BY <1>3 DEF Seen
  <2>5. Seen = Start(f)
    BY <2>4 DEF IsText, InvalidHeader, Start
  <2> QED
    BY <2>1, <2>3, <2>5
<1> QED
    BY <1>2, <1>3

\* poll_next, and the opcode it leaves to decode: the last fragment ends the
\* message unless it is dropped.
LEMMA Assembled ==
    ASSUME NEW f \in PeerFrames, ~InvalidHeader(f), Assemble(f)
    PROVE  /\ f.op # "Continuation" /\ f.fin => fragmented_message_opcode' = fragmented_message_opcode
           /\ f.op # "Continuation" /\ ~f.fin =>
                f.op \in {"Text", "Binary"} /\ fragmented_message_opcode' = f.op
           /\ f.op = "Continuation" =>
                \/ fragmented_message_opcode' = fragmented_message_opcode
                \/ f.fin /\ fragmented_message_opcode' = "Continuation"
<1>1. f.op \in ControlOps \cup {"Text", "Binary", "Continuation", "Reserved"}
  <2>1. f \in Frames
    BY CodecAssumption
  <2> QED
    BY <2>1 DEF Frames, OpCodes
<1>2. f.op # "Reserved" /\ (f.op \in ControlOps => f.fin)
    BY DEF InvalidHeader
<1> QED
    BY <1>1, <1>2 DEF Assemble

\* The end of a frame of a text: the message goes on, unless this was the last
\* frame and poll_next has taken the message.
LEMMA TextConsumed ==
    ASSUME NEW f \in PeerFrames, IsText(f), ~InvalidHeader(f), NEW plain, Consume(f, plain)
    PROVE  payload_processed' = 0 /\ (Seen' = text' \/ (f.fin /\ Seen' = <<>>))
<1>1. payload_processed' = 0 /\ Assemble(f)
    BY DEF Consume, HandOut
<1>2. \/ f.op = "Text" /\ fragmented_message_opcode = "Continuation"
      \/ f.op = "Continuation" /\ fragmented_message_opcode = "Text"
    BY DEF IsText, InvalidHeader
<1>3. fragmented_message_opcode' = "Text" \/ (f.fin /\ fragmented_message_opcode' = "Continuation")
    BY <1>1, <1>2, Assembled
<1> QED
    BY <1>1, <1>3 DEF Seen

\* The end of any other frame: nothing changes for the text.
LEMMA OtherConsumed ==
    ASSUME NEW f \in PeerFrames, ~IsText(f), ~InvalidHeader(f), NEW plain, Consume(f, plain),
           payload_processed = 0, text' = text
    PROVE  payload_processed' = 0 /\ Seen' = Seen
<1>1. payload_processed' = 0 /\ Assemble(f)
    BY DEF Consume, HandOut
<1>2. f.op # "Text" /\ (f.op = "Continuation" => fragmented_message_opcode # "Text")
    BY DEF IsText
<1>3. f.op = "Binary" => fragmented_message_opcode = "Continuation"
    BY DEF InvalidHeader
<1>4. fragmented_message_opcode' = "Text" <=> fragmented_message_opcode = "Text"
    BY <1>1, <1>2, <1>3, Assembled
<1> QED
    BY <1>1, <1>4 DEF Seen

\* What decode gives to the validator is a piece of the payload.
LEMMA FedIsPlain ==
    ASSUME NEW f \in PeerFrames, NEW n \in Nat, n <= Len(f.payload), NEW p \in Nat, p <= n,
           NEW payload,
           payload = [i \in 1..Len(f.payload) |->
                        IF MaskedFrom(f, n)[i] = {} THEN f.payload[i] ELSE "X"]
    PROVE  SubSeq(payload, p + 1, n) = SubSeq(f.payload, p + 1, n)
<1> DEFINE s == f.payload
           L == Len(s)
           k == p + 1
           x == SubSeq(payload, k, n)
           y == SubSeq(s, k, n)
<1>1. IsSeq(s) /\ L \in Nat
    BY FrameFacts
<1>2. \A i \in 1..L : i <= n => payload[i] = s[i]
  <2> SUFFICES ASSUME NEW i \in 1..L, i <= n PROVE payload[i] = s[i]
    OBVIOUS
  <2>1. ~(i > n)
    BY <1>1
  <2>2. MaskedFrom(f, n)[i] = {}
    BY <2>1 DEF MaskedFrom
  <2> QED
    BY <2>2
<1>3. payload = [i \in 1..L |-> payload[i]]
    OBVIOUS
<1>4. IsSeq(payload) /\ Len(payload) = L
    BY <1>1, <1>3, MapIsSeq
<1>5. k \in Nat /\ k >= 1 /\ n <= L
    OBVIOUS
<1> HIDE DEF s, L, k
<1>6. n <= Len(payload) /\ n <= Len(s)
    BY <1>4, <1>5 DEF L
<1>7. /\ IsSeq(x) /\ Len(x) = (IF k <= n THEN n - k + 1 ELSE 0)
      /\ \A m \in 1..Len(x) : x[m] = payload[m + k - 1]
    BY <1>4, <1>5, <1>6, SubSeqFacts
<1>8. /\ IsSeq(y) /\ Len(y) = (IF k <= n THEN n - k + 1 ELSE 0)
      /\ \A m \in 1..Len(y) : y[m] = s[m + k - 1]
    BY <1>1, <1>5, <1>6, SubSeqFacts
<1> HIDE DEF x, y
<1>9. ASSUME NEW m \in 1..Len(x) PROVE x[m] = y[m]
  <2>1. m + k - 1 \in 1..L /\ m + k - 1 <= n
    BY <1>1, <1>5, <1>7
  <2> QED
    BY <1>2, <1>7, <1>8, <2>1
<1>10. x = y
    BY <1>7, <1>8, <1>9, SameSeq
<1> QED
    BY <1>10 DEF x, y, k, s

\* A call of feed in decode: it is asked about the message up to the bytes that
\* are in the buffer.
LEMMA FeedSays ==
    ASSUME BufferInv, ValidatorInv, NEW f \in PeerFrames, Decoding(f), HeaderPasses(f), IsText(f),
           NEW mask \in MaskFrames(f), NEW payload,
           payload = [i \in 1..Len(f.payload) |->
                        IF Unmasked(f, mask)[i] = {} THEN f.payload[i] ELSE "X"]
    PROVE  /\ Says(feed(partial_codepoint, SubSeq(payload, payload_processed + 1, PayloadAvailable(f)),
                        EndsText(f)),
                   TextUpTo(f, PayloadAvailable(f)), EndsText(f))
           /\ IsSeq(TextUpTo(f, PayloadAvailable(f)))
<1> DEFINE n == PayloadAvailable(f)
           p == payload_processed
           x == SubSeq(f.payload, p + 1, n)
<1>1. /\ n \in Nat /\ p <= n /\ n <= Len(f.payload) /\ Unmasked(f, mask) = MaskedFrom(f, n)
    BY PieceFacts
<1>2. p \in Nat
    BY DEF BufferInv
<1>3. payload = [i \in 1..Len(f.payload) |->
                        IF MaskedFrom(f, n)[i] = {} THEN f.payload[i] ELSE "X"]
    BY <1>1
<1> HIDE DEF n, p
<1>4. SubSeq(payload, p + 1, n) = x
    BY <1>1, <1>2, <1>3, FedIsPlain
<1>5. /\ IsSeq(TextUpTo(f, n)) /\ IsSeq(x) /\ Join(TextUpTo(f, p), x) = TextUpTo(f, n)
    BY <1>1, <1>2, TextFacts DEF ValidatorInv
<1>6. Seen = TextUpTo(f, p)
    BY SeenIs DEF p, HeaderPasses
<1>7. p <= Len(f.payload)
  <2>1. Len(f.payload) \in Nat
    BY FrameFacts
  <2> QED
    BY <1>1, <1>2, <2>1
<1>8. IsSeq(TextUpTo(f, p))
    BY <1>2, <1>7, TextFacts DEF ValidatorInv
<1>9. ~Malformed(TextUpTo(f, p)) /\ partial_codepoint = Rest(TextUpTo(f, p))
    BY <1>6 DEF ValidatorInv
<1>10. EndsText(f) \in BOOLEAN
    BY DEF EndsText, IsComplete
<1> HIDE DEF x
<1>11. Says(feed(Rest(TextUpTo(f, p)), x, EndsText(f)), Join(TextUpTo(f, p), x), EndsText(f))
    BY <1>5, <1>8, <1>9, <1>10, FeedFacts
<1> QED
    BY <1>4, <1>5, <1>9, <1>11 DEF n, p

\* The peer sends a frame, more bytes arrive, or nothing happens.
LEMMA QuietKeepsText ==
    ASSUME SourceInv, TextInv, error' = error, sent # <<>> => sent' # <<>> /\ Head(sent') = Head(sent),
           UNCHANGED <<decoderVars, text, whole>>
    PROVE  TextInv'
<1>1. /\ fragmented_message_opcode' = fragmented_message_opcode
      /\ payload_processed' = payload_processed /\ partial_codepoint' = partial_codepoint
      /\ text' = text /\ whole' = whole
    BY DEF decoderVars
<1>2. Utf8ErrorIsReal'
    BY <1>1 DEF TextInv, Utf8ErrorIsReal
<1>3. ASSUME error = "no" PROVE ValidatorInv'
  <2>1. BufferInv /\ ValidatorInv
    BY <1>3 DEF SourceInv, TextInv
  <2>2. payload_processed > 0 => Head(sent') = Head(sent)
    BY <2>1 DEF BufferInv
  <2>3. Seen' = Seen
    BY <1>1, <2>2 DEF Seen, TextUpTo
  <2>4. payload_processed > 0 => IsText(Head(sent)) /\ ~InvalidHeader(Head(sent))
    BY <2>1 DEF ValidatorInv
  <2>5. payload_processed' > 0 => IsText(Head(sent))' /\ ~InvalidHeader(Head(sent))'
    <3> SUFFICES ASSUME payload_processed' > 0
               PROVE  IsText(Head(sent))' /\ ~InvalidHeader(Head(sent))'
    OBVIOUS
    <3>1. Head(sent') = Head(sent) /\ IsText(Head(sent)) /\ ~InvalidHeader(Head(sent))
      BY <1>1, <2>2, <2>4
    <3>2. IsText(Head(sent))'
      BY <1>1, <3>1 DEF IsText
    <3>3. ~InvalidHeader(Head(sent))'
      BY <1>1, <3>1 DEF InvalidHeader
    <3> QED
      BY <3>2, <3>3
  <2> QED
    BY <1>1, <2>1, <2>3, <2>5 DEF ValidatorInv
<1> QED
    BY <1>2, <1>3 DEF TextInv

\* The peer sends a frame.
LEMMA WriteKeepsText ==
    ASSUME SourceInv, TextInv, NEW f \in PeerFrames, PeerWrite(f)
    PROVE  TextInv'
<1>1. /\ error = "no" /\ error' = error /\ sent' = Append(sent, f)
      /\ UNCHANGED <<decoderVars, text, whole>>
    BY DEF PeerWrite
<1>2. IsSeq(sent)
    BY <1>1 DEF SourceInv, BufferInv
<1>3. sent # <<>> => sent' # <<>> /\ Head(sent') = Head(sent)
  <2> SUFFICES ASSUME sent # <<>> PROVE sent' # <<>> /\ Head(sent') = Head(sent)
    OBVIOUS
  <2> DEFINE q == Append(sent, f)
  <2>1. IsSeq(q) /\ q # <<>> /\ \A i \in 1..Len(sent) : q[i] = sent[i]
    BY <1>2, AppendElements
  <2> HIDE DEF q
  <2>2. 1 \in 1..Len(sent)
    BY <1>2, LengthFacts
  <2>3. Head(sent) = sent[1] /\ Head(q) = q[1]
    BY <1>2, <2>1, HeadTail
  <2> QED
    BY <1>1, <2>1, <2>2, <2>3 DEF q
<1> QED
    BY <1>1, <1>3, QuietKeepsText

\* More bytes arrive.
LEMMA ReadKeepsText ==
    ASSUME SourceInv, TextInv, Read
    PROVE  TextInv'
<1>1. error' = error /\ sent' = sent /\ UNCHANGED <<decoderVars, text, whole>>
    BY DEF Read
<1> QED
    BY <1>1, QuietKeepsText

\* An invalid header is no UTF-8 error.
LEMMA HeaderKeepsText ==
    ASSUME SourceInv, TextInv, NEW f \in PeerFrames, DecodeInvalidHeader(f)
    PROVE  TextInv'
<1>1. error' # "no" /\ error' # "utf8"
    BY DEF DecodeInvalidHeader
<1> QED
    BY <1>1 DEF TextInv, Utf8ErrorIsReal

\* The last frame of a message or not, a text frame is handed out.
LEMMA CollectKeepsText ==
    ASSUME NEW f \in PeerFrames, Decoding(f), IsText(f), ~InvalidHeader(f), NEW plain,
           Consume(f, plain), NEW t, IsSeq(t), text' = t, whole' = f.fin, error' = error,
           IF f.fin THEN Valid(t) /\ partial_codepoint' = <<>>
                    ELSE ~Malformed(t) /\ partial_codepoint' = Rest(t)
    PROVE  TextInv'
<1>1. payload_processed' = 0 /\ (Seen' = text' \/ (f.fin /\ Seen' = <<>>))
    BY TextConsumed
<1>2. error' = "no"
    BY DEF Decoding
<1>3. ~(payload_processed' > 0)
    BY <1>1
<1>4. CASE f.fin
  <2>1. Seen' \in {<<>>, t} /\ Valid(t) /\ partial_codepoint' = <<>>
    BY <1>1, <1>4
  <2>2. ~Malformed(<<>>) /\ Rest(<<>>) = <<>>
    BY EmptyText
  <2>3. ~Malformed(t) /\ Rest(t) = <<>>
    BY <2>1 DEF Valid, Malformed
  <2>4. ~Malformed(Seen') /\ Rest(Seen') = <<>>
    BY <2>1, <2>2, <2>3
  <2> QED
    BY <1>2, <1>3, <2>1, <2>4 DEF TextInv, ValidatorInv, Utf8ErrorIsReal
<1>5. CASE ~f.fin
  <2>1. Seen' = t /\ ~Malformed(t) /\ partial_codepoint' = Rest(t) /\ ~whole'
    BY <1>1, <1>5
  <2> QED
    BY <1>2, <1>3, <2>1 DEF TextInv, ValidatorInv, Utf8ErrorIsReal
<1> QED
    BY <1>4, <1>5

\* A frame that does not belong to the text is handed out.
LEMMA OtherKeepsSeen ==
    ASSUME BufferInv, ValidatorInv, NEW f \in PeerFrames, Decoding(f), ~IsText(f), ~InvalidHeader(f),
           NEW plain, Consume(f, plain), UNCHANGED <<text, whole, partial_codepoint, error>>
    PROVE  TextInv'
<1>1. payload_processed \in Nat /\ f = Head(sent) /\ error = "no"
    BY DEF BufferInv, Decoding
<1>2. payload_processed = 0
    BY <1>1 DEF ValidatorInv
<1>3. payload_processed' = 0 /\ Seen' = Seen
    BY <1>2, OtherConsumed
<1>4. ~(payload_processed' > 0)
    BY <1>3
<1> QED
    BY <1>1, <1>3, <1>4 DEF TextInv, ValidatorInv, Utf8ErrorIsReal

\* A frame without a payload, which the validator is not told of.
LEMMA EmptyKeepsText ==
    ASSUME NoEmptyEnd, SourceInv, TextInv, NEW f \in PeerFrames, DecodeEmpty(f)
    PROVE  TextInv'
<1>1. /\ Decoding(f) /\ ~InvalidHeader(f) /\ f.payload = <<>> /\ Consume(f, residue) /\ Collect(f)
      /\ partial_codepoint' = partial_codepoint /\ error' = error /\ error = "no"
    BY DEF DecodeEmpty, HeaderPasses, Decoding
<1>2. BufferInv /\ ValidatorInv
    BY <1>1 DEF SourceInv, TextInv
<1>3. CASE ~IsText(f)
  <2>1. UNCHANGED <<text, whole, partial_codepoint, error>>
    BY <1>1, <1>3 DEF Collect
  <2> QED
    BY <1>1, <1>2, <1>3, <2>1, OtherKeepsSeen
<1>4. CASE IsText(f)
  <2> DEFINE L == Len(f.payload)
             t == TextUpTo(f, L)
  <2>1. text' = t /\ whole' = f.fin
    BY <1>1, <1>4 DEF Collect
  <2>2. L \in Nat /\ L = 0
    BY <1>1, FrameFacts, LengthFacts
  <2>3. payload_processed = L
    <3>1. payload_processed \in Nat /\ payload_processed <= L
      BY <1>1, <1>2 DEF BufferInv, Decoding
    <3> HIDE DEF L
    <3> QED
      BY <2>2, <3>1
  <2>4. Seen = t
    BY <1>1, <1>2, <1>4, <2>3, SeenIs
  <2>5. IsSeq(t) /\ t = Start(f)
    <3> HIDE DEF L
    <3>1. L <= Len(f.payload)
      BY <2>2 DEF L
    <3>2. IsSeq(t) /\ TextUpTo(f, 0) = Start(f)
      BY <1>2, <2>2, <3>1, TextFacts DEF ValidatorInv
    <3> QED
      BY <2>2, <3>2
  <2>6. f.fin => t = <<>>
    <3>1. f.fin => f.op # "Continuation"
      BY <1>1 DEF NoEmptyEnd
    <3>2. f.fin => f.op = "Text"
      BY <1>4, <3>1 DEF IsText
    <3> QED
      BY <2>5, <3>2 DEF Start
  <2> HIDE DEF t
  <2>7. ~Malformed(t) /\ partial_codepoint' = Rest(t)
    BY <1>1, <1>2, <2>4 DEF ValidatorInv
  <2>8. f.fin => Valid(t) /\ partial_codepoint' = <<>>
    BY <2>6, <2>7, EmptyText DEF Valid
  <2> QED
    BY <1>1, <1>4, <2>1, <2>5, <2>7, <2>8, CollectKeepsText
<1> QED
    BY <1>3, <1>4

\* A text frame: its message is given up, goes on, or is handed out.
LEMMA TextKeepsText ==
    ASSUME SourceInv, TextInv, NEW f \in PeerFrames, DecodeText(f)
    PROVE  TextInv'
<1> DEFINE n == PayloadAvailable(f)
           t == TextUpTo(f, n)
           payload(mask) == [i \in 1..Len(f.payload) |->
                                IF Unmasked(f, mask)[i] = {} THEN f.payload[i] ELSE "X"]
           verdict(mask) ==
               feed(partial_codepoint, SubSeq(payload(mask), payload_processed + 1, n), EndsText(f))
<1>1. /\ Decoding(f) /\ HeaderPasses(f) /\ ~InvalidHeader(f) /\ IsText(f) /\ error = "no"
      /\ f.payload # <<>>
    BY DEF DecodeText, HeaderPasses, Decoding
<1>2. PICK mask \in MaskFrames(f) :
        /\ partial_codepoint' = verdict(mask).partial
        /\ \/ /\ ~verdict(mask).ok
              /\ error' = "utf8"
              /\ text' = t /\ whole' = (n = Len(f.payload) /\ f.fin)
           \/ /\ verdict(mask).ok /\ ~IsComplete(f)
              /\ payload_processed' = n
              /\ UNCHANGED <<sent, available, fragmented_message_opcode, error, text, whole>>
           \/ /\ verdict(mask).ok /\ IsComplete(f)
              /\ Consume(f, Unmasked(f, mask))
              /\ Collect(f)
              /\ UNCHANGED error
    BY DEF DecodeText
<1>3. BufferInv /\ ValidatorInv
    BY <1>1 DEF SourceInv, TextInv
<1> DEFINE v == verdict(mask)
           complete == EndsText(f)
<1>4. Says(v, t, complete) /\ IsSeq(t)
    BY <1>1, <1>3, FeedSays
<1>5. complete <=> n = Len(f.payload) /\ f.fin
    BY DEF EndsText, IsComplete
<1>6. /\ n \in Nat /\ n <= Len(f.payload) /\ payload_processed \in Nat /\ f = Head(sent)
      /\ payload_processed <= n
    BY <1>1, <1>3, PieceFacts DEF BufferInv, Decoding
<1>0. t = TextUpTo(f, n)
    OBVIOUS
<1>00. Seen = TextUpTo(f, payload_processed)
    BY <1>1, <1>3, SeenIs
<1> HIDE DEF v, t, complete
<1>7. CASE ~v.ok /\ error' = "utf8" /\ text' = t /\ whole' = (n = Len(f.payload) /\ f.fin)
  <2>1. IF complete THEN ~Valid(t) ELSE Malformed(t)
    BY <1>4, <1>7 DEF Says
  <2>2. whole' <=> complete
    BY <1>5, <1>7
  <2> QED
    BY <1>7, <2>1, <2>2 DEF TextInv, Utf8ErrorIsReal
<1>8. CASE /\ v.ok /\ ~IsComplete(f)
           /\ payload_processed' = n
           /\ UNCHANGED <<sent, available, fragmented_message_opcode, error, text, whole>>
  <2>1. ~complete
    BY <1>5, <1>8 DEF IsComplete
  <2>2. ~Malformed(t) /\ partial_codepoint' = Rest(t)
    BY <1>2, <1>4, <1>8, <2>1 DEF Says, v
  <2>3. Seen' = t
    <3>1. CASE n > 0
      BY <1>0, <1>6, <1>8, <3>1 DEF Seen, TextUpTo
    <3>2. CASE ~(n > 0)
      <4> HIDE DEF n
      <4>1. payload_processed = n /\ ~(payload_processed > 0)
        BY <1>6, <3>2
      <4>2. Seen' = Seen
        BY <1>8, <3>2, <4>1 DEF Seen
      <4> QED
        BY <1>0, <1>00, <4>1, <4>2
    <3> QED
      BY <3>1, <3>2
  <2>4. Head(sent') = f /\ IsText(f) /\ ~InvalidHeader(f)
    BY <1>1, <1>6, <1>8
  <2>5. IsText(Head(sent))'
    BY <1>8, <2>4 DEF IsText
  <2>6. ~InvalidHeader(Head(sent))'
    BY <1>8, <2>4 DEF InvalidHeader
  <2>7. ValidatorInv'
    BY <1>3, <1>8, <2>2, <2>3, <2>5, <2>6 DEF ValidatorInv
  <2> QED
    BY <1>1, <1>8, <2>7 DEF TextInv, Utf8ErrorIsReal
<1>9. CASE v.ok /\ IsComplete(f) /\ Consume(f, Unmasked(f, mask)) /\ Collect(f) /\ UNCHANGED error
  <2>1. complete <=> f.fin
    BY <1>5, <1>9 DEF IsComplete
  <2>2. text' = t /\ whole' = f.fin
    BY <1>0, <1>1, <1>9 DEF Collect, IsComplete
  <2>3. f.fin => Valid(t) /\ partial_codepoint' = <<>>
    BY <1>2, <1>4, <1>9, <2>1 DEF Says, v
  <2>4. ~f.fin => ~Malformed(t) /\ partial_codepoint' = Rest(t)
    BY <1>2, <1>4, <1>9, <2>1 DEF Says, v
  <2> QED
    BY <1>1, <1>4, <1>9, <2>2, <2>3, <2>4, CollectKeepsText
<1> QED
    BY <1>2, <1>7, <1>8, <1>9 DEF v

\* A frame that is no text, between the frames of one.
LEMMA OtherKeepsText ==
    ASSUME SourceInv, TextInv, NEW f \in PeerFrames, DecodeOther(f)
    PROVE  TextInv'
<1>1. /\ Decoding(f) /\ ~InvalidHeader(f) /\ ~IsText(f) /\ error = "no"
      /\ UNCHANGED <<partial_codepoint, text, whole>>
    BY DEF DecodeOther, HeaderPasses, Decoding
<1>2. \/ error' = "close"
      \/ error' = error /\ \E mask \in MaskFrames(f) : Consume(f, Unmasked(f, mask))
    BY DEF DecodeOther
<1>3. BufferInv /\ ValidatorInv
    BY <1>1 DEF SourceInv, TextInv
<1>4. CASE error' = "close"
    BY <1>4 DEF TextInv, Utf8ErrorIsReal
<1>5. ASSUME error' = error, NEW mask \in MaskFrames(f), Consume(f, Unmasked(f, mask))
      PROVE  TextInv'
  <2>1. UNCHANGED <<text, whole, partial_codepoint, error>>
    BY <1>1, <1>5
  <2> QED
    BY <1>1, <1>3, <1>5, <2>1, OtherKeepsSeen
<1> QED
    BY <1>2, <1>4, <1>5

\* The text a decoder has passed on, and what its validator remembers of it.
THEOREM TextInvariant ==
    ASSUME NoEmptyEnd
    PROVE  Spec => []TextInv
<1>1. Init => TextInv
    BY EmptyText DEF Init, TextInv, ValidatorInv, Utf8ErrorIsReal, Seen
<1>2. SourceInv /\ TextInv /\ [Next]_vars => TextInv'
  <2> SUFFICES ASSUME SourceInv, TextInv, [Next]_vars PROVE TextInv'
    OBVIOUS
  <2>1. CASE UNCHANGED vars
    <3>1. error' = error /\ sent' = sent /\ UNCHANGED <<decoderVars, text, whole>>
      BY <2>1 DEF vars, sourceVars
    <3> QED
      BY <3>1, QuietKeepsText
  <2>2. CASE Read
    BY <2>2, ReadKeepsText
  <2>3. ASSUME NEW f \in PeerFrames,
               \/ PeerWrite(f)
               \/ DecodeInvalidHeader(f) \/ DecodeEmpty(f) \/ DecodeText(f) \/ DecodeOther(f)
        PROVE  TextInv'
    BY <2>3, WriteKeepsText, HeaderKeepsText, EmptyKeepsText, TextKeepsText, OtherKeepsText
  <2> QED
    BY <2>1, <2>2, <2>3 DEF Next
<1> QED
    BY <1>1, <1>2, SourceInvariant, PTL DEF Spec

\* A text whose frames all passed decode is valid UTF-8, for texts of every
\* length, fragmented, masked and cut in transit in every way.  The Message that
\* poll_next makes is this text unless it has dropped a fragment.
THEOREM TextIsAlwaysValid ==
    ASSUME NoEmptyEnd
    PROVE  Spec => []TextIsValid
<1>1. TextInv => TextIsValid
    BY DEF TextInv, ValidatorInv, TextIsValid
<1> QED
    BY <1>1, TextInvariant, PTL

\* decode rejects no valid text.
THEOREM Utf8ErrorIsAlwaysReal ==
    ASSUME NoEmptyEnd
    PROVE  Spec => []Utf8ErrorIsReal
<1>1. TextInv => Utf8ErrorIsReal
    BY DEF TextInv
<1> QED
    BY <1>1, TextInvariant, PTL
=============================================================================
