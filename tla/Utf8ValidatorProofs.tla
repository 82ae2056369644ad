------------------------ MODULE Utf8ValidatorProofs ------------------------
(***************************************************************************)
(* Proofs about Utf8Validator: texts and pieces of every length.           *)
(***************************************************************************)
EXTENDS Utf8Validator, DecodingFacts

\* The inductive invariant: what a run checks, of a text of any bytes.
ValidatorInv ==
    /\ IsSeq(fed) /\ result \in {"partial", "whole", "rejected", "rejected early"}
    /\ SameAsWhole /\ PartialIsTheTail

\* A call of feed.
LEMMA FeedKeeps ==
    ASSUME ValidatorInv, NEW input, IsSeq(input), NEW is_complete \in BOOLEAN,
           Feed(input, is_complete)
    PROVE  ValidatorInv'
<1> DEFINE text == IF result = "partial" THEN fed ELSE <<>>
           v == feed(partial_codepoint, input, is_complete)
           whole == Join(text, input)
<1>1. result \in {"partial", "whole"} /\ fed' = whole /\ partial_codepoint' = v.partial
    BY DEF Feed, Join
<1>2. result' = CASE v.ok /\ is_complete -> "whole"
                  [] v.ok /\ ~is_complete -> "partial"
                  [] ~v.ok /\ is_complete -> "rejected"
                  [] ~v.ok /\ ~is_complete -> "rejected early"
    BY DEF Feed
<1>3. IsSeq(text) /\ ~Malformed(text) /\ partial_codepoint = Rest(text)
    BY <1>1, EmptyText DEF ValidatorInv, SameAsWhole, PartialIsTheTail
<1> HIDE DEF text
<1>4. Says(v, whole, is_complete)
    BY <1>3, FeedFacts
<1>5. IsSeq(whole)
    BY <1>3, JoinFacts
<1> HIDE DEF v, whole
<1>6. CASE v.ok /\ is_complete
  <2>1. Valid(whole) /\ v.partial = <<>> /\ result' = "whole"
    BY <1>2, <1>4, <1>6 DEF Says
  <2> QED
    BY <1>1, <1>5, <2>1 DEF ValidatorInv, SameAsWhole, PartialIsTheTail
<1>7. CASE v.ok /\ ~is_complete
  <2>1. ~Malformed(whole) /\ v.partial = Rest(whole) /\ result' = "partial"
    BY <1>2, <1>4, <1>7 DEF Says
  <2> QED
    BY <1>1, <1>5, <2>1 DEF ValidatorInv, SameAsWhole, PartialIsTheTail
<1>8. CASE ~v.ok /\ is_complete
  <2>1. ~Valid(whole) /\ result' = "rejected"
    BY <1>2, <1>4, <1>8 DEF Says
  <2> QED
    BY <1>1, <1>5, <2>1 DEF ValidatorInv, SameAsWhole, PartialIsTheTail
<1>9. CASE ~v.ok /\ ~is_complete
  <2>1. Malformed(whole) /\ result' = "rejected early"
    BY <1>2, <1>4, <1>9 DEF Says
  <2> QED
    BY <1>1, <1>5, <2>1 DEF ValidatorInv, SameAsWhole, PartialIsTheTail
<1> QED
    BY <1>6, <1>7, <1>8, <1>9

\* However a text is cut into pieces, and whatever texts came before.
THEOREM ValidatorInvariant == Spec => []ValidatorInv
<1>1. Init => ValidatorInv
    BY EmptyText DEF Init, ValidatorInv, SameAsWhole, PartialIsTheTail
<1>2. ValidatorInv /\ [Next]_vars => ValidatorInv'
  <2> SUFFICES ASSUME ValidatorInv, [Next]_vars PROVE ValidatorInv'
    OBVIOUS
  <2>1. CASE UNCHANGED vars
    BY <2>1 DEF vars, ValidatorInv, SameAsWhole, PartialIsTheTail
  <2>2. ASSUME NEW input \in Pieces, NEW is_complete \in BOOLEAN, Feed(input, is_complete)
        PROVE  ValidatorInv'
    <3>1. PICK n \in 0..MaxPiece : input \in [1..n -> Bytes]
      BY DEF Pieces
    <3>2. n \in Nat /\ input = [i \in 1..n |-> input[i]]
      BY <3>1
    <3>3. IsSeq(input)
      BY <3>2, MapIsSeq
    <3> QED
      BY <2>2, <3>3, FeedKeeps
  <2> QED
    BY <2>1, <2>2 DEF Next
<1> QED
    BY <1>1, <1>2, PTL DEF Spec

\* feed says of the pieces of a text what from_utf8 says of the whole, for texts
\* and pieces of every length: a whole text that ends inside a codepoint is
\* rejected, where the doc comment of feed says Ok.
THEOREM AlwaysSameAsWhole == Spec => []SameAsWhole
<1>1. ValidatorInv => SameAsWhole
    BY DEF ValidatorInv
<1> QED
    BY <1>1, ValidatorInvariant, PTL

\* partial_codepoint is exactly the unfinished codepoint at the end of the text,
\* and empty after a message.
THEOREM PartialIsAlwaysTheTail == Spec => []PartialIsTheTail
<1>1. ValidatorInv => PartialIsTheTail
    BY DEF ValidatorInv
<1> QED
    BY <1>1, ValidatorInvariant, PTL

\* complete_codepoint_len is only called with the first byte of a codepoint that
\* is longer than what is stored: unreachable_unchecked is not reached, and the
\* number of missing bytes does not underflow.
THEOREM FirstByteIsAlwaysALead == Spec => []FirstByteIsALead
<1>1. ValidatorInv => FirstByteIsALead
  <2> SUFFICES ASSUME ValidatorInv, result \in {"partial", "whole"}, partial_codepoint # <<>>
               PROVE  complete_codepoint_len(partial_codepoint[1]) > Len(partial_codepoint)
    BY DEF FirstByteIsALead
  <2> DEFINE p == Rest(fed)
  <2>1. partial_codepoint = p /\ ~Malformed(fed) /\ IsSeq(fed)
    BY DEF ValidatorInv, SameAsWhole, PartialIsTheTail
  <2>2. StartsCodepoint(p)
    BY <2>1 DEF Malformed, Valid, Unfinished
  <2>3. IsSeq(p) /\ ~Steps(p, 0)
    BY <2>1, RestFacts
  <2> HIDE DEF p
  <2>4. /\ complete_codepoint_len(p[1]) = SequenceLen(p[1]) /\ SequenceLen(p[1]) \in 1..4
        /\ Len(p) \in 1..4 /\ Len(p) < SequenceLen(p[1])
    BY <2>2, <2>3, PartialFacts
  <2>5. complete_codepoint_len(p[1]) > Len(p)
    BY <2>4
  <2> QED
    BY <2>1, <2>5
<1> QED
    BY <1>1, ValidatorInvariant, PTL
=============================================================================
