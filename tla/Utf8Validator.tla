--------------------------- MODULE Utf8Validator ---------------------------
(***************************************************************************)
(* The Validator of src/utf8.rs, fed a text message in pieces.  `fed' is   *)
(* the message so far; an error ends the connection.                       *)
(***************************************************************************)
EXTENDS Utf8

CONSTANTS
    Bytes,     \* byte classes that occur
    MaxPiece,  \* longest piece
    MaxText    \* longest message

ASSUME Utf8Assumption ==
    Bytes \subseteq ByteClasses /\ MaxPiece \in Nat /\ MaxText \in Nat

VARIABLES partial_codepoint, fed, result
vars == <<partial_codepoint, fed, result>>

Pieces == UNION {[1..n -> Bytes] : n \in 0..MaxPiece}

Init == partial_codepoint = <<>> /\ fed = <<>> /\ result = "partial"

\* feed(input, is_complete); after a whole message the next one starts.
Feed(input, is_complete) ==
    LET text == IF result = "partial" THEN fed ELSE <<>>
        verdict == feed(partial_codepoint, input, is_complete)
    IN  /\ result \in {"partial", "whole"} /\ Len(text) + Len(input) <= MaxText
        /\ fed' = text \o input
        /\ partial_codepoint' = verdict.partial
        /\ result' = CASE verdict.ok /\ is_complete -> "whole"
                       [] verdict.ok /\ ~is_complete -> "partial"
                       [] ~verdict.ok /\ is_complete -> "rejected"
                       [] ~verdict.ok /\ ~is_complete -> "rejected early"

Next == \E input \in Pieces, is_complete \in BOOLEAN : Feed(input, is_complete)

Spec == Init /\ [][Next]_vars

-----------------------------------------------------------------------------
\* However a message is cut, feed says of its pieces what from_utf8 says of the
\* whole: it accepts a finished message exactly if it is valid UTF-8, and gives
\* up early only on a text that nothing can make valid.  A finished message that
\* ends inside a codepoint is rejected, as decode needs it; the doc comment of
\* feed (utf8.rs:62) says that it is Ok "if `is_complete` is true, even if the
\* input has incomplete codepoints", which is so if it is false.
SameAsWhole ==
    /\ result = "whole" => Valid(fed)
    /\ result = "partial" => ~Malformed(fed)
    /\ result = "rejected" => ~Valid(fed)
    /\ result = "rejected early" => Malformed(fed)

\* Between two pieces the stored bytes are exactly the unfinished codepoint at
\* the end of the text, and after a message nothing is stored, so that a
\* message never depends on the one before.
PartialIsTheTail ==
    /\ result = "partial" => partial_codepoint = Rest(fed)
    /\ result = "whole" => partial_codepoint = <<>>

\* complete_codepoint_len never meets unreachable_unchecked, and at least one
\* byte of the stored codepoint is missing.
FirstByteIsALead ==
    result \in {"partial", "whole"} /\ partial_codepoint # <<>> =>
        complete_codepoint_len(partial_codepoint[1]) > Len(partial_codepoint)
=============================================================================
