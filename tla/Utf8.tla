-------------------------------- MODULE Utf8 --------------------------------
(***************************************************************************)
(* src/utf8.rs and the UTF-8 validation of simdutf8 that it rests on.  A   *)
(* byte is represented by its class:                                       *)
(*   A   00-7F    C1  80-8F    C2  90-9F    C3  A0-BF   continuations      *)
(*   L2  C2-DF    E0  E1 (E1-EC, EE-EF)  ED    F0  F1 (F1-F3)  F4   leads  *)
(*   X2  C0-C1    X4  F5-F7    X   F8-FF     bytes that never occur        *)
(***************************************************************************)
EXTENDS Integers, Sequences

Continuations == {"C1", "C2", "C3"}
ByteClasses ==
    {"A", "L2", "E0", "E1", "ED", "F0", "F1", "F4", "X2", "X4", "X"} \cup Continuations

-----------------------------------------------------------------------------
(* The Unicode standard's table of well-formed byte sequences.             *)

SequenceLen(b) ==
    CASE b = "A" -> 1
      [] b = "L2" -> 2
      [] b \in {"E0", "E1", "ED"} -> 3
      [] b \in {"F0", "F1", "F4"} -> 4
      [] OTHER -> 0

SecondBytes(lead) ==
    CASE lead = "E0" -> {"C3"}
      [] lead = "ED" -> {"C1", "C2"}
      [] lead = "F0" -> {"C2", "C3"}
      [] lead = "F4" -> {"C1"}
      [] OTHER -> Continuations

\* s is the whole or a part from the start of one well-formed codepoint.
StartsCodepoint(s) ==
    /\ s # <<>> /\ Len(s) <= SequenceLen(s[1])
    /\ \A i \in 2..Len(s) : s[i] \in IF i = 2 THEN SecondBytes(s[1]) ELSE Continuations

WholeCodepoint(s) == StartsCodepoint(s) /\ Len(s) = SequenceLen(s[1])

\* Utf8Error::valid_up_to: how many bytes of s form whole codepoints.
ValidUpTo(s) ==
    LET scan[i \in 0..Len(s)] ==
            IF \E n \in 1..4 : i + n <= Len(s) /\ WholeCodepoint(SubSeq(s, i + 1, i + n))
            THEN scan[i + SequenceLen(s[i + 1])]
            ELSE i
    IN  scan[0]

Rest(s) == SubSeq(s, ValidUpTo(s) + 1, Len(s))

\* from_utf8 is Ok; or an error with error_len() = None, an unfinished codepoint
\* at the end; or an error with error_len() = Some(_).
Valid(s) == Rest(s) = <<>>
Unfinished(s) == StartsCodepoint(Rest(s))
Malformed(s) == ~Valid(s) /\ ~Unfinished(s)

-----------------------------------------------------------------------------
(* Validator.  Its state is the partial codepoint; feed returns a verdict  *)
(* and the state it leaves.                                                *)

complete_codepoint_len(b) ==
    CASE b = "A" -> 1
      [] b \in {"L2", "X2"} -> 2
      [] b \in {"E0", "E1", "ED"} -> 3
      [] b \in {"F0", "F1", "F4", "X4"} -> 4
      [] OTHER -> 0                            \* unreachable_unchecked

Verdict(ok, partial) == [ok |-> ok, partial |-> partial]

\* Mutant: a codepoint that is unfinished at the end of the text is accepted.
FeedRest_AcceptsUnfinished(rest, is_complete) ==
    Verdict(~Malformed(rest), IF is_complete THEN <<>> ELSE Rest(rest))

\* Mutant: error_len() is not looked at, invalid bytes are stored.
FeedRest_NoErrorLen(rest, is_complete) ==
    IF is_complete THEN Verdict(Valid(rest), <<>>) ELSE Verdict(TRUE, Rest(rest))

\* The end of feed: `rest' follows a whole codepoint.
FeedRest(rest, is_complete) ==
    IF is_complete
    THEN Verdict(Valid(rest), <<>>)
    ELSE Verdict(~Malformed(rest), IF Unfinished(rest) THEN Rest(rest) ELSE <<>>)

\* Mutant: the partial codepoint is forgotten when no byte completes it.
FeedPartial_Forgets(partial, input, is_complete) ==
    IF Len(input) < complete_codepoint_len(partial[1]) - Len(partial)
    THEN Verdict(TRUE, <<>>)
    ELSE FeedRest(partial \o input, is_complete)

\* The start of feed when a partial codepoint is stored.
FeedPartial(partial, input, is_complete) ==
    LET missing_bytes == complete_codepoint_len(partial[1]) - Len(partial)
        bytes_to_copy == IF Len(input) < missing_bytes THEN Len(input) ELSE missing_bytes
        codepoint == partial \o SubSeq(input, 1, bytes_to_copy)
        rest == SubSeq(input, bytes_to_copy + 1, Len(input))
    IN  IF Len(input) >= missing_bytes
        THEN IF Valid(codepoint) THEN FeedRest(rest, is_complete) ELSE Verdict(FALSE, partial)
        ELSE CASE Valid(codepoint) -> FeedRest(rest, is_complete)
               [] Malformed(codepoint) -> Verdict(FALSE, partial)
               [] OTHER -> Verdict(~is_complete, codepoint)

feed(partial, input, is_complete) ==
    IF partial = <<>> THEN FeedRest(input, is_complete)
    ELSE IF input = <<>> /\ ~is_complete THEN Verdict(TRUE, partial)
    ELSE FeedPartial(partial, input, is_complete)
=============================================================================
