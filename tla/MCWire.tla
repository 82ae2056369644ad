------------------------------- MODULE MCWire -------------------------------
(* Instances of Wire for TLC. *)
EXTENDS Wire

M(op, n) == [op |-> op, len |-> n]

\* Both sides of every limit of the length fields (2 and 3 here), a length that
\* four digits do not hold, fragments, and a frame that is too long.
AllLengths ==
    {M("Text", 0), M("Binary", 2), M("Text", 3), M("Binary", 4), M("Ping", 2), M("Close", 2),
     M("Binary", 20), M("Text", 23)}
=============================================================================
