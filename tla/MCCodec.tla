------------------------------ MODULE MCCodec ------------------------------
(* Instances of Codec for TLC: a server whose peer masks its frames. *)
EXTENDS Codec, TLC

F(op, fin, field, payload) ==
    [op |-> op, fin |-> fin, rsv |-> FALSE, masked |-> TRUE, field |-> field,
     payload |-> payload, close |-> TRUE]

\* Text in one frame and in fragments that cut a codepoint, valid or not, in
\* each length field; a fragment that is empty but not the last one, and one
\* that many another makes too long for poll_next.
TextFrames ==
    {F("Text", TRUE, "7 bit", <<>>), F("Text", TRUE, "64 bit", <<"L2", "C1", "A", "L2", "C3">>),
     F("Text", FALSE, "7 bit", <<"A", "L2">>),
     F("Text", FALSE, "64 bit", [i \in 1..8 |-> IF i = 8 THEN "L2" ELSE "A"]),
     F("Text", TRUE, "64 bit", [i \in 1..10 |-> "A"]),
     F("Continuation", FALSE, "7 bit", <<>>), F("Continuation", FALSE, "16 bit", <<"C1", "E1", "C1">>),
     F("Continuation", TRUE, "7 bit", <<"C2">>), F("Continuation", TRUE, "7 bit", <<"C2", "E1">>),
     F("Continuation", TRUE, "16 bit", <<"C2", "A", "A">>),
     F("Ping", TRUE, "7 bit", <<"X", "A">>)}

\* Every check of the header and of the frames that are not text.
OtherFrames ==
    {F("Binary", TRUE, "64 bit", <<"X", "X", "X", "X", "X">>), F("Binary", FALSE, "7 bit", <<"X">>),
     F("Binary", TRUE, "16 bit", <<"X">>), F("Binary", TRUE, "64 bit", <<"X", "X", "X", "X">>),
     F("Binary", TRUE, "64 bit", [i \in 1..11 |-> "X"]),
     F("Close", TRUE, "7 bit", <<"A", "A">>), F("Close", TRUE, "7 bit", <<"A">>),
     [F("Close", TRUE, "7 bit", <<"A", "A">>) EXCEPT !.close = FALSE],
     F("Ping", FALSE, "7 bit", <<>>), F("Reserved", TRUE, "7 bit", <<>>),
     [F("Text", TRUE, "7 bit", <<>>) EXCEPT !.masked = FALSE],
     [F("Text", TRUE, "7 bit", <<>>) EXCEPT !.rsv = TRUE]}

AllFrames == TextFrames \cup OtherFrames

\* A text message whose last fragment is empty.
EmptyEnd ==
    {F("Text", FALSE, "7 bit", <<"A", "L2">>), F("Continuation", TRUE, "7 bit", <<>>),
     F("Text", TRUE, "7 bit", <<"C1">>), F("Text", TRUE, "7 bit", <<"A">>)}
=============================================================================
