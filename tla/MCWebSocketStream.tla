-------------------------- MODULE MCWebSocketStream --------------------------
(* Instances of WebSocketStream for TLC. *)
EXTENDS WebSocketStream, TLC

F(op, fin, len) == [op |-> op, fin |-> fin, len |-> len, bad |-> "no"]
Bad(where) == [op |-> "Text", fin |-> TRUE, len |-> 1, bad |-> where]

\* Whole messages, fragments of two sizes, control frames, an invalid frame.
AllFrames ==
    {F("Text", TRUE, 1), F("Text", FALSE, 1), F("Binary", FALSE, 2),
     F("Continuation", FALSE, 1), F("Continuation", TRUE, 2),
     F("Ping", TRUE, 0), F("Close", TRUE, 0), Bad("body")}

Fragments ==
    {F("Text", FALSE, 1), F("Continuation", FALSE, 1), F("Continuation", FALSE, 2), F("Continuation", TRUE, 1),
     F("Ping", TRUE, 0)}

\* Every way the peer can end the connection, and a ping.
CloseKinds == {F("Ping", TRUE, 0), F("Close", TRUE, 0), Bad("head")}

Pings == {F("Ping", TRUE, 0)}
PingsAndClose == Pings \cup {F("Close", TRUE, 0)}

\* One message in one frame, one in two frames.
ShortAndLong == {[op |-> "Text", len |-> 1], [op |-> "Binary", len |-> 3]}
ShortLongClose == ShortAndLong \cup {[op |-> "Close", len |-> 0]}
Short == {[op |-> "Text", len |-> 1]}
=============================================================================
