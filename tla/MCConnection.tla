----------------------------- MODULE MCConnection -----------------------------
(* Instances of Handshake and Connection for TLC. *)
EXTENDS Connection, TLC

Required(k) ==
    <<Header("upgrade", <<"websocket">>), Header("connection", <<"keep-alive, Upgrade">>),
      Header("sec-websocket-version", <<"13">>), Header("sec-websocket-key", <<"key", k>>)>>

Accepting(k) == <<Header("sec-websocket-accept", digest(<<"key", k>>))>>

Message(code, headers) == [code |-> code, bad |-> FALSE, headers |-> headers]

\* Requests and responses of other implementations: good ones, one that cannot
\* be parsed, ones that lack or repeat a header, with a wrong value, refusals.
OtherMessages ==
    {Message(0, Required("k1")), [Message(0, <<>>) EXCEPT !.bad = TRUE],
     Message(0, SubSeq(Required("k1"), 1, 3)),
     Message(0, Append(Required("k1"), Header("upgrade", <<"h2c">>))),
     Message(101, Accepting("k1")), Message(101, <<>>),
     Message(101, Accepting("k2") \o Accepting("k1")), Message(400, Accepting("k1"))}

OneOrNone == {{}, {"client"}, {"server"}}

\* Messages, among them ones the peer may find too long, a ping and a close.
SomeSends ==
    [client |-> {Frame("Big", 0), Frame("Ping", 0)},
     server |-> {Frame("Data", 0), Frame("Big", 0), Frame("Close", 4000)}]

\* Legal frames, and frames that the decoder rejects.
OtherFrames ==
    {Frame("Ping", 1), Frame("BadUtf8", 0), Frame("Close", 0), Frame("Close", 999),
     Frame("Close", 1005)}
=============================================================================
