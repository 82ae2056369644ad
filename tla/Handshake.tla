------------------------------ MODULE Handshake ------------------------------
(***************************************************************************)
(* The HTTP upgrade: connect and connect_on of src/client.rs, accept of    *)
(* src/server.rs, the two decoders of src/upgrade, and the transport in    *)
(* between, up to the WebSocketStream that takes over (see Connection).     *)
(*                                                                         *)
(* An HTTP message takes two units on the wire, so that it can arrive in   *)
(* parts and together with the frames behind it; a frame takes one.  What  *)
(* is written waits in `out'.  A TCP stream sends it in time; a transport  *)
(* that holds it back until it is flushed may lose it when it is dropped.  *)
(***************************************************************************)
EXTENDS Integers, Sequences, SequencesExt, FiniteSetsExt

CONSTANTS
    Uris,                   \* what is configured as the URI
    Keys,                   \* values of make_key
    ClientAdds, ServerAdds, \* header names the applications try to add
    MaxRequestHeaders,      \* 64: headers client_request::Codec has room for
    MaxResponseHeaders,     \* 25: headers server_response::Codec has room for
    HoldsBack,              \* whether the transport waits for a flush, as a BufWriter does
    Foreign,                \* sets of sides that may be another implementation
    ForeignMessages,        \* what such a side may send instead
    MayDrop                 \* whether a future or a stream may be dropped

Sides == {"client", "server"}
Peer(x) == IF x = "client" THEN "server" ELSE "client"
UriKinds == {"none", "no host", "http", "ws", "wss"}

ASSUME HandshakeAssumption ==
    /\ Uris \subseteq UriKinds
    /\ MaxRequestHeaders \in Nat /\ MaxResponseHeaders \in Nat
    /\ HoldsBack \in BOOLEAN /\ MayDrop \in BOOLEAN
    /\ Foreign \subseteq SUBSET Sides

VARIABLES
    uri, key,
    added,      \* Builder::headers of each side
    phase,      \* where connect, connect_on or accept is
    todo,       \* units write_all has still to write
    out,        \* units written and not flushed
    net,        \* units on their way to the peer
    inbuf,      \* the buffer of FramedRead
    gone        \* whether the side has dropped the transport

vars == <<uri, key, added, phase, todo, out, net, inbuf, gone>>

Each(v) == [x \in Sides |-> v]

Init ==
    /\ uri \in Uris
    /\ key \in Keys                  \* rand::get_key
    /\ added = Each({})
    /\ \E foreign \in Foreign :
        phase = [x \in Sides |-> IF x \in foreign THEN "foreign" ELSE "new"]
    /\ todo = Each(<<>>) /\ out = Each(<<>>) /\ net = Each(<<>>) /\ inbuf = Each(<<>>)
    /\ gone = Each(FALSE)

-----------------------------------------------------------------------------
(* Builders and messages.  A value is a tuple: its kind, and a key.        *)

Header(name, value) == [name |-> name, value |-> value]
Missing == <<"missing">>
digest(value) == <<"digest", value>>

\* Mutant: the key may be added by the application.
DISALLOWED_HEADERS_NoKey(x) ==
    IF x = "client"
    THEN {"host", "upgrade", "connection", "sec-websocket-version"}
    ELSE {"upgrade", "connection", "sec-websocket-accept"}

DISALLOWED_HEADERS(x) ==
    IF x = "client"
    THEN {"host", "upgrade", "connection", "sec-websocket-key", "sec-websocket-version"}
    ELSE {"upgrade", "connection", "sec-websocket-accept"}

add_header(x, name) ==
    /\ phase[x] = "new"
    /\ name \notin DISALLOWED_HEADERS(x)
    /\ added' = [added EXCEPT ![x] = @ \cup {name}]
    /\ UNCHANGED <<uri, key, phase, todo, out, net, inbuf, gone>>

Added(x) == SetToSeq({Header(name, <<"added">>) : name \in added[x]})

Handshaking == <<Header("upgrade", <<"websocket">>), Header("connection", <<"Upgrade">>)>>

build_request ==
    [code |-> 0, bad |-> FALSE,
     headers |-> (IF uri = "no host" THEN <<>> ELSE <<Header("host", <<"host">>)>>)
                 \o Handshaking
                 \o <<Header("sec-websocket-key", <<"key", key>>),
                      Header("sec-websocket-version", <<"13">>)>>
                 \o Added("client")]

SwitchingProtocols(ws_accept) ==
    [code |-> 101, bad |-> FALSE,
     headers |-> Handshaking \o <<Header("sec-websocket-accept", ws_accept)>> \o Added("server")]

BAD_REQUEST == [code |-> 400, bad |-> FALSE, headers |-> <<>>]

\* HeaderMap::insert keeps the last value of a name, Iterator::find the first.
Places(m, name) == {i \in DOMAIN m.headers : m.headers[i].name = name}
LastValue(m, name) ==
    IF Places(m, name) = {} THEN Missing ELSE m.headers[Max(Places(m, name))].value
FirstValue(m, name) ==
    IF Places(m, name) = {} THEN Missing ELSE m.headers[Min(Places(m, name))].value

\* client_request::Codec::decode for a whole request
RequestFails(m) ==
    \/ Len(m.headers) > MaxRequestHeaders
    \/ LastValue(m, "upgrade") # <<"websocket">>
    \/ LastValue(m, "connection") \notin {<<"Upgrade">>, <<"keep-alive, Upgrade">>}
    \/ LastValue(m, "sec-websocket-version") # <<"13">>
    \/ LastValue(m, "sec-websocket-key") = Missing

\* server_response::Codec::decode for a whole response
ResponseFails(m) ==
    \/ Len(m.headers) > MaxResponseHeaders
    \/ m.code # 101
    \/ FirstValue(m, "sec-websocket-accept") # digest(<<"key", key>>)

Units(m) == [i \in 1..2 |-> [op |-> "http", msg |-> m, part |-> i]]

-----------------------------------------------------------------------------
(* connect, connect_on and accept, up to their first write or read.        *)

\* connect: resolve, open a TCP connection, wrap it.  Each may fail; an
\* unsupported scheme fails when the TCP connection is open.
connect ==
    /\ phase["client"] = "new"
    /\ \/ /\ phase' = [phase EXCEPT !["client"] = "unreachable"]   \* no URI, host, address, peer
          /\ UNCHANGED gone
       \/ /\ uri \in {"http", "wss"}                               \* scheme or TLS
          /\ phase' = [phase EXCEPT !["client"] = "undialled"]
          /\ gone' = [gone EXCEPT !["client"] = TRUE]
       \/ /\ uri \in {"ws", "wss"}
          /\ phase' = [phase EXCEPT !["client"] = "connected"]
          /\ UNCHANGED gone
    /\ UNCHANGED <<uri, key, added, todo, out, net, inbuf>>

\* connect_on, after connect or on a transport the caller has opened
connect_on ==
    /\ phase["client"] \in {"new", "connected"}
    /\ IF uri = "none"
       THEN /\ phase' = [phase EXCEPT !["client"] = "undialled"]
            /\ gone' = [gone EXCEPT !["client"] = TRUE]
            /\ UNCHANGED todo
       ELSE /\ phase' = [phase EXCEPT !["client"] = "writing"]
            /\ todo' = [todo EXCEPT !["client"] = Units(build_request)]
            /\ UNCHANGED gone
    /\ UNCHANGED <<uri, key, added, out, net, inbuf>>

accept ==
    /\ phase["server"] = "new"
    /\ phase["client"] \notin {"new", "unreachable"}
    /\ phase' = [phase EXCEPT !["server"] = "reading"]
    /\ UNCHANGED <<uri, key, added, todo, out, net, inbuf, gone>>

-----------------------------------------------------------------------------
(* The transport.                                                          *)

\* Side x ends in phase p and drops the transport, with w written to it.
Drop(x, p, w) ==
    /\ phase' = [phase EXCEPT ![x] = p]
    /\ gone' = [gone EXCEPT ![x] = TRUE]
    /\ out' = [out EXCEPT ![x] = IF HoldsBack THEN <<>> ELSE w]

\* write_all writes a unit; with the last one x goes on.  accept returns when
\* the response is written, only connect_on flushes.
Write(x) ==
    LET written == Append(out[x], Head(todo[x]))
        last == Len(todo[x]) = 1
    IN  /\ phase[x] \in {"writing", "replying", "refusing"} /\ todo[x] # <<>>
        /\ todo' = [todo EXCEPT ![x] = Tail(@)]
        /\ \/ phase[x] = "refusing" /\ last /\ Drop(x, "failed", written)
           \/ /\ ~(phase[x] = "refusing" /\ last)
              /\ out' = [out EXCEPT ![x] = written]
              /\ phase' = IF ~last THEN phase
                          ELSE [phase EXCEPT ![x] = IF x = "client" THEN "flushing" ELSE "open"]
              /\ UNCHANGED gone
        /\ UNCHANGED <<uri, key, added, net, inbuf>>

Flush ==
    /\ phase["client"] = "flushing"
    /\ phase' = [phase EXCEPT !["client"] = "reading"]
    /\ net' = [net EXCEPT !["client"] = @ \o out["client"]]
    /\ out' = [out EXCEPT !["client"] = <<>>]
    /\ UNCHANGED <<uri, key, added, todo, inbuf, gone>>

\* The transport sends some of what was written by itself.
Spill(x) ==
    /\ out[x] # <<>>
    /\ net' = [net EXCEPT ![x] = Append(@, Head(out[x]))]
    /\ out' = [out EXCEPT ![x] = Tail(@)]
    /\ UNCHANGED <<uri, key, added, phase, todo, inbuf, gone>>

\* Writing or flushing to a peer that is gone may fail.
WriteError(x) ==
    /\ phase[x] \in {"writing", "flushing", "replying", "refusing"} /\ gone[Peer(x)]
    /\ Drop(x, "failed", out[x])
    /\ UNCHANGED <<uri, key, added, todo, net, inbuf>>

-----------------------------------------------------------------------------
(* FramedRead with the decoder of the handshake.                           *)

\* Mutant: the start of a message is taken for all of it.
Incomplete_Never(units) == FALSE

Incomplete(units) == Len(units) < 2

\* Mutant: everything in the buffer is dropped with the message.
Advance_All(units) == <<>>

\* src.advance: the message leaves the buffer, what follows it stays and is
\* handed to the WebSocketStream by from_framed.
Advance(units) == SubSeq(units, 3, Len(units))

Fails(x, m) == m.bad \/ IF x = "server" THEN RequestFails(m) ELSE ResponseFails(m)

\* x reads n units and tries to decode.
Read(x, n) ==
    LET units == inbuf[x] \o SubSeq(net[Peer(x)], 1, n)
        m == units[1].msg
    IN  /\ phase[x] = "reading" /\ n \in 1..Len(net[Peer(x)])
        /\ net' = [net EXCEPT ![Peer(x)] = SubSeq(@, n + 1, Len(@))]
        /\ \/ /\ ~m.bad /\ Incomplete(units)
              /\ inbuf' = [inbuf EXCEPT ![x] = units]
              /\ UNCHANGED <<phase, todo, out, gone>>
           \/ /\ m.bad \/ ~Incomplete(units)
              /\ Fails(x, m)
              /\ inbuf' = [inbuf EXCEPT ![x] = units]
              /\ \/ /\ x = "server"
                    /\ phase' = [phase EXCEPT ![x] = "refusing"]
                    /\ todo' = [todo EXCEPT ![x] = Units(BAD_REQUEST)]
                    /\ UNCHANGED <<out, gone>>
                 \/ x = "client" /\ Drop(x, "failed", out[x]) /\ UNCHANGED todo
           \/ /\ ~Incomplete(units) /\ ~Fails(x, m)
              /\ inbuf' = [inbuf EXCEPT ![x] = Advance(units)]
              /\ \/ /\ x = "server"
                    /\ phase' = [phase EXCEPT ![x] = "replying"]
                    /\ todo' = [todo EXCEPT ![x] =
                        Units(SwitchingProtocols(digest(LastValue(m, "sec-websocket-key"))))]
                 \/ x = "client" /\ phase' = [phase EXCEPT ![x] = "open"] /\ UNCHANGED todo
              /\ UNCHANGED <<out, gone>>
        /\ UNCHANGED <<uri, key, added>>

\* Mutant: the end of the connection is taken for a Pending.
EndOfInput_Waits(x) == FALSE

EndOfInput(x) ==
    phase[x] = "reading" /\ gone[Peer(x)] /\ net[Peer(x)] = <<>> /\ out[Peer(x)] = <<>>

\* None is UnexpectedEof; inside a message it is an error of the decoder, which
\* accept answers with BAD_REQUEST.
ReadEof(x) ==
    /\ EndOfInput(x)
    /\ \/ /\ x = "server" /\ inbuf[x] # <<>>
          /\ phase' = [phase EXCEPT ![x] = "refusing"]
          /\ todo' = [todo EXCEPT ![x] = Units(BAD_REQUEST)]
          /\ UNCHANGED <<out, gone>>
       \/ /\ x = "client" \/ inbuf[x] = <<>>
          /\ Drop(x, "failed", out[x]) /\ UNCHANGED todo
    /\ UNCHANGED <<uri, key, added, net, inbuf>>

-----------------------------------------------------------------------------
(* Other implementations, and futures that are dropped.                    *)

\* Another implementation sends its message, and leaves.
ForeignSend(x, m) ==
    /\ phase[x] = "foreign"
    /\ phase' = [phase EXCEPT ![x] = "foreign open"]
    /\ net' = [net EXCEPT ![x] = @ \o Units(m)]
    /\ UNCHANGED <<uri, key, added, todo, out, inbuf, gone>>

ForeignLeave(x) ==
    /\ phase[x] \in {"foreign", "foreign open"}
    /\ Drop(x, "foreign gone", <<>>)
    /\ UNCHANGED <<uri, key, added, todo, net, inbuf>>

\* The future of connect_on or accept is dropped.
Cancel(x) ==
    /\ MayDrop
    /\ phase[x] \in {"connected", "writing", "flushing", "reading", "replying", "refusing"}
    /\ Drop(x, "cancelled", out[x])
    /\ UNCHANGED <<uri, key, added, todo, net, inbuf>>

-----------------------------------------------------------------------------
Handshakes(x) ==
    Write(x) \/ WriteError(x) \/ ReadEof(x) \/ \E n \in 1..Len(net[Peer(x)]) : Read(x, n)

Next ==
    \/ \E name \in ClientAdds : add_header("client", name)
    \/ \E name \in ServerAdds : add_header("server", name)
    \/ connect \/ connect_on \/ accept \/ Flush
    \/ \E x \in Sides :
        \/ Handshakes(x) \/ Spill(x)
        \/ \E m \in ForeignMessages : ForeignSend(x, m)
        \/ ForeignLeave(x) \/ Cancel(x)

Spec == Init /\ [][Next]_vars

\* Both executors run their handshake, a transport that does not hold anything
\* back sends what was written, and another implementation does not keep a
\* connection open for ever without an answer.
Fairness ==
    /\ WF_vars(connect_on /\ phase["client"] = "connected")
    /\ WF_vars(accept) /\ WF_vars(Flush)
    /\ \A x \in Sides :
        WF_vars(Handshakes(x)) /\ WF_vars(~HoldsBack /\ Spill(x)) /\ WF_vars(ForeignLeave(x))

FairSpec == Spec /\ Fairness

-----------------------------------------------------------------------------
\* connect_on or accept has returned a stream, dropped since if "closed".
Returned == {"open", "closing", "shut", "closed"}
IsForeign(x) == phase[x] \in {"foreign", "foreign open", "foreign gone"}

\* connect_on returns a stream only when the accept of the same connection has
\* written its whole response and returned a stream too: no client goes on
\* after a request that was refused or whose answer was cut short.
NoHalfOpen ==
    phase["client"] = "open" /\ ~IsForeign("server") => phase["server"] \in Returned

\* Client and server of this crate always agree if neither is cancelled:
\* whatever headers the applications added, the handshake fails only if there
\* are more of them than the decoder of the other side has room for.
HandshakeSucceeds ==
    /\ \A x \in Sides : ~IsForeign(x) /\ phase[x] \notin {"undialled", "cancelled", "closed"}
    /\ \E x \in Sides : phase[x] = "failed"
    => \/ Len(build_request.headers) > MaxRequestHeaders
       \/ Len(SwitchingProtocols(Missing).headers) > MaxResponseHeaders

Ended == {"open", "failed", "cancelled"}

\* connect_on ends: it gets a response, an error, or sees that the server left.
ConnectEnds ==
    phase["client"] \in {"writing", "flushing", "reading"} ~> phase["client"] \in Ended

\* accept ends, with whatever request, or none.
AcceptEnds ==
    phase["server"] \in {"reading", "replying", "refusing"} ~> phase["server"] \in Ended
=============================================================================
