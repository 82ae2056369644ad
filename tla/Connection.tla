----------------------------- MODULE Connection -----------------------------
(***************************************************************************)
(* A whole connection: the handshake of both sides, and then the two       *)
(* WebSocketStreams it leaves on the same transport, each an Endpoint, up  *)
(* to the end of the connection.  Either side may be another               *)
(* implementation that sends what it likes.                                *)
(*                                                                         *)
(* A frame is a kind and a value: a number that tells two messages apart,  *)
(* or the code of a close frame, 0 for an empty one.                       *)
(***************************************************************************)
EXTENDS Handshake

CONSTANTS
    Sends,          \* for each side, the frames its application may send
    Limited,        \* sides whose max_payload_len is below a frame of kind "Big"
    ForeignFrames,  \* frames another implementation may send
    NetRoom,        \* frames the transport takes before a write is Pending
    MaxQueued       \* bound: frames a side has queued before a send

VARIABLES
    ends,           \* the Endpoint of each side
    got             \* the frames each side has handed to its application

connVars == <<ends, got>>

At(x) == INSTANCE Endpoint WITH end <- ends[x], Sendable <- {<<f>> : f \in Sends[x]}, Answers <- {}

-----------------------------------------------------------------------------
(* Close codes, and what the decoder rejects.                              *)

Frame(op, v) == [op |-> op, v |-> v]

try_from_u16(code) == code \in 1000..1015 \/ code \in 3000..4999

\* Mutant: every code in the valid ranges may go over the wire.
is_reserved_None(code) == FALSE

is_reserved(code) == code \in {1004, 1005, 1006, 1015}

DEFAULT_CLOSE == Frame("Close", 1000)

ASSUME ConnectionAssumption ==
    /\ Limited \subseteq Sides
    /\ NetRoom \in Nat \ {0} /\ MaxQueued \in Nat
    /\ \A x \in Sides : \A f \in Sends[x] :
        /\ f = Frame(f.op, f.v)
        \* Message::close asserts it
        /\ f.op = "Close" /\ f.v # 0 => try_from_u16(f.v) /\ ~is_reserved(f.v)

\* The code of the close frame that answers f, 0 when x accepts f.
ErrorCode(x, f) ==
    CASE f.op = "BadUtf8" -> 1007                               \* InvalidUtf8
      [] f.op = "Big" /\ x \in Limited -> 1009                  \* PayloadTooLong
      \* InvalidCloseCode, or any other ProtocolError
      [] f.op = "Close" /\ f.v # 0 /\ (~try_from_u16(f.v) \/ is_reserved(f.v)) -> 1002
      [] OTHER -> 0

-----------------------------------------------------------------------------
(* The two streams.                                                        *)

IsOpen(x) == phase[x] \in {"open", "closing"}
Flushed(x) == ends[x].written = Len(ends[x].queued)
Flying(x) == Len(SelectSeq(net[x], LAMBDA u : u.op # "http"))

\* The transport of a side that left without a shutdown, or with something
\* unread, is reset.
Reset(x) == gone[x] /\ (phase[x] # "shut" \/ inbuf[x] # <<>> \/ net[Peer(x)] # <<>>)

handVars == <<uri, key, added, todo>>

\* Bound: nothing after the handshake depends on the URI or the added headers,
\* so frames are sent for one choice of them.
HasTraffic == uri = "ws" /\ added = Each({})

\* Sink::start_send
start_send(x) ==
    /\ phase[x] = "open" /\ ends[x].state = "Active"
    /\ HasTraffic /\ Len(ends[x].queued) < MaxQueued
    /\ \E f \in Sends[x] :
        LET numbered == IF f.op = "Close" THEN f ELSE [f EXCEPT !.v = Len(ends[x].queued) + 1]
        IN  ends' = [ends EXCEPT ![x] = At(x)!Queued(<<numbered>>)]
    /\ UNCHANGED <<handVars, phase, out, net, inbuf, gone, got>>

\* The first poll of Sink::poll_close
poll_close(x) ==
    /\ phase[x] = "open" /\ HasTraffic
    /\ phase' = [phase EXCEPT ![x] = "closing"]
    /\ ends' = [ends EXCEPT ![x] = IF @.state = "Active" THEN At(x)!Queued(<<DEFAULT_CLOSE>>) ELSE @]
    /\ UNCHANGED <<handVars, out, net, inbuf, gone, got>>

\* poll_flush, from whichever poll: a frame is written and flushed, and with it
\* what the handshake has left in the transport.
WriteFrame(x) ==
    /\ IsOpen(x) /\ ~Flushed(x) /\ Flying(x) < NetRoom
    /\ ends' = [ends EXCEPT ![x] = At(x)!Written(@.written + 1)]
    /\ net' = [net EXCEPT ![x] = @ \o out[x] \o <<ends[x].queued[ends'[x].written]>>]
    /\ out' = [out EXCEPT ![x] = <<>>]
    /\ UNCHANGED <<handVars, phase, inbuf, gone, got>>

\* Writing fails; poll_close returns the error when it was its own poll_flush.
WriteFails(x) ==
    /\ IsOpen(x) /\ ~Flushed(x) /\ Reset(Peer(x))
    /\ ends' = [ends EXCEPT ![x] = At(x)!Failed(@.written)]
    /\ \/ phase[x] = "closing" /\ ends[x].state = "CloseAcknowledged" /\ Drop(x, "closed", out[x])
       \/ /\ ~(phase[x] = "closing" /\ ends[x].state = "CloseAcknowledged")
          /\ UNCHANGED <<phase, gone, out>>
    /\ UNCHANGED <<handVars, net, inbuf, got>>

Arrived(x) == inbuf[x] \o net[Peer(x)]

\* poll_next_frame takes a frame from the buffer, or reads one.  A frame that is
\* rejected stays in the buffer.
poll_next_frame(x) ==
    LET f == Head(Arrived(x))
        code == ErrorCode(x, f)
        rest == IF inbuf[x] = <<>> THEN <<>> ELSE Tail(inbuf[x])
    IN  /\ IsOpen(x) /\ At(x)!Reads /\ Arrived(x) # <<>>
        /\ net' = [net EXCEPT ![Peer(x)] = IF inbuf[x] = <<>> THEN Tail(@) ELSE @]
        /\ inbuf' = [inbuf EXCEPT ![x] = IF code = 0 THEN rest ELSE <<f>> \o rest]
        /\ got' = [got EXCEPT ![x] = IF code = 0 THEN Append(@, f) ELSE @]
        /\ ends' = [ends EXCEPT ![x] =
            CASE code # 0 -> At(x)!Rejected(Frame("Close", code))
              [] code = 0 /\ f.op = "Close" -> At(x)!CloseReceived(f)   \* truncated to its code
              [] code = 0 /\ f.op = "Ping" -> At(x)!PingReceived(Frame("Pong", f.v))
              [] OTHER -> @]
        /\ UNCHANGED <<handVars, phase, out, gone>>

ReadFails(x) ==
    /\ IsOpen(x) /\ At(x)!Reads /\ Reset(Peer(x))
    /\ ends' = [ends EXCEPT ![x] = At(x)!Failed(@.written)]
    /\ UNCHANGED <<handVars, phase, out, net, inbuf, gone, got>>

Acknowledge(x) ==
    /\ IsOpen(x) /\ ends[x].state = "ClosedByPeer" /\ Flushed(x)
    /\ ends' = [ends EXCEPT ![x] = At(x)!Acknowledged]
    /\ UNCHANGED <<handVars, phase, out, net, inbuf, gone, got>>

AtEof(x) == gone[Peer(x)] /\ Arrived(x) = <<>> /\ out[Peer(x)] = <<>>

\* Mutant: close does not wait for the answer of the peer.
ReadsNothing_AfterClose(x) == TRUE

\* poll_next returns None.
ReadsNothing(x) == ends[x].state = "CloseAcknowledged" \/ (At(x)!Reads /\ AtEof(x))

\* poll_close comes to its end, and the application drops the stream.
poll_shutdown(x) ==
    /\ phase[x] = "closing" /\ ReadsNothing(x) /\ Flushed(x)
    /\ Drop(x, "shut", out[x])
    /\ UNCHANGED <<handVars, net, inbuf, ends, got>>

\* The application drops the stream before that.
DropStream(x) ==
    /\ MayDrop /\ IsOpen(x)
    /\ Drop(x, "closed", out[x])
    /\ UNCHANGED <<handVars, net, inbuf, ends, got>>

\* Another implementation sends a frame, and reads what it was sent.
ForeignFrame(x, f) ==
    /\ phase[x] = "foreign open" /\ Flying(x) < NetRoom
    /\ HasTraffic /\ Len(ends[x].queued) < MaxQueued
    /\ ends' = [ends EXCEPT ![x].queued = Append(@, f), ![x].written = @ + 1]
    /\ net' = [net EXCEPT ![x] = Append(@, f)]
    /\ UNCHANGED <<handVars, phase, out, inbuf, gone, got>>

ForeignRead(x) ==
    /\ phase[x] = "foreign open" /\ Flying(Peer(x)) > 0
    /\ net' = [net EXCEPT ![Peer(x)] = <<>>]
    /\ UNCHANGED <<handVars, phase, out, inbuf, gone, ends, got>>

-----------------------------------------------------------------------------
connInit == Init /\ ends = [x \in Sides |-> At(x)!Opened] /\ got = Each(<<>>)

\* What the executor does by itself while the application awaits the stream.
Polls(x) ==
    \/ WriteFrame(x) \/ poll_next_frame(x) \/ Acknowledge(x) \/ poll_shutdown(x)
    \/ WriteFails(x)

connNext ==
    \/ Next /\ UNCHANGED connVars
    \/ \E x \in Sides :
        \/ start_send(x) \/ poll_close(x) \/ Polls(x) \/ ReadFails(x) \/ DropStream(x)
        \/ \E f \in ForeignFrames : ForeignFrame(x, f)
        \/ ForeignRead(x)

allVars == <<vars, connVars>>

connSpec == connInit /\ [][connNext]_allVars

\* On top of the handshake's: an application polls its stream until it has
\* ended, and then closes it.
connFairSpec ==
    /\ connSpec /\ Fairness
    /\ \A x \in Sides : WF_allVars(Polls(x)) /\ WF_allVars(ReadsNothing(x) /\ poll_close(x))

-----------------------------------------------------------------------------
\* The stream that takes over decodes exactly the frames the peer has written,
\* in order, with none lost to the handshake and nothing of the handshake
\* among them, whether they came with it, after it or not yet (from_framed
\* keeps the buffer, both decoders advance by the length of the message).
LeftoverReachesStream ==
    \A x \in Sides :
        IsOpen(x) =>
            got[x] \o Arrived(x) \o out[Peer(x)]
                = SubSeq(ends[Peer(x)].queued, 1, ends[Peer(x)].written)

\* x has rejected a frame.
Refused(x) ==
    /\ phase[x] \in Returned /\ ~At(x)!Reads
    /\ inbuf[x] # <<>> /\ ErrorCode(x, Head(inbuf[x])) # 0

\* A stream that ends with the exchange of close frames has handed out every
\* frame that the other end ever queued, whoever closed first or if both did:
\* nothing is queued behind a close frame, and ClosedByUs reads on.
OrderlyCloseLosesNothing ==
    \A x \in Sides :
        ends[x].ended \in {"us", "peer"} /\ ~IsForeign(Peer(x)) /\ ~Refused(x) =>
            got[x] = ends[Peer(x)].queued

\* Between two ends of this crate that both close, neither gets an I/O error or
\* an end of input without a close frame, whatever was still queued: close
\* shuts the transport down only when both close frames were exchanged.
CloseIsClean ==
    \A x \in Sides :
        /\ IsOpen(x) \/ phase[x] = "shut"
        /\ phase[Peer(x)] \in {"reading", "open", "closing", "shut"}
        /\ \A y \in Sides : ~Refused(y)
        => /\ ends[x].ended # "error"
           /\ phase[x] = "shut" => ends[x].ended \in {"us", "peer"}

\* Every close frame an end sends or hands out has no code or a valid one that
\* may go over the wire, also when it echoes what another implementation sent:
\* as_close converts it without a check.
CloseCodesAreLegal ==
    \A x \in Sides : ~IsForeign(x) =>
        \A f \in Range(ends[x].queued) \cup Range(got[x]) :
            f.op = "Close" /\ f.v # 0 =>
                \/ f.v \in 1000..1014 /\ f.v \notin {1004, 1005, 1006}
                \/ f.v \in 3000..4999

\* close() returns: the peer answers it, or has left.  The one exception is that
\* both ends reject a frame of the other at the same time: both then only
\* write, and if the transport is full, neither gets its close frame out.
CloseReturns ==
    \A x \in Sides :
        phase[x] = "closing" ~> phase[x] \in {"shut", "closed"} \/ \A y \in Sides : Refused(y)
=============================================================================
