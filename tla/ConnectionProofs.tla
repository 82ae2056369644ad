-------------------------- MODULE ConnectionProofs --------------------------
(***************************************************************************)
(* The first part of the proofs about Connection.  First the type of its   *)
(* state, and how far each side has come in each phase.  What every action *)
(* does to the side that takes it is stated once, as an Effect lemma, and  *)
(* the lemmas after that cite these instead of the actions.                *)
(*                                                                         *)
(* Then what flows from one side to the other.  The invariant speaks of    *)
(* everything a side has got or will get: what it has taken, what is in    *)
(* its buffer, on the transport, written, to be written and queued, in     *)
(* this order.  Most steps only move the border between two of these, and  *)
(* what they join to stays the same.  Here are the steps of the handshake  *)
(* but for its reading, ConnectionFlow has the others.                     *)
(***************************************************************************)
EXTENDS Connection, SequenceFacts, FiniteSetTheorems

-----------------------------------------------------------------------------
(* The state.  gone is settled by the phase, and a stream has nothing but  *)
(* what At!Opened gives it before its handshake has returned.              *)

Closes(fs) == \E i \in DOMAIN fs : fs[i].op = "Close"
Fields == {"state", "queued", "written", "ended"}
Fresh == [state |-> "Active", queued |-> <<>>, written |-> 0, ended |-> "no"]

IsEnd(e) ==
    /\ DOMAIN e = Fields
    /\ e.state \in {"Active", "ClosedByPeer", "ClosedByUs", "CloseAcknowledged"}
    /\ IsSeq(e.queued) /\ e.written \in 0..Len(e.queued)
    /\ e.ended \in {"no", "us", "peer", "error"}
    /\ e.state = "CloseAcknowledged" <=> e.ended # "no"

ForeignPhases == {"foreign", "foreign open", "foreign gone"}
Leaving == {"undialled", "failed", "cancelled", "closed", "shut", "foreign gone"}
Phases(x) ==
    Returned \cup ForeignPhases \cup {"new", "reading", "failed", "cancelled"}
    \cup IF x = "client" THEN {"connected", "unreachable", "undialled", "writing", "flushing"}
         ELSE {"replying", "refusing"}

\* x has not sent anything yet.
Unsent(x) ==
    phase[x] \in {"new", "foreign"} \cup
        IF x = "client" THEN {"connected", "unreachable", "undialled"} ELSE {"reading"}

Domains ==
    /\ DOMAIN phase = Sides /\ DOMAIN added = Sides /\ DOMAIN todo = Sides /\ DOMAIN out = Sides
    /\ DOMAIN net = Sides /\ DOMAIN inbuf = Sides /\ DOMAIN gone = Sides
    /\ DOMAIN ends = Sides /\ DOMAIN got = Sides

TypeOf(x) ==
    /\ phase[x] \in Phases(x)
    /\ gone[x] <=> phase[x] \in Leaving
    /\ IsSeq(todo[x]) /\ IsSeq(out[x]) /\ IsSeq(net[x]) /\ IsSeq(inbuf[x]) /\ IsSeq(got[x])
    /\ IsEnd(ends[x])

TypeOK == Domains /\ \A x \in Sides : TypeOf(x)

\* What is left of the handshake in each phase.
Progress(x) ==
    /\ todo[x] # <<>> =>
        phase[x] \in {"writing", "replying", "refusing", "failed", "cancelled"} /\ ends[x] = Fresh
    /\ phase[x] \in {"writing", "replying", "refusing"} => todo[x] # <<>>
    /\ ends[x] # Fresh => phase[x] \in Returned \cup {"foreign open", "foreign gone"}
    /\ ends[x].written > 0 => out[x] = <<>>
    /\ IsForeign(x) =>
        out[x] = <<>> /\ todo[x] = <<>> /\ Flushed(x) /\ ends[x].state = "Active"
    /\ phase[x] = "shut" => Flushed(x)
    /\ Unsent(x) =>
        /\ ends[x] = Fresh /\ todo[x] = <<>> /\ out[x] = <<>> /\ net[x] = <<>>
        /\ inbuf[Peer(x)] = <<>>

ProgressInv == TypeOK /\ \A x \in Sides : Progress(x)

\* Each of the two sides is the other's peer.
LEMMA Peers ==
    ASSUME NEW x \in Sides
    PROVE  /\ Peer(x) \in Sides /\ Peer(x) # x /\ Peer(Peer(x)) = x
           /\ \A z \in Sides : z = x \/ z = Peer(x)
BY DEF Sides, Peer

\* An HTTP message is two units on the transport.
LEMMA UnitsFacts ==
    ASSUME NEW m
    PROVE  /\ IsSeq(Units(m)) /\ Len(Units(m)) = 2 /\ Units(m) # <<>>
           /\ Units(m)[1].msg = m
<1> DEFINE u(i) == [op |-> "http", msg |-> m, part |-> i]
<1>1. Units(m) \in Seq({u(1), u(2)})
    BY DEF Units
<1>2. Len(Units(m)) = 2 /\ Units(m)[1] = u(1)
    BY DEF Units
<1> QED
    BY <1>1, <1>2, SeqIsSeq, LengthFacts

\* The record of an end after queue_frame,
LEMMA QueuedFields ==
    ASSUME NEW x \in Sides, NEW fs, DOMAIN ends[x] = Fields
    PROVE  /\ DOMAIN At(x)!Queued(fs) = Fields
           /\ At(x)!Queued(fs).state =
                IF Closes(fs) /\ ends[x].state # "ClosedByPeer" THEN "ClosedByUs" ELSE ends[x].state
           /\ At(x)!Queued(fs).queued = ends[x].queued \o fs
           /\ At(x)!Queued(fs).written = ends[x].written
           /\ At(x)!Queued(fs).ended = ends[x].ended
BY DEF At!Queued, Fields, At!HasClose, Closes

\* after a frame has gone to the transport,
LEMMA WrittenFields ==
    ASSUME NEW x \in Sides, NEW n, DOMAIN ends[x] = Fields
    PROVE  /\ DOMAIN At(x)!Written(n) = Fields
           /\ At(x)!Written(n).state = ends[x].state
           /\ At(x)!Written(n).queued = ends[x].queued
           /\ At(x)!Written(n).written = n
           /\ At(x)!Written(n).ended = ends[x].ended
BY DEF At!Written, Fields

\* after an error of the transport,
LEMMA FailedFields ==
    ASSUME NEW x \in Sides, NEW n, DOMAIN ends[x] = Fields
    PROVE  /\ DOMAIN At(x)!Failed(n) = Fields
           /\ At(x)!Failed(n).state = "CloseAcknowledged"
           /\ At(x)!Failed(n).queued = ends[x].queued
           /\ At(x)!Failed(n).written = n
           /\ At(x)!Failed(n).ended = IF ends[x].ended = "no" THEN "error" ELSE ends[x].ended
BY DEF At!Failed, Fields

\* after the acknowledgement of a close frame has been written,
LEMMA AcknowledgedFields ==
    ASSUME NEW x \in Sides, DOMAIN ends[x] = Fields
    PROVE  /\ DOMAIN At(x)!Acknowledged = Fields
           /\ At(x)!Acknowledged.state = "CloseAcknowledged"
           /\ At(x)!Acknowledged.queued = ends[x].queued
           /\ At(x)!Acknowledged.written = Len(ends[x].queued)
           /\ At(x)!Acknowledged.ended = "peer"
BY DEF At!Acknowledged, Fields

\* after a close frame of the peer,
LEMMA CloseReceivedFields ==
    ASSUME NEW x \in Sides, NEW f, DOMAIN ends[x] = Fields
    PROVE  /\ DOMAIN At(x)!CloseReceived(f) = Fields
           /\ At(x)!CloseReceived(f).state =
                IF ends[x].state = "Active" THEN "ClosedByPeer" ELSE "CloseAcknowledged"
           /\ At(x)!CloseReceived(f).queued =
                IF ends[x].state = "Active" THEN Append(ends[x].queued, f) ELSE ends[x].queued
           /\ At(x)!CloseReceived(f).written = ends[x].written
           /\ At(x)!CloseReceived(f).ended =
                IF ends[x].state = "Active" THEN ends[x].ended ELSE "us"
BY DEF At!CloseReceived, Fields

\* after a frame that violates the protocol,
LEMMA RejectedFields ==
    ASSUME NEW x \in Sides, NEW f, DOMAIN ends[x] = Fields
    PROVE  /\ DOMAIN At(x)!Rejected(f) = Fields
           /\ At(x)!Rejected(f).state =
                IF ends[x].state = "ClosedByUs" THEN "CloseAcknowledged" ELSE "ClosedByPeer"
           /\ At(x)!Rejected(f).queued =
                IF ends[x].state = "ClosedByUs" THEN ends[x].queued ELSE Append(ends[x].queued, f)
           /\ At(x)!Rejected(f).written = ends[x].written
           /\ At(x)!Rejected(f).ended =
                IF ends[x].state = "ClosedByUs" THEN "error" ELSE ends[x].ended
BY DEF At!Rejected, Fields

\* and after a ping.
LEMMA PingReceivedFields ==
    ASSUME NEW x \in Sides, NEW f, DOMAIN ends[x] = Fields, f.op = "Pong"
    PROVE  /\ DOMAIN At(x)!PingReceived(f) = Fields
           /\ At(x)!PingReceived(f).state = ends[x].state
           /\ At(x)!PingReceived(f).queued =
                IF ends[x].state = "Active" THEN ends[x].queued \o <<f>> ELSE ends[x].queued
           /\ At(x)!PingReceived(f).written = ends[x].written
           /\ At(x)!PingReceived(f).ended = ends[x].ended
<1>1. ~Closes(<<f>>)
    BY DEF Closes
<1> QED
    BY <1>1, QueuedFields DEF At!PingReceived
-----------------------------------------------------------------------------
(* What each action does, side by side.                                    *)

\* A step of x leaves the other side alone, but for what is on its way to x.
Alone(x) ==
    LET y == Peer(x)
    IN  /\ Domains' /\ uri' = uri /\ key' = key
        /\ phase'[y] = phase[y] /\ added'[y] = added[y] /\ todo'[y] = todo[y] /\ out'[y] = out[y]
        /\ inbuf'[y] = inbuf[y] /\ (gone'[y] <=> gone[y]) /\ ends'[y] = ends[y] /\ got'[y] = got[y]

KeepsStream(x) == ends'[x] = ends[x] /\ got'[x] = got[x]
KeepsNet(x) == net' = net /\ inbuf'[x] = inbuf[x]
KeepsWrites(x) == todo'[x] = todo[x] /\ out'[x] = out[x]
Stays(x) == phase'[x] = phase[x] /\ (gone'[x] <=> gone[x])
Leaves(x, p, w) ==
    phase'[x] = p /\ gone'[x] /\ out'[x] = IF HoldsBack THEN <<>> ELSE w

\* What add_header does to the two sides,
LEMMA AddHeaderEffect ==
    ASSUME Domains, UNCHANGED connVars, NEW x \in Sides, NEW name, add_header(x, name)
    PROVE  /\ Alone(x) /\ KeepsStream(x) /\ KeepsNet(x) /\ KeepsWrites(x) /\ Stays(x)
           /\ phase[x] = "new" /\ added'[x] = added[x] \cup {name}
           /\ name \notin DISALLOWED_HEADERS(x)
BY Peers DEF Domains, connVars, add_header, Alone, KeepsStream, KeepsNet, KeepsWrites, Stays

\* what connect does,
LEMMA ConnectEffect ==
    ASSUME Domains, UNCHANGED connVars, NEW x \in Sides, x = "client", connect
    PROVE  /\ Alone(x) /\ KeepsStream(x) /\ KeepsNet(x) /\ KeepsWrites(x) /\ added' = added
           /\ phase[x] = "new"
           /\ \/ phase'[x] \in {"unreachable", "connected"} /\ (gone'[x] <=> gone[x])
              \/ phase'[x] = "undialled" /\ gone'[x]
BY Peers DEF Domains, connVars, connect, Alone, KeepsStream, KeepsNet, KeepsWrites

\* what connect_on does, which begins with the request,
LEMMA ConnectOnEffect ==
    ASSUME Domains, UNCHANGED connVars, NEW x \in Sides, x = "client", connect_on
    PROVE  /\ Alone(x) /\ KeepsStream(x) /\ KeepsNet(x) /\ out'[x] = out[x] /\ added' = added
           /\ phase[x] \in {"new", "connected"}
           /\ \/ phase'[x] = "undialled" /\ gone'[x] /\ todo'[x] = todo[x]
              \/ phase'[x] = "writing" /\ (gone'[x] <=> gone[x]) /\ todo'[x] = Units(build_request)
BY Peers DEF Domains, connVars, connect_on, Alone, KeepsStream, KeepsNet

\* what accept does,
LEMMA AcceptEffect ==
    ASSUME Domains, UNCHANGED connVars, NEW x \in Sides, x = "server", accept
    PROVE  /\ Alone(x) /\ KeepsStream(x) /\ KeepsNet(x) /\ KeepsWrites(x) /\ added' = added
           /\ phase[x] = "new" /\ phase'[x] = "reading" /\ (gone'[x] <=> gone[x])
           /\ phase["client"] \notin {"new", "unreachable"}
BY Peers DEF Domains, connVars, accept, Alone, KeepsStream, KeepsNet, KeepsWrites

\* what a flush of the transport does,
LEMMA FlushEffect ==
    ASSUME Domains, UNCHANGED connVars, NEW x \in Sides, x = "client", Flush
    PROVE  /\ Alone(x) /\ KeepsStream(x) /\ inbuf' = inbuf /\ todo' = todo /\ added' = added
           /\ phase[x] = "flushing" /\ phase'[x] = "reading" /\ (gone'[x] <=> gone[x])
           /\ net'[x] = net[x] \o out[x] /\ out'[x] = <<>> /\ net'[Peer(x)] = net[Peer(x)]
BY Peers DEF Domains, connVars, Flush, Alone, KeepsStream

\* what a write of the rest of the message does,
LEMMA WriteEffect ==
    ASSUME Domains, UNCHANGED connVars, NEW x \in Sides, Write(x)
    PROVE  /\ Alone(x) /\ KeepsStream(x) /\ KeepsNet(x) /\ added' = added
           /\ phase[x] \in {"writing", "replying", "refusing"} /\ todo[x] # <<>>
           /\ todo'[x] = Tail(todo[x])
           /\ \/ /\ phase[x] = "refusing" /\ Len(todo[x]) = 1
                 /\ Leaves(x, "failed", Append(out[x], Head(todo[x])))
              \/ /\ out'[x] = Append(out[x], Head(todo[x])) /\ (gone'[x] <=> gone[x])
                 /\ Len(todo[x]) # 1 /\ phase'[x] = phase[x]
              \/ /\ out'[x] = Append(out[x], Head(todo[x])) /\ (gone'[x] <=> gone[x])
                 /\ phase[x] # "refusing" /\ Len(todo[x]) = 1
                 /\ phase'[x] = IF x = "client" THEN "flushing" ELSE "open"
<1> DEFINE written == Append(out[x], Head(todo[x]))
<1> HIDE DEF written
<1>1. CASE phase[x] = "refusing" /\ Len(todo[x]) = 1 /\ Drop(x, "failed", written)
    BY <1>1, Peers DEF Domains, connVars, Write, Drop, Alone, KeepsStream, KeepsNet, Leaves, written
<1>2. CASE out' = [out EXCEPT ![x] = written] /\ UNCHANGED gone /\ Len(todo[x]) # 1 /\ phase' = phase
    BY <1>2, Peers DEF Domains, connVars, Write, Alone, KeepsStream, KeepsNet, written
<1>3. CASE /\ out' = [out EXCEPT ![x] = written] /\ UNCHANGED gone
           /\ phase[x] # "refusing" /\ Len(todo[x]) = 1
           /\ phase' = [phase EXCEPT ![x] = IF x = "client" THEN "flushing" ELSE "open"]
    BY <1>3, Peers DEF Domains, connVars, Write, Alone, KeepsStream, KeepsNet, written
<1> QED
    BY <1>1, <1>2, <1>3 DEF Write, written

\* what an error of that write does,
LEMMA WriteErrorEffect ==
    ASSUME Domains, UNCHANGED connVars, NEW x \in Sides, WriteError(x)
    PROVE  /\ Alone(x) /\ KeepsStream(x) /\ KeepsNet(x) /\ todo'[x] = todo[x] /\ added' = added
           /\ phase[x] \in {"writing", "flushing", "replying", "refusing"} /\ gone[Peer(x)]
           /\ Leaves(x, "failed", out[x])
BY Peers DEF Domains, connVars, WriteError, Drop, Alone, KeepsStream, KeepsNet, Leaves

\* what the end of the input does to a handshake,
LEMMA ReadEofEffect ==
    ASSUME Domains, UNCHANGED connVars, NEW x \in Sides, ReadEof(x)
    PROVE  /\ Alone(x) /\ KeepsStream(x) /\ KeepsNet(x) /\ added' = added
           /\ phase[x] = "reading" /\ gone[Peer(x)]
           /\ \/ /\ x = "server" /\ phase'[x] = "refusing" /\ todo'[x] = Units(BAD_REQUEST)
                 /\ out'[x] = out[x] /\ (gone'[x] <=> gone[x])
              \/ Leaves(x, "failed", out[x]) /\ todo'[x] = todo[x]
<1> DEFINE refused == Units(BAD_REQUEST)
<1> HIDE DEF refused
<1>1. CASE /\ x = "server" /\ phase' = [phase EXCEPT ![x] = "refusing"]
           /\ todo' = [todo EXCEPT ![x] = refused] /\ UNCHANGED <<out, gone>>
    BY <1>1, Peers DEF Domains, connVars, ReadEof, EndOfInput, Alone, KeepsStream, KeepsNet, refused
<1>2. CASE Drop(x, "failed", out[x]) /\ UNCHANGED todo
    BY <1>2, Peers DEF Domains, connVars, ReadEof, EndOfInput, Drop, Alone, KeepsStream, KeepsNet, Leaves
<1> QED
    BY <1>1, <1>2 DEF ReadEof, refused

\* what the transport does when it sends on by itself,
LEMMA SpillEffect ==
    ASSUME Domains, UNCHANGED connVars, NEW x \in Sides, Spill(x)
    PROVE  /\ Alone(x) /\ KeepsStream(x) /\ inbuf' = inbuf /\ todo' = todo /\ added' = added /\ Stays(x)
           /\ out[x] # <<>> /\ out'[x] = Tail(out[x]) /\ net'[x] = Append(net[x], Head(out[x]))
           /\ net'[Peer(x)] = net[Peer(x)]
BY Peers DEF Domains, connVars, Spill, Alone, KeepsStream, Stays

\* what another implementation does when it begins,
LEMMA ForeignSendEffect ==
    ASSUME Domains, UNCHANGED connVars, NEW x \in Sides, NEW m, ForeignSend(x, m)
    PROVE  /\ Alone(x) /\ KeepsStream(x) /\ inbuf' = inbuf /\ KeepsWrites(x) /\ added' = added
           /\ phase[x] = "foreign" /\ phase'[x] = "foreign open" /\ (gone'[x] <=> gone[x])
           /\ net'[x] = net[x] \o Units(m) /\ net'[Peer(x)] = net[Peer(x)]
BY Peers DEF Domains, connVars, ForeignSend, Alone, KeepsStream, KeepsWrites

\* and when it leaves,
LEMMA ForeignLeaveEffect ==
    ASSUME Domains, UNCHANGED connVars, NEW x \in Sides, ForeignLeave(x)
    PROVE  /\ Alone(x) /\ KeepsStream(x) /\ KeepsNet(x) /\ todo'[x] = todo[x] /\ added' = added
           /\ phase[x] \in {"foreign", "foreign open"} /\ Leaves(x, "foreign gone", <<>>)
BY Peers DEF Domains, connVars, ForeignLeave, Drop, Alone, KeepsStream, KeepsNet, Leaves

\* what the drop of the handshake future does,
LEMMA CancelEffect ==
    ASSUME Domains, UNCHANGED connVars, NEW x \in Sides, Cancel(x)
    PROVE  /\ Alone(x) /\ KeepsStream(x) /\ KeepsNet(x) /\ todo'[x] = todo[x] /\ added' = added
           /\ phase[x] \in {"connected", "writing", "flushing", "reading", "replying", "refusing"}
           /\ Leaves(x, "cancelled", out[x])
BY Peers DEF Domains, connVars, Cancel, Drop, Alone, KeepsStream, KeepsNet, Leaves

\* What may come of a read: more is needed, the request is refused, the response
\* is not accepted, the request is answered, the response is accepted.
ReadUnits(x, n) == inbuf[x] \o SubSeq(net[Peer(x)], 1, n)
GoesOn(x, u) == inbuf'[x] = u /\ Stays(x) /\ KeepsWrites(x)
Refuses(x, u) ==
    /\ Fails(x, u[1].msg) /\ inbuf'[x] = u
    /\ x = "server" /\ phase'[x] = "refusing" /\ todo'[x] = Units(BAD_REQUEST)
    /\ out'[x] = out[x] /\ (gone'[x] <=> gone[x])
GivesUp(x, u) ==
    /\ Fails(x, u[1].msg) /\ inbuf'[x] = u
    /\ x = "client" /\ Leaves(x, "failed", out[x]) /\ todo'[x] = todo[x]
Accepts(x, u) == ~Incomplete(u) /\ ~Fails(x, u[1].msg) /\ inbuf'[x] = Advance(u)
Replies(x, u) ==
    /\ Accepts(x, u) /\ x = "server" /\ phase'[x] = "replying"
    /\ todo'[x] =
        Units(SwitchingProtocols(digest(LastValue(u[1].msg, "sec-websocket-key"))))
    /\ out'[x] = out[x] /\ (gone'[x] <=> gone[x])
Opens(x, u) ==
    Accepts(x, u) /\ x = "client" /\ phase'[x] = "open" /\ KeepsWrites(x) /\ (gone'[x] <=> gone[x])

\* and what a read of a handshake does: it goes on, refuses or accepts.
LEMMA ReadEffect ==
    ASSUME Domains, UNCHANGED connVars, NEW x \in Sides, NEW n, Read(x, n)
    PROVE  /\ Alone(x) /\ KeepsStream(x) /\ added' = added
           /\ phase[x] = "reading" /\ n \in 1..Len(net[Peer(x)])
           /\ net'[x] = net[x]
           /\ net'[Peer(x)] = SubSeq(net[Peer(x)], n + 1, Len(net[Peer(x)]))
           /\ \/ GoesOn(x, ReadUnits(x, n)) \/ Refuses(x, ReadUnits(x, n))
              \/ GivesUp(x, ReadUnits(x, n)) \/ Replies(x, ReadUnits(x, n))
              \/ Opens(x, ReadUnits(x, n))
<1> DEFINE y == Peer(x)
           units == ReadUnits(x, n)
           m == units[1].msg
           fails == Fails(x, m)
           partial == Incomplete(units)
           rest == Advance(units)
           tail == SubSeq(net[y], n + 1, Len(net[y]))
           refusal == Units(BAD_REQUEST)
           reply == Units(SwitchingProtocols(digest(LastValue(m, "sec-websocket-key"))))
           Common == /\ phase[x] = "reading" /\ n \in 1..Len(net[y])
                     /\ net' = [net EXCEPT ![y] = tail]
                     /\ UNCHANGED <<uri, key, added>>
<1>0. Common
    BY DEF Read
<1>1. \/ inbuf' = [inbuf EXCEPT ![x] = units] /\ UNCHANGED <<phase, todo, out, gone>>
      \/ /\ fails /\ inbuf' = [inbuf EXCEPT ![x] = units]
         /\ x = "server" /\ phase' = [phase EXCEPT ![x] = "refusing"]
         /\ todo' = [todo EXCEPT ![x] = refusal] /\ UNCHANGED <<out, gone>>
      \/ /\ fails /\ inbuf' = [inbuf EXCEPT ![x] = units]
         /\ x = "client" /\ Drop(x, "failed", out[x]) /\ UNCHANGED todo
      \/ /\ ~partial /\ ~fails /\ inbuf' = [inbuf EXCEPT ![x] = rest]
         /\ x = "server" /\ phase' = [phase EXCEPT ![x] = "replying"]
         /\ todo' = [todo EXCEPT ![x] = reply] /\ UNCHANGED <<out, gone>>
      \/ /\ ~partial /\ ~fails /\ inbuf' = [inbuf EXCEPT ![x] = rest]
         /\ x = "client" /\ phase' = [phase EXCEPT ![x] = "open"] /\ UNCHANGED <<todo, out, gone>>
    BY Zenon DEF Read, ReadUnits
<1> HIDE DEF units, m, fails, partial, rest, tail, refusal, reply
<1>2. /\ KeepsStream(x) /\ added' = added /\ uri' = uri /\ key' = key
      /\ net'[x] = net[x] /\ net'[y] = tail
    BY <1>0, Peers DEF Domains, connVars, KeepsStream
<1>3. CASE inbuf' = [inbuf EXCEPT ![x] = units] /\ UNCHANGED <<phase, todo, out, gone>>
  <2>1. Alone(x) /\ Stays(x) /\ KeepsWrites(x) /\ inbuf'[x] = units
    BY <1>0, <1>2, <1>3, Peers DEF Domains, connVars, Alone, Stays, KeepsWrites
  <2> QED
    BY <1>0, <1>2, <2>1 DEF GoesOn, units, tail
<1>4. CASE /\ fails /\ inbuf' = [inbuf EXCEPT ![x] = units]
           /\ x = "server" /\ phase' = [phase EXCEPT ![x] = "refusing"]
           /\ todo' = [todo EXCEPT ![x] = refusal] /\ UNCHANGED <<out, gone>>
  <2>1. /\ Alone(x) /\ inbuf'[x] = units /\ phase'[x] = "refusing" /\ todo'[x] = refusal
        /\ out'[x] = out[x] /\ (gone'[x] <=> gone[x])
    BY <1>0, <1>2, <1>4, Peers DEF Domains, connVars, Alone
  <2> QED
    BY <1>0, <1>2, <1>4, <2>1 DEF Refuses, units, tail, refusal, fails, m
<1>5. CASE /\ fails /\ inbuf' = [inbuf EXCEPT ![x] = units]
           /\ x = "client" /\ Drop(x, "failed", out[x]) /\ UNCHANGED todo
  <2>1. Alone(x) /\ inbuf'[x] = units /\ Leaves(x, "failed", out[x]) /\ todo'[x] = todo[x]
    BY <1>0, <1>2, <1>5, Peers DEF Domains, connVars, Alone, Drop, Leaves
  <2> QED
    BY <1>0, <1>2, <1>5, <2>1 DEF GivesUp, units, tail, fails, m
<1>6. CASE /\ ~partial /\ ~fails /\ inbuf' = [inbuf EXCEPT ![x] = rest]
           /\ x = "server" /\ phase' = [phase EXCEPT ![x] = "replying"]
           /\ todo' = [todo EXCEPT ![x] = reply] /\ UNCHANGED <<out, gone>>
  <2>1. /\ Alone(x) /\ inbuf'[x] = rest /\ phase'[x] = "replying" /\ todo'[x] = reply
        /\ out'[x] = out[x] /\ (gone'[x] <=> gone[x])
    BY <1>0, <1>2, <1>6, Peers DEF Domains, connVars, Alone
  <2> QED
    BY <1>0, <1>2, <1>6, <2>1 DEF Replies, Accepts, units, tail, rest, partial, reply, fails, m
<1>7. CASE /\ ~partial /\ ~fails /\ inbuf' = [inbuf EXCEPT ![x] = rest]
           /\ x = "client" /\ phase' = [phase EXCEPT ![x] = "open"] /\ UNCHANGED <<todo, out, gone>>
  <2>1. /\ Alone(x) /\ inbuf'[x] = rest /\ phase'[x] = "open" /\ KeepsWrites(x)
        /\ (gone'[x] <=> gone[x])
    BY <1>0, <1>2, <1>7, Peers DEF Domains, connVars, Alone, KeepsWrites
  <2> QED
    BY <1>0, <1>2, <1>7, <2>1 DEF Opens, Accepts, units, tail, rest, partial, fails, m
<1> QED
    BY <1>1, <1>3, <1>4, <1>5, <1>6, <1>7

\* The end of x after frames fs were queued.
Queues(x, fs) ==
    /\ DOMAIN ends'[x] = Fields
    /\ ends'[x].queued = ends[x].queued \o fs
    /\ ends'[x].written = ends[x].written
    /\ ends'[x].ended = ends[x].ended

\* The end of x after a frame that ends the exchange: it answers with f, or it
\* is done as w says.
Closed(x, f, w) ==
    /\ DOMAIN ends'[x] = Fields /\ ends'[x].written = ends[x].written
    /\ \/ /\ ends[x].state = "ClosedByUs" /\ ends'[x].queued = ends[x].queued
          /\ ends'[x].state = "CloseAcknowledged" /\ ends'[x].ended = w
       \/ /\ ends[x].state = "Active" /\ ends'[x].queued = ends[x].queued \o <<f>>
          /\ ends'[x].state = "ClosedByPeer" /\ ends'[x].ended = ends[x].ended

\* What start_send does to the two streams,
LEMMA StartSendEffect ==
    ASSUME Domains, NEW x \in Sides, DOMAIN ends[x] = Fields, start_send(x)
    PROVE  /\ Alone(x) /\ got'[x] = got[x] /\ KeepsNet(x) /\ KeepsWrites(x) /\ added' = added /\ Stays(x)
           /\ phase[x] = "open" /\ ends[x].state = "Active"
           /\ \E f \in Sends[x] :
                LET g == IF f.op = "Close" THEN f ELSE [f EXCEPT !.v = Len(ends[x].queued) + 1]
                IN  /\ Queues(x, <<g>>)
                    /\ ends'[x].state = IF g.op = "Close" THEN "ClosedByUs" ELSE "Active"
<1>1. PICK f \in Sends[x] :
        ends' = [ends EXCEPT ![x] = At(x)!Queued(
            <<IF f.op = "Close" THEN f ELSE [f EXCEPT !.v = Len(ends[x].queued) + 1]>>)]
    BY DEF start_send
<1> DEFINE g == IF f.op = "Close" THEN f ELSE [f EXCEPT !.v = Len(ends[x].queued) + 1]
<1> HIDE DEF g
<1>2. ends' = [ends EXCEPT ![x] = At(x)!Queued(<<g>>)]
    BY <1>1 DEF g
<1>3. ends'[x] = At(x)!Queued(<<g>>) /\ ends'[Peer(x)] = ends[Peer(x)] /\ DOMAIN ends' = Sides
    BY <1>2, Peers DEF Domains
<1>4. Closes(<<g>>) <=> g.op = "Close"
    BY DEF Closes
<1>5. Queues(x, <<g>>) /\ ends'[x].state = IF g.op = "Close" THEN "ClosedByUs" ELSE "Active"
  <2>1. ends[x].state = "Active"
    BY DEF start_send
  <2> DEFINE fs == <<g>>
  <2> HIDE DEF fs
  <2>0. ends'[x] = At(x)!Queued(fs)
    BY <1>3 DEF fs
  <2>2. /\ DOMAIN At(x)!Queued(fs) = Fields
        /\ At(x)!Queued(fs).queued = ends[x].queued \o fs
        /\ At(x)!Queued(fs).written = ends[x].written
        /\ At(x)!Queued(fs).ended = ends[x].ended
    BY QueuedFields
  <2>4. Queues(x, fs)
    BY <2>0, <2>2 DEF Queues
  <2>3. ends'[x].state = IF Closes(fs) /\ ends[x].state # "ClosedByPeer"
                         THEN "ClosedByUs" ELSE ends[x].state
    BY <2>0, QueuedFields
  <2> QED
    BY <1>4, <2>1, <2>4, <2>3 DEF fs
<1>6. Alone(x) /\ got'[x] = got[x] /\ KeepsNet(x) /\ KeepsWrites(x) /\ added' = added /\ Stays(x)
    BY <1>3, Peers DEF Domains, start_send, handVars, Alone, KeepsNet, KeepsWrites, Stays
<1> QED
    BY <1>5, <1>6 DEF start_send, g

\* what the first call of poll_close does,
LEMMA PollCloseEffect ==
    ASSUME Domains, NEW x \in Sides, DOMAIN ends[x] = Fields, poll_close(x)
    PROVE  /\ Alone(x) /\ got'[x] = got[x] /\ KeepsNet(x) /\ KeepsWrites(x) /\ added' = added
           /\ phase[x] = "open" /\ phase'[x] = "closing" /\ (gone'[x] <=> gone[x])
           /\ \/ /\ ends[x].state = "Active" /\ Queues(x, <<DEFAULT_CLOSE>>)
                 /\ ends'[x].state = "ClosedByUs"
              \/ ends[x].state # "Active" /\ ends'[x] = ends[x]
<1>1. /\ ends'[x] = IF ends[x].state = "Active" THEN At(x)!Queued(<<DEFAULT_CLOSE>>) ELSE ends[x]
      /\ ends'[Peer(x)] = ends[Peer(x)] /\ DOMAIN ends' = Sides
    BY Peers DEF Domains, poll_close
<1>2. Closes(<<DEFAULT_CLOSE>>)
    BY DEF Closes, DEFAULT_CLOSE, Frame
<1>3. \/ /\ ends[x].state = "Active" /\ Queues(x, <<DEFAULT_CLOSE>>)
         /\ ends'[x].state = "ClosedByUs"
      \/ ends[x].state # "Active" /\ ends'[x] = ends[x]
    BY <1>1, <1>2, QueuedFields DEF Queues
<1>4. /\ Alone(x) /\ got'[x] = got[x] /\ KeepsNet(x) /\ KeepsWrites(x) /\ added' = added
      /\ phase'[x] = "closing" /\ (gone'[x] <=> gone[x])
    BY <1>1, Peers DEF Domains, poll_close, handVars, Alone, KeepsNet, KeepsWrites
<1> QED
    BY <1>3, <1>4 DEF poll_close

\* what the write of one frame of the queue does,
LEMMA WriteFrameEffect ==
    ASSUME Domains, NEW x \in Sides, DOMAIN ends[x] = Fields, WriteFrame(x)
    PROVE  /\ Alone(x) /\ got'[x] = got[x] /\ inbuf' = inbuf /\ todo' = todo /\ added' = added /\ Stays(x)
           /\ IsOpen(x) /\ ~Flushed(x) /\ DOMAIN ends'[x] = Fields
           /\ ends'[x].state = ends[x].state /\ ends'[x].queued = ends[x].queued
           /\ ends'[x].written = ends[x].written + 1 /\ ends'[x].ended = ends[x].ended
           /\ net'[x] = (net[x] \o out[x]) \o <<ends[x].queued[ends[x].written + 1]>>
           /\ out'[x] = <<>> /\ net'[Peer(x)] = net[Peer(x)]
<1>1. /\ ends'[x] = At(x)!Written(ends[x].written + 1)
      /\ ends'[Peer(x)] = ends[Peer(x)] /\ DOMAIN ends' = Sides
    BY Peers DEF Domains, WriteFrame
<1>2. /\ DOMAIN ends'[x] = Fields
      /\ ends'[x].state = ends[x].state /\ ends'[x].queued = ends[x].queued
      /\ ends'[x].written = ends[x].written + 1 /\ ends'[x].ended = ends[x].ended
    BY <1>1, WrittenFields
<1>3. net' = [net EXCEPT ![x] = net[x] \o out[x] \o <<ends[x].queued[ends[x].written + 1]>>]
    BY <1>2 DEF WriteFrame
<1> DEFINE sent == net[x] \o out[x] \o <<ends[x].queued[ends[x].written + 1]>>
<1> HIDE DEF sent
<1>4. net'[x] = sent /\ net'[Peer(x)] = net[Peer(x)] /\ DOMAIN net' = Sides
    BY <1>3, Peers DEF Domains, sent
<1>5. /\ Alone(x) /\ got'[x] = got[x] /\ inbuf' = inbuf /\ todo' = todo /\ added' = added
      /\ Stays(x) /\ out'[x] = <<>>
    BY <1>1, <1>4, Peers DEF Domains, WriteFrame, handVars, Alone, Stays
<1> QED
    BY <1>2, <1>4, <1>5 DEF WriteFrame, sent

\* The end of x after reading or writing has failed.
StreamFails(x) ==
    /\ DOMAIN ends'[x] = Fields /\ ends'[x].state = "CloseAcknowledged"
    /\ ends'[x].queued = ends[x].queued /\ ends'[x].written = ends[x].written
    /\ ends'[x].ended = IF ends[x].ended = "no" THEN "error" ELSE ends[x].ended

\* what an error of that write does,
LEMMA WriteFailsEffect ==
    ASSUME Domains, NEW x \in Sides, DOMAIN ends[x] = Fields, WriteFails(x)
    PROVE  /\ Alone(x) /\ got'[x] = got[x] /\ KeepsNet(x) /\ todo'[x] = todo[x] /\ added' = added
           /\ IsOpen(x) /\ ~Flushed(x) /\ Reset(Peer(x)) /\ StreamFails(x)
           /\ \/ Leaves(x, "closed", out[x])
              \/ Stays(x) /\ out'[x] = out[x]
<1>1. /\ ends'[x] = At(x)!Failed(ends[x].written)
      /\ ends'[Peer(x)] = ends[Peer(x)] /\ DOMAIN ends' = Sides
    BY Peers DEF Domains, WriteFails
<1>2. StreamFails(x)
    BY <1>1, FailedFields DEF StreamFails
<1>3. CASE Drop(x, "closed", out[x])
  <2>1. /\ Alone(x) /\ got'[x] = got[x] /\ KeepsNet(x) /\ todo'[x] = todo[x] /\ added' = added
        /\ Leaves(x, "closed", out[x])
    BY <1>1, <1>3, Peers DEF Domains, WriteFails, handVars, Drop, Alone, KeepsNet, Leaves
  <2> QED
    BY <1>2, <2>1 DEF WriteFails
<1>4. CASE UNCHANGED <<phase, gone, out>>
  <2>1. /\ Alone(x) /\ got'[x] = got[x] /\ KeepsNet(x) /\ todo'[x] = todo[x] /\ added' = added
        /\ Stays(x) /\ out'[x] = out[x]
    BY <1>1, <1>4, Peers DEF Domains, WriteFails, handVars, Alone, KeepsNet, Stays
  <2> QED
    BY <1>2, <2>1 DEF WriteFails
<1> QED
    BY <1>3, <1>4 DEF WriteFails

\* what an error of a read does,
LEMMA ReadFailsEffect ==
    ASSUME Domains, NEW x \in Sides, DOMAIN ends[x] = Fields, ReadFails(x)
    PROVE  /\ Alone(x) /\ got'[x] = got[x] /\ KeepsNet(x) /\ KeepsWrites(x) /\ added' = added /\ Stays(x)
           /\ IsOpen(x) /\ Reset(Peer(x)) /\ StreamFails(x)
<1>1. /\ ends'[x] = At(x)!Failed(ends[x].written)
      /\ ends'[Peer(x)] = ends[Peer(x)] /\ DOMAIN ends' = Sides
    BY Peers DEF Domains, ReadFails
<1>2. StreamFails(x)
    BY <1>1, FailedFields DEF StreamFails
<1> QED
    BY <1>1, <1>2, Peers DEF Domains, ReadFails, handVars, Alone, KeepsNet, KeepsWrites, Stays

\* what the acknowledgement of a close frame does,
LEMMA AcknowledgeEffect ==
    ASSUME Domains, NEW x \in Sides, DOMAIN ends[x] = Fields, Acknowledge(x)
    PROVE  /\ Alone(x) /\ got'[x] = got[x] /\ KeepsNet(x) /\ KeepsWrites(x) /\ added' = added /\ Stays(x)
           /\ IsOpen(x) /\ ends[x].state = "ClosedByPeer" /\ DOMAIN ends'[x] = Fields
           /\ ends'[x].state = "CloseAcknowledged" /\ ends'[x].queued = ends[x].queued
           /\ ends'[x].written = ends[x].written /\ ends'[x].ended = "peer"
<1>1. /\ ends'[x] = At(x)!Acknowledged
      /\ ends'[Peer(x)] = ends[Peer(x)] /\ DOMAIN ends' = Sides
    BY Peers DEF Domains, Acknowledge
<1>2. /\ DOMAIN ends'[x] = Fields
      /\ ends'[x].state = "CloseAcknowledged" /\ ends'[x].queued = ends[x].queued
      /\ ends'[x].written = ends[x].written /\ ends'[x].ended = "peer"
    BY <1>1, AcknowledgedFields DEF Acknowledge, Flushed
<1>3. /\ Alone(x) /\ got'[x] = got[x] /\ KeepsNet(x) /\ KeepsWrites(x) /\ added' = added /\ Stays(x)
    BY <1>1, Peers DEF Domains, Acknowledge, handVars, Alone, KeepsNet, KeepsWrites, Stays
<1> QED
    BY <1>2, <1>3 DEF Acknowledge

\* what the shutdown of the transport does,
LEMMA PollShutdownEffect ==
    ASSUME Domains, NEW x \in Sides, poll_shutdown(x)
    PROVE  /\ Alone(x) /\ KeepsStream(x) /\ KeepsNet(x) /\ todo'[x] = todo[x] /\ added' = added
           /\ phase[x] = "closing" /\ ReadsNothing(x) /\ Flushed(x) /\ Leaves(x, "shut", out[x])
BY Peers DEF Domains, poll_shutdown, handVars, Drop, Alone, KeepsStream, KeepsNet, Leaves

\* what the drop of the stream does,
LEMMA DropStreamEffect ==
    ASSUME Domains, NEW x \in Sides, DropStream(x)
    PROVE  /\ Alone(x) /\ KeepsStream(x) /\ KeepsNet(x) /\ todo'[x] = todo[x] /\ added' = added
           /\ IsOpen(x) /\ Leaves(x, "closed", out[x])
BY Peers DEF Domains, DropStream, handVars, Drop, Alone, KeepsStream, KeepsNet, Leaves

\* what another implementation does that sends a frame,
LEMMA ForeignFrameEffect ==
    ASSUME Domains, NEW x \in Sides, NEW f, DOMAIN ends[x] = Fields, ForeignFrame(x, f)
    PROVE  /\ Alone(x) /\ got'[x] = got[x] /\ inbuf' = inbuf /\ KeepsWrites(x) /\ added' = added /\ Stays(x)
           /\ phase[x] = "foreign open" /\ DOMAIN ends'[x] = Fields
           /\ ends'[x].state = ends[x].state /\ ends'[x].ended = ends[x].ended
           /\ ends'[x].queued = Append(ends[x].queued, f)
           /\ ends'[x].written = ends[x].written + 1
           /\ net'[x] = Append(net[x], f) /\ net'[Peer(x)] = net[Peer(x)]
<1>1. /\ DOMAIN ends'[x] = Fields
      /\ ends'[x].state = ends[x].state /\ ends'[x].ended = ends[x].ended
      /\ ends'[x].queued = Append(ends[x].queued, f)
      /\ ends'[x].written = ends[x].written + 1
      /\ ends'[Peer(x)] = ends[Peer(x)] /\ DOMAIN ends' = Sides
    BY Peers DEF Domains, ForeignFrame, Fields
<1>2. /\ Alone(x) /\ got'[x] = got[x] /\ inbuf' = inbuf /\ KeepsWrites(x) /\ added' = added /\ Stays(x)
      /\ net'[x] = Append(net[x], f) /\ net'[Peer(x)] = net[Peer(x)]
    BY <1>1, Peers DEF Domains, ForeignFrame, handVars, Alone, KeepsWrites, Stays
<1> QED
    BY <1>1, <1>2 DEF ForeignFrame

\* that reads one,
LEMMA ForeignReadEffect ==
    ASSUME Domains, NEW x \in Sides, ForeignRead(x)
    PROVE  /\ Alone(x) /\ KeepsStream(x) /\ inbuf' = inbuf /\ KeepsWrites(x) /\ added' = added /\ Stays(x)
           /\ phase[x] = "foreign open" /\ net'[Peer(x)] = <<>> /\ net'[x] = net[x]
BY Peers DEF Domains, ForeignRead, handVars, Alone, KeepsStream, KeepsWrites, Stays

\* and what poll_next_frame does with the frame it finds.
LEMMA PollNextFrameEffect ==
    ASSUME Domains, NEW x \in Sides, IsEnd(ends[x]), poll_next_frame(x)
    PROVE  LET f == Head(Arrived(x))
               code == ErrorCode(x, f)
               rest == IF inbuf[x] = <<>> THEN <<>> ELSE Tail(inbuf[x])
           IN  /\ Alone(x) /\ KeepsWrites(x) /\ added' = added /\ Stays(x)
               /\ IsOpen(x) /\ ends[x].state \in {"Active", "ClosedByUs"} /\ Arrived(x) # <<>>
               /\ net'[x] = net[x]
               /\ net'[Peer(x)] = IF inbuf[x] = <<>> THEN Tail(net[Peer(x)]) ELSE net[Peer(x)]
               /\ \/ /\ code # 0 /\ got'[x] = got[x] /\ inbuf'[x] = <<f>> \o rest
                     /\ Closed(x, Frame("Close", code), "error")
                  \/ /\ code = 0 /\ f.op = "Close"
                     /\ got'[x] = Append(got[x], f) /\ inbuf'[x] = rest
                     /\ Closed(x, f, "us")
                  \/ /\ code = 0 /\ f.op # "Close"
                     /\ got'[x] = Append(got[x], f) /\ inbuf'[x] = rest
                     /\ \/ ends'[x] = ends[x]
                        \/ /\ ends[x].state = "Active" /\ ends'[x].state = "Active"
                           /\ Queues(x, <<Frame("Pong", f.v)>>)
<1> DEFINE y == Peer(x)
           f == Head(Arrived(x))
           code == ErrorCode(x, f)
           rest == IF inbuf[x] = <<>> THEN <<>> ELSE Tail(inbuf[x])
           after == CASE code # 0 -> At(x)!Rejected(Frame("Close", code))
                      [] code = 0 /\ f.op = "Close" -> At(x)!CloseReceived(f)
                      [] code = 0 /\ f.op = "Ping" -> At(x)!PingReceived(Frame("Pong", f.v))
                      [] OTHER -> ends[x]
<1>1. /\ IsOpen(x) /\ ends[x].state \in {"Active", "ClosedByUs"} /\ Arrived(x) # <<>>
      /\ net' = [net EXCEPT ![y] = IF inbuf[x] = <<>> THEN Tail(net[y]) ELSE net[y]]
      /\ inbuf' = [inbuf EXCEPT ![x] = IF code = 0 THEN rest ELSE <<f>> \o rest]
      /\ got' = [got EXCEPT ![x] = IF code = 0 THEN Append(got[x], f) ELSE got[x]]
      /\ ends' = [ends EXCEPT ![x] = after]
      /\ UNCHANGED <<handVars, phase, out, gone>>
    BY Zenon DEF poll_next_frame, At!Reads
<1> HIDE DEF f, code, rest, after
<1>2. /\ Alone(x) /\ KeepsWrites(x) /\ added' = added /\ Stays(x)
      /\ net'[x] = net[x]
      /\ net'[y] = IF inbuf[x] = <<>> THEN Tail(net[y]) ELSE net[y]
      /\ inbuf'[x] = IF code = 0 THEN rest ELSE <<f>> \o rest
      /\ got'[x] = IF code = 0 THEN Append(got[x], f) ELSE got[x]
      /\ ends'[x] = after
    BY <1>1, Peers DEF Domains, handVars, Alone, KeepsWrites, Stays
<1>3. DOMAIN ends[x] = Fields /\ IsSeq(ends[x].queued)
    BY DEF IsEnd
<1>4. CASE code # 0
  <2>1. ends'[x] = At(x)!Rejected(Frame("Close", code))
    BY <1>2, <1>4 DEF after
  <2>2. Closed(x, Frame("Close", code), "error")
    BY <1>1, <1>3, <2>1, RejectedFields, AppendFacts DEF Closed
  <2> QED
    BY <1>1, <1>2, <1>4, <2>2 DEF f, code, rest
<1>5. CASE code = 0 /\ f.op = "Close"
  <2>1. ends'[x] = At(x)!CloseReceived(f)
    BY <1>2, <1>5 DEF after
  <2>2. Closed(x, f, "us")
    BY <1>1, <1>3, <2>1, CloseReceivedFields, AppendFacts DEF Closed
  <2> QED
    BY <1>1, <1>2, <1>5, <2>2 DEF f, code, rest
<1>6. CASE code = 0 /\ f.op # "Close"
  <2>1. \/ ends'[x] = ends[x]
        \/ ends'[x] = At(x)!PingReceived(Frame("Pong", f.v))
    BY <1>2, <1>6 DEF after
  <2>2. \/ ends'[x] = ends[x]
        \/ /\ ends[x].state = "Active" /\ ends'[x].state = "Active"
           /\ Queues(x, <<Frame("Pong", f.v)>>)
    <3> DEFINE pong == Frame("Pong", f.v)
    <3>1. pong.op = "Pong"
      BY DEF Frame
    <3> HIDE DEF pong
    <3>2. CASE ends'[x] = At(x)!PingReceived(pong) /\ ends[x].state = "Active"
      BY <1>3, <3>1, <3>2, PingReceivedFields DEF Queues, pong
    <3>3. CASE ends'[x] = At(x)!PingReceived(pong) /\ ends[x].state # "Active"
      BY <3>3 DEF At!PingReceived
    <3> QED
      BY <2>1, <3>2, <3>3 DEF pong
  <2> QED
    BY <1>1, <1>2, <1>6, <2>2 DEF f, code, rest
<1> QED
    BY <1>4, <1>5, <1>6

-----------------------------------------------------------------------------
(* Types and the progress of each side.                                    *)

\* A step of x that keeps its own part keeps the other's, too: x only reads
\* what was sent.
LEMMA OtherSide ==
    ASSUME ProgressInv, NEW x \in Sides, Alone(x), TypeOf(x)', Progress(x)',
           IsSeq(net'[Peer(x)]),
           \/ net'[Peer(x)] = net[Peer(x)] /\ inbuf'[x] = inbuf[x]
           \/ ~Unsent(Peer(x))
    PROVE  ProgressInv'
<1> DEFINE y == Peer(x)
<1>1. TypeOf(y)'
    BY Peers DEF ProgressInv, TypeOK, TypeOf, Alone
<1>2. Progress(y)'
  <2>1. y \in Sides /\ Peer(y) = x
    BY Peers
  <2>2. Progress(y)
    BY <2>1 DEF ProgressInv
  <2>3. Unsent(y)' => Unsent(y)
    BY DEF Alone, Unsent
  <2>4. Unsent(y)' => net'[y] = net[y] /\ inbuf'[x] = inbuf[x]
    BY <2>3
  <2> QED
    BY <2>1, <2>2, <2>3, <2>4 DEF Progress, Alone, IsForeign, Flushed
<1>3. ASSUME NEW z \in Sides
      PROVE  TypeOf(z)' /\ Progress(z)'
  <2>1. CASE z = x
    BY <2>1
  <2>2. CASE z = y
    BY <1>1, <1>2, <2>2
  <2> QED
    BY <2>1, <2>2, Peers
<1> QED
    BY <1>3 DEF ProgressInv, TypeOK, Alone

\* What ProgressInv says of one side.
LEMMA Parts ==
    ASSUME ProgressInv, NEW x \in Sides
    PROVE  /\ Domains /\ TypeOf(x) /\ Progress(x) /\ DOMAIN ends[x] = Fields /\ IsEnd(ends[x])
           /\ Peer(x) \in Sides /\ TypeOf(Peer(x)) /\ Progress(Peer(x)) /\ IsSeq(net[Peer(x)])
BY Peers DEF ProgressInv, TypeOK, TypeOf, IsEnd

\* Each step keeps ProgressInv: add_header,
LEMMA AddHeaderProgress ==
    ASSUME ProgressInv, UNCHANGED connVars, NEW x \in Sides, NEW name, add_header(x, name)
    PROVE  ProgressInv'
<1>1. Domains /\ TypeOf(x) /\ Progress(x) /\ IsSeq(net[Peer(x)])
    BY Parts
<1>2. Alone(x) /\ KeepsStream(x) /\ KeepsNet(x) /\ KeepsWrites(x) /\ Stays(x)
    BY <1>1, AddHeaderEffect
<1>3. TypeOf(x)'
    BY <1>1, <1>2 DEF TypeOf, KeepsStream, KeepsNet, KeepsWrites, Stays
<1>4. Progress(x)'
    BY <1>1, <1>2 DEF Progress, Alone, KeepsStream, KeepsNet, KeepsWrites, Stays, Unsent, IsForeign, Flushed
<1> QED
    BY <1>1, <1>2, <1>3, <1>4, OtherSide DEF KeepsNet

\* connect,
LEMMA ConnectProgress ==
    ASSUME ProgressInv, UNCHANGED connVars, connect, NEW x \in Sides, x = "client"
    PROVE  ProgressInv'
<1>1. Domains /\ TypeOf(x) /\ Progress(x) /\ IsSeq(net[Peer(x)])
    BY Parts
<1>2. /\ Alone(x) /\ KeepsStream(x) /\ KeepsNet(x) /\ KeepsWrites(x)
      /\ phase[x] = "new"
      /\ \/ phase'[x] \in {"unreachable", "connected"} /\ (gone'[x] <=> gone[x])
         \/ phase'[x] = "undialled" /\ gone'[x]
    BY <1>1, ConnectEffect
<1>3. TypeOf(x)'
    BY <1>1, <1>2 DEF TypeOf, KeepsStream, KeepsNet, KeepsWrites, Phases, Leaving
<1>4. Progress(x)'
  <2>1. Unsent(x)
    BY <1>2 DEF Unsent
  <2> QED
    BY <1>1, <1>2, <2>1 DEF Progress, Alone, KeepsStream, KeepsNet, KeepsWrites, Unsent, IsForeign, Flushed
<1> QED
    BY <1>1, <1>2, <1>3, <1>4, OtherSide DEF KeepsNet

\* connect_on,
LEMMA ConnectOnProgress ==
    ASSUME ProgressInv, UNCHANGED connVars, connect_on, NEW x \in Sides, x = "client"
    PROVE  ProgressInv'
<1> DEFINE request == Units(build_request)
<1>0. IsSeq(request) /\ request # <<>>
    BY UnitsFacts
<1> HIDE DEF request
<1>1. Domains /\ TypeOf(x) /\ Progress(x) /\ IsSeq(net[Peer(x)])
    BY Parts
<1>2. /\ Alone(x) /\ KeepsStream(x) /\ KeepsNet(x) /\ out'[x] = out[x]
      /\ phase[x] \in {"new", "connected"}
      /\ \/ phase'[x] = "undialled" /\ gone'[x] /\ todo'[x] = todo[x]
         \/ phase'[x] = "writing" /\ (gone'[x] <=> gone[x]) /\ todo'[x] = request
    BY <1>1, ConnectOnEffect DEF request
<1>3. TypeOf(x)'
    BY <1>0, <1>1, <1>2 DEF TypeOf, KeepsStream, KeepsNet, Phases, Leaving
<1>4. Progress(x)'
  <2>1. Unsent(x)
    BY <1>2 DEF Unsent
  <2> QED
    BY <1>0, <1>1, <1>2, <2>1 DEF Progress, Alone, KeepsStream, KeepsNet, Unsent, IsForeign, Flushed, Fresh
<1> QED
    BY <1>1, <1>2, <1>3, <1>4, OtherSide DEF KeepsNet

\* accept,
LEMMA AcceptProgress ==
    ASSUME ProgressInv, UNCHANGED connVars, accept, NEW x \in Sides, x = "server"
    PROVE  ProgressInv'
<1>1. Domains /\ TypeOf(x) /\ Progress(x) /\ IsSeq(net[Peer(x)])
    BY Parts
<1>2. /\ Alone(x) /\ KeepsStream(x) /\ KeepsNet(x) /\ KeepsWrites(x)
      /\ phase[x] = "new" /\ phase'[x] = "reading" /\ (gone'[x] <=> gone[x])
    BY <1>1, AcceptEffect
<1>3. TypeOf(x)'
    BY <1>1, <1>2 DEF TypeOf, KeepsStream, KeepsNet, KeepsWrites, Phases, Leaving
<1>4. Progress(x)'
  <2>1. Unsent(x)
    BY <1>2 DEF Unsent
  <2> QED
    BY <1>1, <1>2, <2>1 DEF Progress, Alone, KeepsStream, KeepsNet, KeepsWrites, Unsent, IsForeign, Flushed
<1> QED
    BY <1>1, <1>2, <1>3, <1>4, OtherSide DEF KeepsNet

\* the flush,
LEMMA FlushProgress ==
    ASSUME ProgressInv, UNCHANGED connVars, Flush, NEW x \in Sides, x = "client"
    PROVE  ProgressInv'
<1>1. Domains /\ TypeOf(x) /\ Progress(x) /\ IsSeq(net[Peer(x)])
    BY Parts
<1>2. /\ Alone(x) /\ KeepsStream(x) /\ inbuf' = inbuf /\ todo' = todo
      /\ phase[x] = "flushing" /\ phase'[x] = "reading" /\ (gone'[x] <=> gone[x])
      /\ net'[x] = net[x] \o out[x] /\ out'[x] = <<>> /\ net'[Peer(x)] = net[Peer(x)]
    BY <1>1, FlushEffect
<1>3. IsSeq(net[x] \o out[x])
    BY <1>1, ConcatFacts DEF TypeOf
<1>4. TypeOf(x)'
    BY <1>1, <1>2, <1>3, EmptyIsSeq DEF TypeOf, KeepsStream, Phases, Leaving
<1>5. Progress(x)'
    BY <1>1, <1>2 DEF Progress, KeepsStream, Unsent, IsForeign, Flushed, Returned
<1> QED
    BY <1>1, <1>2, <1>4, <1>5, OtherSide

\* the write of the message,
LEMMA WriteProgress ==
    ASSUME ProgressInv, UNCHANGED connVars, NEW x \in Sides, Write(x)
    PROVE  ProgressInv'
<1> DEFINE w == Append(out[x], Head(todo[x]))
<1>1. Domains /\ TypeOf(x) /\ Progress(x) /\ IsSeq(net[Peer(x)])
    BY Parts
<1>2. todo[x] # <<>> /\ IsSeq(todo[x]) /\ IsSeq(out[x])
    BY <1>1, WriteEffect DEF TypeOf
<1>3. IsSeq(w) /\ IsSeq(Tail(todo[x])) /\ Len(Tail(todo[x])) = Len(todo[x]) - 1 /\ Len(todo[x]) \in Nat
    BY <1>2, AppendFacts, HeadTail, LengthFacts
<1>4. Len(todo[x]) = 1 <=> Tail(todo[x]) = <<>>
  <2>1. Len(Tail(todo[x])) = 0 <=> Tail(todo[x]) = <<>>
    BY <1>3, LengthFacts
  <2> QED
    BY <1>3, <2>1
<1> HIDE DEF w
<1>5. /\ Alone(x) /\ KeepsStream(x) /\ KeepsNet(x)
      /\ phase[x] \in {"writing", "replying", "refusing"}
      /\ todo'[x] = Tail(todo[x])
      /\ \/ phase[x] = "refusing" /\ Len(todo[x]) = 1 /\ Leaves(x, "failed", w)
         \/ out'[x] = w /\ (gone'[x] <=> gone[x]) /\ Len(todo[x]) # 1 /\ phase'[x] = phase[x]
         \/ /\ out'[x] = w /\ (gone'[x] <=> gone[x]) /\ phase[x] # "refusing" /\ Len(todo[x]) = 1
            /\ phase'[x] = IF x = "client" THEN "flushing" ELSE "open"
    BY <1>1, WriteEffect DEF w
<1>6. TypeOf(x)'
    BY <1>1, <1>3, <1>5, EmptyIsSeq DEF TypeOf, KeepsStream, KeepsNet, Phases, Leaving, Leaves, Returned
<1>7. Progress(x)'
  <2>1. ends[x] = Fresh /\ ends'[x] = Fresh
    BY <1>1, <1>2, <1>5 DEF Progress, KeepsStream
  <2>2. phase'[x] \in {"writing", "replying", "refusing"} <=> todo'[x] # <<>>
    BY <1>4, <1>5 DEF Leaves
  <2>3. phase'[x] \in {"writing", "replying", "refusing", "failed", "flushing", "open"}
    BY <1>5 DEF Leaves
  <2>4. ~(ends'[x].written > 0)
    BY <2>1 DEF Fresh
  <2> QED
    BY <2>1, <2>2, <2>3, <2>4 DEF Progress, Unsent, IsForeign
<1> QED
    BY <1>1, <1>5, <1>6, <1>7, OtherSide DEF KeepsNet

\* The side x leaves in the middle of its handshake, or with its stream.
LEMMA LeaveProgress ==
    ASSUME ProgressInv, NEW x \in Sides, NEW p \in {"failed", "cancelled", "closed", "foreign gone"}, NEW w,
           IsSeq(w), Alone(x), KeepsNet(x), todo'[x] = todo[x], Leaves(x, p, w),
           got'[x] = got[x], IsEnd(ends'[x]),
           ends'[x] = ends[x] \/ IsOpen(x),
           ends'[x].written = ends[x].written,
           w = <<>> \/ w = out[x],
           IF p = "foreign gone" THEN IsForeign(x) ELSE ~IsForeign(x),
           p = "closed" => IsOpen(x),
           phase[x] # "shut", ends[x] # Fresh \/ IsOpen(x) => p \notin {"failed", "cancelled"},
           IsForeign(x) => ends'[x] = ends[x]
    PROVE  ProgressInv'
<1>1. TypeOf(x) /\ Progress(x) /\ IsSeq(net[Peer(x)])
    BY Parts
<1>2. phase'[x] = p /\ gone'[x] /\ IsSeq(out'[x]) /\ (out[x] = <<>> => out'[x] = <<>>)
    BY EmptyIsSeq DEF Leaves
<1>3. TypeOf(x)'
    BY <1>1, <1>2 DEF TypeOf, KeepsNet, Phases, Leaving, Returned, ForeignPhases
<1>4. Progress(x)'
  <2>1. todo[x] # <<>> => p \notin {"foreign gone", "closed"} /\ ends'[x] = Fresh
    BY <1>1 DEF Progress, IsOpen
  <2>2. p \in {"failed", "cancelled"} => ends'[x] = Fresh
    BY DEF IsOpen
  <2> QED
    BY <1>1, <1>2, <2>1, <2>2 DEF Progress, Unsent, IsForeign, Flushed, Returned
<1> QED
    BY <1>1, <1>3, <1>4, OtherSide DEF KeepsNet

\* its error,
LEMMA WriteErrorProgress ==
    ASSUME ProgressInv, UNCHANGED connVars, NEW x \in Sides, WriteError(x)
    PROVE  ProgressInv'
<1>1. Domains /\ TypeOf(x) /\ Progress(x)
    BY Parts
<1>2. /\ Alone(x) /\ KeepsStream(x) /\ KeepsNet(x) /\ todo'[x] = todo[x]
      /\ phase[x] \in {"writing", "flushing", "replying", "refusing"}
      /\ Leaves(x, "failed", out[x])
    BY <1>1, WriteErrorEffect
<1>3. ends[x] = Fresh /\ ~IsForeign(x) /\ ~IsOpen(x) /\ phase[x] # "shut"
    BY <1>1, <1>2 DEF Progress, IsForeign, IsOpen, Returned
<1> QED
    BY <1>1, <1>2, <1>3, LeaveProgress DEF KeepsStream, TypeOf

\* the end of the input,
LEMMA ReadEofProgress ==
    ASSUME ProgressInv, UNCHANGED connVars, NEW x \in Sides, ReadEof(x)
    PROVE  ProgressInv'
<1> DEFINE refusal == Units(BAD_REQUEST)
<1>0. IsSeq(refusal) /\ refusal # <<>>
    BY UnitsFacts
<1> HIDE DEF refusal
<1>1. Domains /\ TypeOf(x) /\ Progress(x) /\ IsSeq(net[Peer(x)])
    BY Parts
<1>2. /\ Alone(x) /\ KeepsStream(x) /\ KeepsNet(x) /\ phase[x] = "reading"
      /\ \/ /\ x = "server" /\ phase'[x] = "refusing" /\ todo'[x] = refusal
            /\ out'[x] = out[x] /\ (gone'[x] <=> gone[x])
         \/ Leaves(x, "failed", out[x]) /\ todo'[x] = todo[x]
    BY <1>1, ReadEofEffect DEF refusal
<1>3. ends[x] = Fresh /\ ~IsForeign(x) /\ ~IsOpen(x) /\ phase[x] # "shut"
    BY <1>1, <1>2 DEF Progress, IsForeign, IsOpen, Returned
<1>4. CASE Leaves(x, "failed", out[x]) /\ todo'[x] = todo[x]
    BY <1>1, <1>2, <1>3, <1>4, LeaveProgress DEF KeepsStream, TypeOf
<1>5. CASE /\ x = "server" /\ phase'[x] = "refusing" /\ todo'[x] = refusal
           /\ out'[x] = out[x] /\ (gone'[x] <=> gone[x])
  <2>1. TypeOf(x)'
    BY <1>0, <1>1, <1>2, <1>5 DEF TypeOf, KeepsStream, KeepsNet, Phases, Leaving
  <2>2. Progress(x)'
    BY <1>0, <1>1, <1>2, <1>3, <1>5 DEF Progress, KeepsStream, Unsent, IsForeign
  <2> QED
    BY <1>1, <1>2, <2>1, <2>2, OtherSide DEF KeepsNet
<1> QED
    BY <1>2, <1>4, <1>5

\* the transport that sends on by itself,
LEMMA SpillProgress ==
    ASSUME ProgressInv, UNCHANGED connVars, NEW x \in Sides, Spill(x)
    PROVE  ProgressInv'
<1>1. Domains /\ TypeOf(x) /\ Progress(x) /\ IsSeq(net[Peer(x)])
    BY Parts
<1>2. /\ Alone(x) /\ KeepsStream(x) /\ inbuf' = inbuf /\ todo' = todo /\ Stays(x)
      /\ out[x] # <<>> /\ out'[x] = Tail(out[x]) /\ net'[x] = Append(net[x], Head(out[x]))
      /\ net'[Peer(x)] = net[Peer(x)]
    BY <1>1, SpillEffect
<1>3. IsSeq(out[x]) /\ IsSeq(net[x])
    BY <1>1 DEF TypeOf
<1>4. IsSeq(out'[x]) /\ IsSeq(net'[x])
    BY <1>2, <1>3, AppendFacts, HeadTail
<1>5. TypeOf(x)'
    BY <1>1, <1>2, <1>4 DEF TypeOf, KeepsStream, Stays
<1>6. Progress(x)'
    BY <1>1, <1>2 DEF Progress, KeepsStream, Stays, Unsent, IsForeign, Flushed
<1> QED
    BY <1>1, <1>2, <1>5, <1>6, OtherSide

\* another implementation that begins,
LEMMA ForeignSendProgress ==
    ASSUME ProgressInv, UNCHANGED connVars, NEW x \in Sides, NEW m, ForeignSend(x, m)
    PROVE  ProgressInv'
<1>1. Domains /\ TypeOf(x) /\ Progress(x) /\ IsSeq(net[Peer(x)])
    BY Parts
<1>2. /\ Alone(x) /\ KeepsStream(x) /\ inbuf' = inbuf /\ KeepsWrites(x)
      /\ phase[x] = "foreign" /\ phase'[x] = "foreign open" /\ (gone'[x] <=> gone[x])
      /\ net'[x] = net[x] \o Units(m) /\ net'[Peer(x)] = net[Peer(x)]
    BY <1>1, ForeignSendEffect
<1>3. IsSeq(net'[x])
  <2>1. IsSeq(net[x]) /\ IsSeq(Units(m))
    BY <1>1, UnitsFacts DEF TypeOf
  <2> QED
    BY <1>2, <2>1, ConcatFacts
<1>4. TypeOf(x)'
    BY <1>1, <1>2, <1>3 DEF TypeOf, KeepsStream, KeepsWrites, Phases, Leaving, ForeignPhases
<1>5. Progress(x)'
    BY <1>1, <1>2 DEF Progress, KeepsStream, KeepsWrites, Unsent, IsForeign, Flushed
<1> QED
    BY <1>1, <1>2, <1>4, <1>5, OtherSide

\* or leaves,
LEMMA ForeignLeaveProgress ==
    ASSUME ProgressInv, UNCHANGED connVars, NEW x \in Sides, ForeignLeave(x)
    PROVE  ProgressInv'
<1>1. Domains /\ TypeOf(x) /\ Progress(x)
    BY Parts
<1>2. /\ Alone(x) /\ KeepsStream(x) /\ KeepsNet(x) /\ todo'[x] = todo[x]
      /\ phase[x] \in {"foreign", "foreign open"} /\ Leaves(x, "foreign gone", <<>>)
    BY <1>1, ForeignLeaveEffect
<1>3. IsForeign(x) /\ ~IsOpen(x) /\ phase[x] # "shut"
    BY <1>2 DEF IsForeign, IsOpen
<1> QED
    BY <1>1, <1>2, <1>3, LeaveProgress, EmptyIsSeq DEF KeepsStream, TypeOf

\* the drop of the handshake future,
LEMMA CancelProgress ==
    ASSUME ProgressInv, UNCHANGED connVars, NEW x \in Sides, Cancel(x)
    PROVE  ProgressInv'
<1>1. Domains /\ TypeOf(x) /\ Progress(x)
    BY Parts
<1>2. /\ Alone(x) /\ KeepsStream(x) /\ KeepsNet(x) /\ todo'[x] = todo[x]
      /\ phase[x] \in {"connected", "writing", "flushing", "reading", "replying", "refusing"}
      /\ Leaves(x, "cancelled", out[x])
    BY <1>1, CancelEffect
<1>3. ~IsForeign(x) /\ ~IsOpen(x) /\ phase[x] # "shut"
    BY <1>2 DEF IsForeign, IsOpen
<1>4. ends[x] = Fresh
    BY <1>1, <1>2 DEF Progress, Returned
<1> QED
    BY <1>1, <1>2, <1>3, <1>4, LeaveProgress DEF KeepsStream, TypeOf

\* and the read of a handshake.
LEMMA ReadProgress ==
    ASSUME ProgressInv, UNCHANGED connVars, NEW x \in Sides, NEW n, Read(x, n)
    PROVE  ProgressInv'
<1> DEFINE y == Peer(x)
           units == ReadUnits(x, n)
           reply == Units(SwitchingProtocols(digest(LastValue(units[1].msg, "sec-websocket-key"))))
           refusal == Units(BAD_REQUEST)
<1>1. Domains /\ TypeOf(x) /\ Progress(x) /\ IsSeq(net[y]) /\ Progress(y)
    BY Parts
<1>2. /\ Alone(x) /\ KeepsStream(x)
      /\ phase[x] = "reading" /\ n \in 1..Len(net[y])
      /\ net'[x] = net[x] /\ net'[y] = SubSeq(net[y], n + 1, Len(net[y]))
      /\ \/ GoesOn(x, units) \/ Refuses(x, units) \/ GivesUp(x, units) \/ Replies(x, units)
         \/ Opens(x, units)
    BY <1>1, ReadEffect
<1>3. IsSeq(reply) /\ reply # <<>> /\ IsSeq(refusal) /\ refusal # <<>>
    BY UnitsFacts
<1> HIDE DEF reply, refusal
<1>4. Len(net[y]) \in Nat /\ net[y] # <<>> /\ IsSeq(inbuf[x])
    BY <1>1, <1>2, LengthFacts DEF TypeOf
<1>5. IsSeq(SubSeq(net[y], 1, n)) /\ IsSeq(net'[y])
    BY <1>1, <1>2, <1>4, SubSeqFacts
<1>6. IsSeq(units) /\ Len(units) \in Nat
    BY <1>4, <1>5, ConcatFacts, LengthFacts DEF ReadUnits
<1> HIDE DEF units
<1>7. IsSeq(inbuf'[x])
  <2>1. ~Incomplete(units) => IsSeq(SubSeq(units, 3, Len(units)))
    BY <1>6, SubSeqFacts
  <2> QED
    BY <1>2, <1>6, <2>1 DEF Advance, GoesOn, Refuses, GivesUp, Replies, Opens, Accepts
<1>11. \/ Stays(x) /\ KeepsWrites(x)
       \/ /\ x = "server" /\ phase'[x] = "refusing" /\ todo'[x] = refusal
          /\ out'[x] = out[x] /\ (gone'[x] <=> gone[x])
       \/ Leaves(x, "failed", out[x]) /\ todo'[x] = todo[x]
       \/ /\ x = "server" /\ phase'[x] = "replying" /\ todo'[x] = reply
          /\ out'[x] = out[x] /\ (gone'[x] <=> gone[x])
       \/ phase'[x] = "open" /\ KeepsWrites(x) /\ (gone'[x] <=> gone[x])
    BY <1>2 DEF GoesOn, Refuses, GivesUp, Replies, Opens, refusal, reply
<1>8. TypeOf(x)'
    BY <1>1, <1>2, <1>3, <1>7, <1>11, EmptyIsSeq DEF TypeOf, KeepsStream, KeepsWrites, Stays, Leaves, Phases, Leaving, Returned
<1>9. Progress(x)'
  <2>1. ends[x] = Fresh /\ ends'[x] = Fresh /\ todo[x] = <<>>
    BY <1>1, <1>2 DEF Progress, KeepsStream, Returned
  <2>2. ~(ends'[x].written > 0)
    BY <2>1 DEF Fresh
  <2>3. CASE Stays(x) /\ KeepsWrites(x)
    BY <1>1, <1>2, <2>1, <2>2, <2>3, Peers DEF Progress, Alone, Stays, KeepsWrites, Unsent, IsForeign
  <2>4. CASE ~(Stays(x) /\ KeepsWrites(x))
    <3>1. /\ phase'[x] \in {"refusing", "replying", "failed", "open"}
          /\ phase'[x] \in {"refusing", "replying"} <=> todo'[x] # <<>>
      BY <1>3, <1>11, <2>1, <2>4 DEF Leaves, KeepsWrites
    <3> QED
      BY <2>1, <2>2, <3>1 DEF Progress, Unsent, IsForeign
  <2> QED
    BY <2>3, <2>4
<1>10. ~Unsent(y)
    BY <1>1, <1>4 DEF Progress
<1> QED
    BY <1>2, <1>5, <1>8, <1>9, <1>10, OtherSide

\* A step of an open stream that writes nothing.
LEMMA StreamProgress ==
    ASSUME ProgressInv, NEW x \in Sides, Alone(x), KeepsWrites(x), IsOpen(x),
           phase'[x] \in {"open", "closing"}, gone'[x] <=> gone[x],
           IsEnd(ends'[x]), ends'[x].written = ends[x].written,
           IsSeq(got'[x]), IsSeq(inbuf'[x]), net'[x] = net[x], IsSeq(net'[Peer(x)]),
           \/ net'[Peer(x)] = net[Peer(x)] /\ inbuf'[x] = inbuf[x]
           \/ ~Unsent(Peer(x))
    PROVE  ProgressInv'
<1>1. TypeOf(x) /\ Progress(x)
    BY Parts
<1>2. TypeOf(x)'
    BY <1>1 DEF TypeOf, KeepsWrites, IsOpen, Phases, Leaving, Returned
<1>3. Progress(x)'
    BY <1>1 DEF Progress, KeepsWrites, IsOpen, Unsent, IsForeign, Flushed, Returned
<1> QED
    BY <1>2, <1>3, OtherSide

\* An end stays one when frames are queued.
LEMMA QueuesType ==
    ASSUME ProgressInv, NEW x \in Sides, NEW fs, IsSeq(fs), Queues(x, fs),
           ends'[x].state \in {"Active", "ClosedByPeer", "ClosedByUs"},
           ends[x].state \in {"Active", "ClosedByPeer", "ClosedByUs"}
    PROVE  IsEnd(ends'[x])
<1>1. IsEnd(ends[x])
    BY Parts
<1>2. /\ IsSeq(ends[x].queued) /\ ends[x].written \in 0..Len(ends[x].queued)
      /\ Len(ends[x].queued) \in Nat /\ Len(fs) \in Nat
    BY <1>1, LengthFacts DEF IsEnd
<1>3. IsSeq(ends'[x].queued) /\ Len(ends'[x].queued) = Len(ends[x].queued) + Len(fs)
    BY <1>2, ConcatFacts DEF Queues
<1>4. ends'[x].written \in 0..Len(ends'[x].queued)
    BY <1>2, <1>3 DEF Queues
<1> QED
    BY <1>1, <1>3, <1>4 DEF IsEnd, Queues

\* The same of the streams: start_send,
LEMMA StartSendProgress ==
    ASSUME ProgressInv, NEW x \in Sides, start_send(x)
    PROVE  ProgressInv'
<1>1. Domains /\ TypeOf(x) /\ Progress(x) /\ IsSeq(net[Peer(x)]) /\ DOMAIN ends[x] = Fields
    BY Parts
<1>2. /\ Alone(x) /\ got'[x] = got[x] /\ KeepsNet(x) /\ KeepsWrites(x) /\ Stays(x)
      /\ phase[x] = "open" /\ ends[x].state = "Active"
      /\ \E g : Queues(x, <<g>>) /\ ends'[x].state \in {"Active", "ClosedByUs"}
    BY <1>1, StartSendEffect
<1>3. IsEnd(ends'[x]) /\ ends'[x].written = ends[x].written
    BY <1>2, OneIsSeq, QueuesType DEF Queues
<1> QED
    BY <1>1, <1>2, <1>3, StreamProgress DEF TypeOf, KeepsNet, Stays, IsOpen

\* poll_close,
LEMMA PollCloseProgress ==
    ASSUME ProgressInv, NEW x \in Sides, poll_close(x)
    PROVE  ProgressInv'
<1>1. Domains /\ TypeOf(x) /\ Progress(x) /\ IsSeq(net[Peer(x)]) /\ DOMAIN ends[x] = Fields
    BY Parts
<1>2. /\ Alone(x) /\ got'[x] = got[x] /\ KeepsNet(x) /\ KeepsWrites(x)
      /\ phase[x] = "open" /\ phase'[x] = "closing" /\ (gone'[x] <=> gone[x])
      /\ \/ /\ ends[x].state = "Active" /\ Queues(x, <<DEFAULT_CLOSE>>)
            /\ ends'[x].state = "ClosedByUs"
         \/ ends[x].state # "Active" /\ ends'[x] = ends[x]
    BY <1>1, PollCloseEffect
<1>3. IsEnd(ends'[x]) /\ ends'[x].written = ends[x].written
  <2>1. IsSeq(<<DEFAULT_CLOSE>>)
    BY OneIsSeq
  <2> QED
    BY <1>1, <1>2, <2>1, QueuesType DEF Queues, TypeOf
<1> QED
    BY <1>1, <1>2, <1>3, StreamProgress DEF TypeOf, KeepsNet, IsOpen

\* the write of a frame,
LEMMA WriteFrameProgress ==
    ASSUME ProgressInv, NEW x \in Sides, WriteFrame(x)
    PROVE  ProgressInv'
<1> DEFINE f == ends[x].queued[ends[x].written + 1]
<1>1. Domains /\ TypeOf(x) /\ Progress(x) /\ IsSeq(net[Peer(x)]) /\ DOMAIN ends[x] = Fields
    BY Parts
<1>2. /\ Alone(x) /\ got'[x] = got[x] /\ inbuf' = inbuf /\ todo' = todo /\ Stays(x)
      /\ IsOpen(x) /\ ~Flushed(x) /\ DOMAIN ends'[x] = Fields
      /\ ends'[x].state = ends[x].state /\ ends'[x].queued = ends[x].queued
      /\ ends'[x].written = ends[x].written + 1 /\ ends'[x].ended = ends[x].ended
      /\ net'[x] = (net[x] \o out[x]) \o <<f>>
      /\ out'[x] = <<>> /\ net'[Peer(x)] = net[Peer(x)]
    BY <1>1, WriteFrameEffect
<1> HIDE DEF f
<1>3. IsSeq(net'[x])
    BY <1>1, <1>2, ConcatFacts, OneIsSeq DEF TypeOf
<1>4. IsEnd(ends'[x])
  <2>1. Len(ends[x].queued) \in Nat
    BY <1>1, LengthFacts DEF TypeOf, IsEnd
  <2> QED
    BY <1>1, <1>2, <2>1 DEF TypeOf, IsEnd, Flushed
<1>5. TypeOf(x)'
    BY <1>1, <1>2, <1>3, <1>4, EmptyIsSeq DEF TypeOf, Stays
<1>6. Progress(x)'
    BY <1>1, <1>2 DEF Progress, Stays, IsOpen, Unsent, IsForeign, Returned
<1> QED
    BY <1>1, <1>2, <1>5, <1>6, OtherSide

\* An end stays one when the transport fails.
LEMMA FailsType ==
    ASSUME ProgressInv, NEW x \in Sides, StreamFails(x)
    PROVE  IsEnd(ends'[x]) /\ ends'[x].written = ends[x].written
BY Parts DEF StreamFails, IsEnd

\* The error of a write keeps ProgressInv,
LEMMA WriteFailsProgress ==
    ASSUME ProgressInv, NEW x \in Sides, WriteFails(x)
    PROVE  ProgressInv'
<1>1. Domains /\ TypeOf(x) /\ Progress(x) /\ IsSeq(net[Peer(x)]) /\ DOMAIN ends[x] = Fields
    BY Parts
<1>2. /\ Alone(x) /\ got'[x] = got[x] /\ KeepsNet(x) /\ todo'[x] = todo[x]
      /\ IsOpen(x) /\ StreamFails(x)
      /\ \/ Leaves(x, "closed", out[x])
         \/ Stays(x) /\ out'[x] = out[x]
    BY <1>1, WriteFailsEffect
<1>3. IsEnd(ends'[x]) /\ ends'[x].written = ends[x].written
    BY <1>2, FailsType
<1>4. ~IsForeign(x) /\ phase[x] # "shut"
    BY <1>2 DEF IsOpen, IsForeign
<1>5. CASE Leaves(x, "closed", out[x])
    BY <1>1, <1>2, <1>3, <1>4, <1>5, LeaveProgress DEF TypeOf
<1>6. CASE Stays(x) /\ out'[x] = out[x]
    BY <1>1, <1>2, <1>3, <1>6, StreamProgress DEF TypeOf, KeepsNet, KeepsWrites, Stays, IsOpen
<1> QED
    BY <1>2, <1>5, <1>6

\* the error of a read,
LEMMA ReadFailsProgress ==
    ASSUME ProgressInv, NEW x \in Sides, ReadFails(x)
    PROVE  ProgressInv'
<1>1. Domains /\ TypeOf(x) /\ IsSeq(net[Peer(x)]) /\ DOMAIN ends[x] = Fields
    BY Parts
<1>2. /\ Alone(x) /\ got'[x] = got[x] /\ KeepsNet(x) /\ KeepsWrites(x) /\ Stays(x)
      /\ IsOpen(x) /\ StreamFails(x)
    BY <1>1, ReadFailsEffect
<1>3. IsEnd(ends'[x]) /\ ends'[x].written = ends[x].written
    BY <1>2, FailsType
<1> QED
    BY <1>1, <1>2, <1>3, StreamProgress DEF TypeOf, KeepsNet, Stays, IsOpen

\* the acknowledgement,
LEMMA AcknowledgeProgress ==
    ASSUME ProgressInv, NEW x \in Sides, Acknowledge(x)
    PROVE  ProgressInv'
<1>1. Domains /\ TypeOf(x) /\ IsSeq(net[Peer(x)]) /\ DOMAIN ends[x] = Fields
    BY Parts
<1>2. /\ Alone(x) /\ got'[x] = got[x] /\ KeepsNet(x) /\ KeepsWrites(x) /\ Stays(x)
      /\ IsOpen(x) /\ DOMAIN ends'[x] = Fields
      /\ ends'[x].state = "CloseAcknowledged" /\ ends'[x].queued = ends[x].queued
      /\ ends'[x].written = ends[x].written /\ ends'[x].ended = "peer"
    BY <1>1, AcknowledgeEffect
<1>3. IsEnd(ends'[x])
    BY <1>1, <1>2 DEF IsEnd, TypeOf
<1> QED
    BY <1>1, <1>2, <1>3, StreamProgress DEF TypeOf, KeepsNet, Stays, IsOpen

\* the shutdown,
LEMMA PollShutdownProgress ==
    ASSUME ProgressInv, NEW x \in Sides, poll_shutdown(x)
    PROVE  ProgressInv'
<1>1. Domains /\ TypeOf(x) /\ Progress(x) /\ IsSeq(net[Peer(x)])
    BY Parts
<1>2. /\ Alone(x) /\ KeepsStream(x) /\ KeepsNet(x) /\ todo'[x] = todo[x]
      /\ phase[x] = "closing" /\ Flushed(x) /\ Leaves(x, "shut", out[x])
    BY <1>1, PollShutdownEffect
<1>3. TypeOf(x)'
    BY <1>1, <1>2, EmptyIsSeq DEF TypeOf, KeepsStream, KeepsNet, Leaves, Phases, Leaving, Returned
<1>4. Progress(x)'
    BY <1>1, <1>2 DEF Progress, KeepsStream, Leaves, Unsent, IsForeign, Flushed, Returned
<1> QED
    BY <1>1, <1>2, <1>3, <1>4, OtherSide DEF KeepsNet

\* the drop of the stream,
LEMMA DropStreamProgress ==
    ASSUME ProgressInv, NEW x \in Sides, DropStream(x)
    PROVE  ProgressInv'
<1>1. Domains /\ TypeOf(x) /\ Progress(x)
    BY Parts
<1>2. /\ Alone(x) /\ KeepsStream(x) /\ KeepsNet(x) /\ todo'[x] = todo[x]
      /\ IsOpen(x) /\ Leaves(x, "closed", out[x])
    BY <1>1, DropStreamEffect
<1>3. ~IsForeign(x) /\ phase[x] # "shut"
    BY <1>2 DEF IsForeign, IsOpen
<1> QED
    BY <1>1, <1>2, <1>3, LeaveProgress DEF KeepsStream, TypeOf

\* the frame of another implementation,
LEMMA ForeignFrameProgress ==
    ASSUME ProgressInv, NEW x \in Sides, NEW f, ForeignFrame(x, f)
    PROVE  ProgressInv'
<1>1. Domains /\ TypeOf(x) /\ Progress(x) /\ IsSeq(net[Peer(x)]) /\ DOMAIN ends[x] = Fields
    BY Parts
<1>2. /\ Alone(x) /\ got'[x] = got[x] /\ inbuf' = inbuf /\ KeepsWrites(x) /\ Stays(x)
      /\ phase[x] = "foreign open" /\ DOMAIN ends'[x] = Fields
      /\ ends'[x].state = ends[x].state /\ ends'[x].ended = ends[x].ended
      /\ ends'[x].queued = Append(ends[x].queued, f)
      /\ ends'[x].written = ends[x].written + 1
      /\ net'[x] = Append(net[x], f) /\ net'[Peer(x)] = net[Peer(x)]
    BY <1>1, ForeignFrameEffect
<1>3. /\ IsSeq(ends[x].queued) /\ IsSeq(net[x]) /\ ends[x].written = Len(ends[x].queued)
      /\ ends[x].state = "Active" /\ ends[x].ended = "no"
    BY <1>1, <1>2 DEF TypeOf, IsEnd, Progress, IsForeign, Flushed
<1>4. /\ IsSeq(ends'[x].queued) /\ Len(ends'[x].queued) = Len(ends[x].queued) + 1
      /\ IsSeq(net'[x]) /\ Len(ends[x].queued) \in Nat
    BY <1>2, <1>3, AppendFacts, LengthFacts
<1>5. IsEnd(ends'[x])
  <2>1. ends'[x].written \in 0..Len(ends'[x].queued)
    <3> DEFINE n == Len(ends[x].queued)
    <3>1. ends'[x].written = n + 1 /\ Len(ends'[x].queued) = n + 1 /\ n \in Nat
      BY <1>2, <1>3, <1>4, Zenon
    <3> HIDE DEF n
    <3> QED
      BY <3>1
  <2>2. DOMAIN ends'[x] = Fields /\ ends'[x].state = "Active" /\ ends'[x].ended = "no"
    BY <1>2, <1>3
  <2> QED
    BY <1>4, <2>1, <2>2 DEF IsEnd
<1>6. TypeOf(x)'
    BY <1>1, <1>2, <1>4, <1>5 DEF TypeOf, KeepsWrites, Stays
<1>7. Progress(x)'
    BY <1>1, <1>2, <1>3, <1>4 DEF Progress, KeepsWrites, Stays, Unsent, IsForeign, Flushed
<1> QED
    BY <1>1, <1>2, <1>6, <1>7, OtherSide

\* and its read.
LEMMA ForeignReadProgress ==
    ASSUME ProgressInv, NEW x \in Sides, ForeignRead(x)
    PROVE  ProgressInv'
<1>1. Domains /\ TypeOf(x) /\ Progress(x) /\ Progress(Peer(x))
    BY Parts
<1>2. /\ Alone(x) /\ KeepsStream(x) /\ inbuf' = inbuf /\ KeepsWrites(x) /\ Stays(x)
      /\ phase[x] = "foreign open" /\ net'[Peer(x)] = <<>> /\ net'[x] = net[x]
    BY <1>1, ForeignReadEffect
<1>3. TypeOf(x)'
    BY <1>1, <1>2 DEF TypeOf, KeepsStream, KeepsWrites, Stays
<1>4. Progress(x)'
    BY <1>1, <1>2 DEF Progress, KeepsStream, KeepsWrites, Stays, Unsent, IsForeign, Flushed
<1>5. Unsent(Peer(x)) => net'[Peer(x)] = net[Peer(x)]
    BY <1>1, <1>2 DEF Progress
<1> QED
    BY <1>2, <1>3, <1>4, <1>5, EmptyIsSeq, OtherSide

\* What poll_next_frame finds.
LEMMA HeadArrived ==
    ASSUME ProgressInv, NEW x \in Sides, Arrived(x) # <<>>
    PROVE  /\ inbuf[x] # <<>> => Head(Arrived(x)) = Head(inbuf[x])
           /\ inbuf[x] = <<>> => net[Peer(x)] # <<>> /\ Head(Arrived(x)) = Head(net[Peer(x)])
           /\ ~Unsent(Peer(x))
<1>1. IsSeq(inbuf[x]) /\ IsSeq(net[Peer(x)]) /\ Progress(Peer(x)) /\ Peer(Peer(x)) = x
    BY Parts, Peers DEF TypeOf
<1>2. CASE inbuf[x] = <<>>
  <2>1. Arrived(x) = net[Peer(x)]
    BY <1>1, <1>2, EmptyConcat DEF Arrived
  <2> QED
    BY <1>1, <1>2, <2>1 DEF Progress
<1>3. CASE inbuf[x] # <<>>
  <2>1. Len(inbuf[x]) \in Nat /\ Len(inbuf[x]) # 0
    BY <1>1, <1>3, LengthFacts
  <2>2. 1 \in 1..Len(inbuf[x])
    BY <2>1
  <2>3. IsSeq(Arrived(x)) /\ Arrived(x)[1] = inbuf[x][1]
    <3> DEFINE a == inbuf[x]
               b == net[Peer(x)]
    <3>1. IsSeq(a) /\ IsSeq(b) /\ 1 \in 1..Len(a) /\ Arrived(x) = a \o b
      BY <1>1, <2>2 DEF Arrived
    <3> HIDE DEF a, b
    <3>2. IsSeq(a \o b) /\ (a \o b)[1] = a[1]
      BY <3>1, ConcatFacts
    <3> QED
      BY <3>1, <3>2 DEF a
  <2> QED
    BY <1>1, <1>3, <2>3, HeadTail DEF Progress
<1> QED
    BY <1>2, <1>3

\* poll_next_frame keeps ProgressInv.
LEMMA PollNextFrameProgress ==
    ASSUME ProgressInv, NEW x \in Sides, poll_next_frame(x)
    PROVE  ProgressInv'
<1> DEFINE y == Peer(x)
           f == Head(Arrived(x))
           code == ErrorCode(x, f)
           rest == IF inbuf[x] = <<>> THEN <<>> ELSE Tail(inbuf[x])
           closing == Frame("Close", code)
           pong == Frame("Pong", f.v)
<1>1. Domains /\ TypeOf(x) /\ Progress(x) /\ IsSeq(net[y]) /\ IsEnd(ends[x])
    BY Parts
<1>2. /\ Alone(x) /\ KeepsWrites(x) /\ Stays(x) /\ IsOpen(x)
      /\ ends[x].state \in {"Active", "ClosedByUs"} /\ Arrived(x) # <<>>
      /\ net'[x] = net[x]
      /\ net'[y] = IF inbuf[x] = <<>> THEN Tail(net[y]) ELSE net[y]
      /\ \/ got'[x] = got[x] /\ inbuf'[x] = <<f>> \o rest
         \/ got'[x] = Append(got[x], f) /\ inbuf'[x] = rest
      /\ \/ Closed(x, closing, "error") \/ Closed(x, f, "us") \/ ends'[x] = ends[x]
         \/ ends[x].state = "Active" /\ ends'[x].state = "Active" /\ Queues(x, <<pong>>)
    BY <1>1, PollNextFrameEffect
<1>3. inbuf[x] = <<>> => net[y] # <<>>
    BY <1>2, HeadArrived
<1> HIDE DEF f, code, closing, pong
<1>4. IsSeq(net'[y]) /\ IsSeq(rest)
    BY <1>1, <1>2, <1>3, HeadTail, EmptyIsSeq DEF TypeOf
<1> HIDE DEF rest
<1>5. IsSeq(got'[x]) /\ IsSeq(inbuf'[x])
  <2>1. IsSeq(<<f>>) /\ IsSeq(<<f>> \o rest)
    BY <1>4, OneIsSeq, ConcatFacts
  <2> QED
    BY <1>1, <1>2, <1>4, <2>1, AppendFacts DEF TypeOf
<1>6. IsEnd(ends'[x]) /\ ends'[x].written = ends[x].written
  <2>1. ASSUME NEW g, NEW w \in {"error", "us"}, Closed(x, g, w)
        PROVE  IsEnd(ends'[x]) /\ ends'[x].written = ends[x].written
    <3>1. CASE ends[x].state = "ClosedByUs"
      BY <1>1, <2>1, <3>1 DEF Closed, IsEnd
    <3>2. CASE ends[x].state = "Active"
      <4>1. Queues(x, <<g>>) /\ ends'[x].state = "ClosedByPeer"
        BY <2>1, <3>2 DEF Closed, Queues
      <4> QED
        BY <3>2, <4>1, OneIsSeq, QueuesType DEF Queues
    <3> QED
      BY <1>2, <3>1, <3>2
  <2>2. CASE ends[x].state = "Active" /\ ends'[x].state = "Active" /\ Queues(x, <<pong>>)
    BY <2>2, OneIsSeq, QueuesType DEF Queues
  <2> QED
    BY <1>1, <1>2, <2>1, <2>2
<1>7. ~Unsent(y)
    BY <1>2, HeadArrived
<1> QED
    BY <1>2, <1>4, <1>5, <1>6, <1>7, StreamProgress DEF Stays, IsOpen

\* Every side begins with ProgressInv.
LEMMA InitProgress == connInit => ProgressInv
<1> SUFFICES ASSUME connInit PROVE ProgressInv
    OBVIOUS
<1>1. Domains
    BY DEF connInit, Init, Each, Domains
<1>2. ASSUME NEW x \in Sides
      PROVE  /\ phase[x] \in {"new", "foreign"} /\ ends[x] = Fresh /\ ~gone[x]
             /\ todo[x] = <<>> /\ out[x] = <<>> /\ net[x] = <<>> /\ inbuf[x] = <<>> /\ got[x] = <<>>
    BY DEF connInit, Init, Each, Fresh, At!Opened
<1>3. IsEnd(Fresh) /\ Fresh.state = "Active" /\ Fresh.written = 0 /\ Fresh.queued = <<>>
    BY EmptyIsSeq DEF IsEnd, Fresh, Fields
<1>4. ASSUME NEW x \in Sides
      PROVE  TypeOf(x) /\ Progress(x)
  <2>1. TypeOf(x)
    BY <1>2, <1>3, EmptyIsSeq DEF TypeOf, Phases, Leaving, ForeignPhases
  <2>2. Progress(x)
    BY <1>2, <1>3, EmptyIsSeq, Peers DEF Progress, IsForeign, Flushed
  <2> QED
    BY <2>1, <2>2
<1> QED
    BY <1>1, <1>4 DEF ProgressInv, TypeOK

\* The steps of a handshake together,
LEMMA HandshakesProgress ==
    ASSUME ProgressInv, UNCHANGED connVars, NEW x \in Sides, Handshakes(x)
    PROVE  ProgressInv'
BY WriteProgress, WriteErrorProgress, ReadEofProgress, ReadProgress DEF Handshakes

\* all steps of Handshake,
LEMMA NextProgress ==
    ASSUME ProgressInv, Next, UNCHANGED connVars
    PROVE  ProgressInv'
<1> DEFINE c == "client"
           s == "server"
<1>0. c \in Sides /\ s \in Sides
    BY DEF Sides
<1>1. CASE \E name \in ClientAdds : add_header(c, name)
    BY <1>0, <1>1, AddHeaderProgress
<1>2. CASE \E name \in ServerAdds : add_header(s, name)
    BY <1>0, <1>2, AddHeaderProgress
<1>3. CASE connect \/ connect_on \/ Flush
    BY <1>0, <1>3, ConnectProgress, ConnectOnProgress, FlushProgress
<1>4. CASE accept
    BY <1>0, <1>4, AcceptProgress
<1>5. CASE \E x \in Sides : Handshakes(x) \/ Spill(x) \/ ForeignLeave(x) \/ Cancel(x)
    BY <1>5, HandshakesProgress, SpillProgress, ForeignLeaveProgress, CancelProgress
<1>6. CASE \E x \in Sides : \E m \in ForeignMessages : ForeignSend(x, m)
    BY <1>6, ForeignSendProgress
<1> QED
    BY <1>1, <1>2, <1>3, <1>4, <1>5, <1>6 DEF Next

\* the step that changes nothing,
LEMMA StutterProgress ==
    ASSUME ProgressInv, UNCHANGED allVars
    PROVE  ProgressInv'
<1>1. /\ phase' = phase /\ added' = added /\ todo' = todo /\ out' = out /\ net' = net
      /\ inbuf' = inbuf /\ gone' = gone /\ ends' = ends /\ got' = got
    BY DEF allVars, vars, connVars
<1> QED
    BY <1>1 DEF ProgressInv, TypeOK, Domains, TypeOf, Progress, Unsent, IsForeign, Flushed

\* and every step of the connection.
LEMMA StepProgress ==
    ASSUME ProgressInv, [connNext]_allVars
    PROVE  ProgressInv'
<1>1. CASE Next /\ UNCHANGED connVars
    BY <1>1, NextProgress
<1>2. CASE \E x \in Sides : start_send(x) \/ poll_close(x) \/ ReadFails(x) \/ DropStream(x)
    BY <1>2, StartSendProgress, PollCloseProgress, ReadFailsProgress, DropStreamProgress
<1>3. CASE \E x \in Sides : Polls(x)
    BY <1>3, WriteFrameProgress, PollNextFrameProgress, AcknowledgeProgress, PollShutdownProgress, WriteFailsProgress DEF Polls
<1>4. CASE \E x \in Sides : ForeignRead(x) \/ \E f \in ForeignFrames : ForeignFrame(x, f)
    BY <1>4, ForeignReadProgress, ForeignFrameProgress
<1>5. CASE UNCHANGED allVars
    BY <1>5, StutterProgress
<1> QED
    BY <1>1, <1>2, <1>3, <1>4, <1>5 DEF connNext

\* The type invariant of the connection, and how far each side has come: a
\* side that has written nothing has nothing on its way, a handshake that has
\* returned has written all of its message, and only a stream that was
\* returned has frames.
THEOREM ConnectionProgress == connSpec => []ProgressInv
<1> QED
    BY InitProgress, StepProgress, PTL DEF connSpec

-----------------------------------------------------------------------------
(* Everything y has to say, from the transport back to its queue, and what *)
(* x has got or will get of it: an HTTP message and the frames behind it.  *)

Rest(y) == SubSeq(ends[y].queued, ends[y].written + 1, Len(ends[y].queued))
Sent(y) == Join(net[y], Join(out[y], Join(todo[y], Rest(y))))
Chain(x) == Join(got[x], Join(inbuf[x], Sent(Peer(x))))

\* The message of y can be m.
IsMessage(y, m) ==
    IF IsForeign(y) THEN m \in ForeignMessages
    ELSE IF y = "client" THEN m = build_request
    ELSE \/ m = BAD_REQUEST /\ phase[y] \notin {"replying", "open", "closing", "shut"}
         \/ /\ phase[y] # "refusing"
            /\ todo[y] # <<>> \/ phase[y] \in Returned
            /\ \E k : /\ m = SwitchingProtocols(k)
                      /\ ~IsForeign(Peer(y)) => k = digest(<<"key", key>>)

Spent == {"cancelled", "closed", "failed", "foreign gone"}
Unread == {"new", "connected", "writing", "flushing", "reading"}
Past == {"open", "closing", "shut", "replying"}

\* What x, that still waits for the message, can count on: the peer has said
\* nothing, it left before the message was sent, or the message comes first.
Nothing(x) ==
    /\ Chain(x) = <<>> /\ ends[Peer(x)].queued = <<>>
    /\ Unsent(Peer(x)) \/ phase[Peer(x)] \in Spent
Lost(x) ==
    gone[Peer(x)] /\ out[Peer(x)] = <<>> /\ Len(inbuf[x]) + Len(net[Peer(x)]) < 2
Whole(x) ==
    \E m : IsMessage(Peer(x), m) /\ Chain(x) = Join(Units(m), ends[Peer(x)].queued)

Pending(x) == phase[x] \in Unread => got[x] = <<>> /\ (Nothing(x) \/ Lost(x) \/ Whole(x))

\* When x has taken the message from its buffer, exactly the frames of the peer
\* are left, and the peer has written all of its message.
Taken(x) ==
    phase[x] \in Past =>
        /\ Chain(x) = ends[Peer(x)].queued
        /\ out[Peer(x)] = <<>> /\ todo[Peer(x)] = <<>> /\ ~Unsent(Peer(x))
        /\ x = "client" /\ ~IsForeign("server") => phase["server"] \in Returned

Flow(x) == Pending(x) /\ Taken(x)
FlowInv == ProgressInv /\ \A x \in Sides : Flow(x)

\* What of a queue has not been written yet.
LEMMA RestFacts ==
    ASSUME NEW y, IsEnd(ends[y])
    PROVE  /\ IsSeq(Rest(y)) /\ Len(Rest(y)) = Len(ends[y].queued) - ends[y].written
           /\ ends[y].written = 0 => Rest(y) = ends[y].queued
           /\ ends[y].written = Len(ends[y].queued) => Rest(y) = <<>>
           /\ Join(SubSeq(ends[y].queued, 1, ends[y].written), Rest(y)) = ends[y].queued
           /\ IsSeq(SubSeq(ends[y].queued, 1, ends[y].written))
           /\ Len(SubSeq(ends[y].queued, 1, ends[y].written)) = ends[y].written
<1> DEFINE q == ends[y].queued
           n == ends[y].written
           r == SubSeq(q, n + 1, Len(q))
           p == SubSeq(q, 1, n)
<1>1. IsSeq(q) /\ Len(q) \in Nat /\ n \in 0..Len(q)
    BY LengthFacts DEF IsEnd
<1> HIDE DEF q, n
<1>2. n \in Nat /\ n + 1 \in Nat /\ n <= Len(q) /\ Len(q) <= Len(q) /\ n + 1 >= 1
    BY <1>1
<1>3. IsSeq(r) /\ Len(r) = IF n + 1 <= Len(q) THEN Len(q) - (n + 1) + 1 ELSE 0
    BY <1>1, <1>2, SubSeqFacts
<1>4. IsSeq(p) /\ Len(p) = IF 1 <= n THEN n - 1 + 1 ELSE 0
    BY <1>1, <1>2, SubSeqFacts
<1>5. Join(p, r) = q
    BY <1>1, SplitAt DEF Join
<1>6. n = 0 => p = <<>>
    BY <1>4, LengthFacts
<1> HIDE DEF p, r
<1>7. Len(r) = Len(q) - n /\ Len(p) = n
    BY <1>1, <1>2, <1>3, <1>4
<1>8. n = 0 => r = q
    BY <1>3, <1>5, <1>6, JoinEmpty
<1>9. n = Len(q) => r = <<>>
  <2>1. n = Len(q) => Len(r) = 0
    BY <1>1, <1>7
  <2> QED
    BY <1>3, <2>1, LengthFacts
<1> QED
    BY <1>3, <1>4, <1>5, <1>7, <1>8, <1>9 DEF Rest, q, n, p, r

\* Everything a side has to say is a sequence,
LEMMA SentFacts ==
    ASSUME ProgressInv, NEW y \in Sides
    PROVE  /\ IsSeq(net[y]) /\ IsSeq(out[y]) /\ IsSeq(todo[y]) /\ IsSeq(Rest(y))
           /\ IsSeq(ends[y].queued) /\ IsEnd(ends[y])
           /\ IsSeq(Join(todo[y], Rest(y))) /\ IsSeq(Join(out[y], Join(todo[y], Rest(y))))
           /\ IsSeq(Sent(y))
           /\ Len(Sent(y)) = Len(net[y]) + (Len(out[y]) + (Len(todo[y]) + Len(Rest(y))))
<1>1. /\ IsSeq(net[y]) /\ IsSeq(out[y]) /\ IsSeq(todo[y]) /\ IsSeq(Rest(y))
      /\ IsSeq(ends[y].queued) /\ IsEnd(ends[y])
    BY Parts, RestFacts DEF TypeOf, IsEnd
<1>2. IsSeq(Join(todo[y], Rest(y))) /\ Len(Join(todo[y], Rest(y))) = Len(todo[y]) + Len(Rest(y))
    BY <1>1, JoinFacts
<1>3. /\ IsSeq(Join(out[y], Join(todo[y], Rest(y))))
      /\ Len(Join(out[y], Join(todo[y], Rest(y)))) = Len(out[y]) + (Len(todo[y]) + Len(Rest(y)))
    BY <1>1, <1>2, JoinFacts
<1>4. IsSeq(Sent(y)) /\ Len(Sent(y)) = Len(net[y]) + (Len(out[y]) + (Len(todo[y]) + Len(Rest(y))))
    BY <1>1, <1>3, JoinFacts DEF Sent
<1> QED
    BY <1>1, <1>2, <1>3, <1>4

\* and so is everything its peer has got or will get.
LEMMA ChainFacts ==
    ASSUME ProgressInv, NEW x \in Sides
    PROVE  /\ IsSeq(got[x]) /\ IsSeq(inbuf[x]) /\ IsSeq(Sent(Peer(x)))
           /\ IsSeq(Join(inbuf[x], Sent(Peer(x)))) /\ IsSeq(Chain(x))
           /\ Len(Chain(x)) = Len(got[x]) + (Len(inbuf[x]) + Len(Sent(Peer(x))))
<1>1. IsSeq(got[x]) /\ IsSeq(inbuf[x]) /\ IsSeq(Sent(Peer(x)))
    BY Parts, Peers, SentFacts DEF TypeOf
<1>2. /\ IsSeq(Join(inbuf[x], Sent(Peer(x))))
      /\ Len(Join(inbuf[x], Sent(Peer(x)))) = Len(inbuf[x]) + Len(Sent(Peer(x)))
    BY <1>1, JoinFacts
<1>3. IsSeq(Chain(x)) /\ Len(Chain(x)) = Len(got[x]) + (Len(inbuf[x]) + Len(Sent(Peer(x))))
    BY <1>1, <1>2, JoinFacts DEF Chain
<1> QED
    BY <1>1, <1>2, <1>3

\* What a side that has not sent anything leaves to read.
LEMMA UnsentChain ==
    ASSUME NEW x \in Sides, got[x] = <<>>, inbuf[x] = <<>>, ends[Peer(x)] = Fresh,
           todo[Peer(x)] = <<>>, out[Peer(x)] = <<>>, net[Peer(x)] = <<>>
    PROVE  Chain(x) = <<>>
<1>1. Join(<<>>, <<>>) = <<>>
    BY EmptyIsSeq, JoinEmpty
<1>2. IsEnd(Fresh) /\ Fresh.queued = <<>> /\ Fresh.written = 0
    BY EmptyIsSeq DEF IsEnd, Fresh, Fields
<1>3. Rest(Peer(x)) = <<>>
    BY <1>2, RestFacts
<1> QED
    BY <1>1, <1>3 DEF Chain, Sent

\* Before the message is taken, what is on its way has its length.
LEMMA MessageLength ==
    ASSUME ProgressInv, NEW x \in Sides, got[x] = <<>>, Whole(x)
    PROVE  LET y == Peer(x)
           IN  /\ ends[y].written = 0 =>
                    Len(inbuf[x]) + Len(net[y]) + Len(out[y]) + Len(todo[y]) = 2
               /\ Chain(x) # <<>>
<1> DEFINE y == Peer(x)
<1>0. y \in Sides
    BY Peers
<1>1. PICK m : Chain(x) = Join(Units(m), ends[y].queued)
    BY DEF Whole
<1>2. /\ IsSeq(ends[y].queued) /\ Len(Sent(y)) = Len(net[y]) + (Len(out[y]) + (Len(todo[y]) + Len(Rest(y))))
      /\ IsSeq(net[y]) /\ IsSeq(out[y]) /\ IsSeq(todo[y]) /\ IsEnd(ends[y])
    BY <1>0, SentFacts
<1>3. Len(Chain(x)) = Len(got[x]) + (Len(inbuf[x]) + Len(Sent(y))) /\ IsSeq(inbuf[x]) /\ IsSeq(Chain(x))
    BY ChainFacts
<1>4. Len(Chain(x)) = 2 + Len(ends[y].queued)
  <2> DEFINE u == Units(m)
  <2>1. IsSeq(u) /\ Len(u) = 2
    BY UnitsFacts
  <2> HIDE DEF u
  <2>2. Chain(x) = Join(u, ends[y].queued)
    BY <1>1 DEF u
  <2> QED
    BY <1>2, <2>1, <2>2, JoinFacts
<1>5. ends[y].written = 0 => Len(Rest(y)) = Len(ends[y].queued)
    BY <1>2, RestFacts
<1>6. /\ Len(inbuf[x]) \in Nat /\ Len(net[y]) \in Nat /\ Len(out[y]) \in Nat /\ Len(todo[y]) \in Nat
      /\ Len(ends[y].queued) \in Nat /\ Len(got[x]) = 0
    BY <1>2, <1>3, LengthFacts, EmptyIsSeq
<1>7. Chain(x) # <<>>
    BY <1>3, <1>4, <1>6, LengthFacts
<1>8. ASSUME ends[y].written = 0
      PROVE  Len(inbuf[x]) + Len(net[y]) + Len(out[y]) + Len(todo[y]) = 2
  <2>1. 2 + Len(ends[y].queued)
            = 0 + (Len(inbuf[x]) + (Len(net[y]) + (Len(out[y]) + (Len(todo[y]) + Len(ends[y].queued)))))
    BY <1>2, <1>3, <1>4, <1>5, <1>6, <1>8, Zenon
  <2> DEFINE a == Len(inbuf[x])
             b == Len(net[y])
             c == Len(out[y])
             d == Len(todo[y])
             e == Len(ends[y].queued)
  <2>2. 2 + e = 0 + (a + (b + (c + (d + e)))) /\ a \in Nat /\ b \in Nat /\ c \in Nat /\ d \in Nat /\ e \in Nat
    BY <1>6, <2>1, Zenon
  <2> HIDE DEF a, b, c, d, e
  <2>3. a + b + c + d = 2
    BY <2>2
  <2> QED
    BY <2>3, Zenon DEF a, b, c, d
<1> QED
    BY <1>7, <1>8
-----------------------------------------------------------------------------
(* The headers of a message: the ones the handshake needs come first, and  *)
(* none that was added has the name of one of them.                        *)

HeadersOf(x) == IsFiniteSet(added[x]) /\ added[x] \cap DISALLOWED_HEADERS(x) = {}
HeadersInv == \A x \in Sides : HeadersOf(x)

\* SetToSeq returns a sequence of elements of the set.
LEMMA SetToSeqFacts ==
    ASSUME NEW S, IsFiniteSet(S)
    PROVE  /\ IsSeq(SetToSeq(S))
           /\ \A i \in 1..Len(SetToSeq(S)) : SetToSeq(S)[i] \in S
<1> DEFINE n == Cardinality(S)
<1>1. n \in Nat /\ Bijection(1..n, S) # {}
    BY FS_CardinalityType DEF ExistsBijection
<1>2. PICK f \in [1..n -> S] : IsInjective(f)
    BY <1>1 DEF Bijection, Injection
<1>3. SetToSeq(S) \in [1..n -> S]
    BY <1>2 DEF SetToSeq
<1> DEFINE s == SetToSeq(S)
<1> HIDE DEF n, s
<1>4. s \in Seq(S)
    BY <1>1, <1>3 DEF s
<1>5. IsSeq(s)
    BY <1>4, SeqIsSeq
<1>6. \A i \in 1..Len(s) : s[i] \in S
    BY <1>4
<1> QED
    BY <1>5, <1>6 DEF s

\* The added headers as they go over the wire.
LEMMA AddedFacts ==
    ASSUME NEW x \in Sides, HeadersOf(x)
    PROVE  /\ IsSeq(Added(x))
           /\ \A i \in 1..Len(Added(x)) : Added(x)[i].name \notin DISALLOWED_HEADERS(x)
<1> DEFINE N == added[x]
           T == {Header(name, <<"added">>) : name \in N}
           f == [name \in N |-> Header(name, <<"added">>)]
<1>1. IsFiniteSet(N) /\ N \cap DISALLOWED_HEADERS(x) = {}
    BY DEF HeadersOf
<1>2. f \in Surjection(N, T)
    BY DEF Surjection
<1>3. IsFiniteSet(T)
    BY <1>1, <1>2, FS_Surjection
<1>4. \A h \in T : h.name \in N
    BY DEF Header
<1> HIDE DEF T, N
<1>5. IsSeq(SetToSeq(T)) /\ \A i \in 1..Len(SetToSeq(T)) : SetToSeq(T)[i] \in T
    BY <1>3, SetToSeqFacts
<1>6. Added(x) = SetToSeq(T)
    BY DEF Added, T, N
<1> QED
    BY <1>1, <1>4, <1>5, <1>6

\* A header that stands in one place has one value.
LEMMA OnePlace ==
    ASSUME NEW m, NEW name, NEW i \in Nat, i \in DOMAIN m.headers, m.headers[i].name = name,
           \A j \in DOMAIN m.headers : m.headers[j].name = name => j = i
    PROVE  LastValue(m, name) = m.headers[i].value /\ FirstValue(m, name) = m.headers[i].value
<1>1. Places(m, name) = {i}
    BY DEF Places
<1>2. Max({i}) = i /\ Min({i}) = i
    BY DEF Max, Min
<1> QED
    BY <1>1, <1>2 DEF LastValue, FirstValue

\* The header called name is number i of lead, and there is no other in lead or
\* in rest.
Leads(lead, rest, i, name) ==
    /\ i \in 1..Len(lead) /\ lead[i].name = name
    /\ \A j \in 1..Len(lead) : lead[j].name = name => j = i
    /\ \A j \in 1..Len(rest) : rest[j].name # name

\* One of the headers lead that come before the added ones.
LEMMA LeadFacts ==
    ASSUME NEW lead, IsSeq(lead), NEW rest, IsSeq(rest), NEW name, NEW i, Leads(lead, rest, i, name),
           NEW m, m.headers = Join(lead, rest)
    PROVE  LastValue(m, name) = lead[i].value /\ FirstValue(m, name) = lead[i].value
<1> DEFINE h == lead \o rest
<1>1. /\ IsSeq(h) /\ Len(h) = Len(lead) + Len(rest)
      /\ \A j \in 1..Len(lead) : h[j] = lead[j]
      /\ \A j \in (Len(lead) + 1)..(Len(lead) + Len(rest)) : h[j] = rest[j - Len(lead)]
    BY ConcatFacts
<1>2. DOMAIN h = 1..Len(h) /\ Len(lead) \in Nat /\ Len(rest) \in Nat
    BY <1>1, LengthFacts
<1>3. m.headers = h
    BY DEF Join
<1>0. /\ i \in 1..Len(lead) /\ lead[i].name = name
      /\ \A j \in 1..Len(lead) : lead[j].name = name => j = i
      /\ \A j \in 1..Len(rest) : rest[j].name # name
    BY DEF Leads
<1> HIDE DEF h
<1>4. i \in Nat /\ i \in DOMAIN h /\ h[i] = lead[i]
    BY <1>0, <1>1, <1>2
<1>5. ASSUME NEW j \in DOMAIN h, h[j].name = name
      PROVE  j = i
  <2>1. j \in 1..(Len(lead) + Len(rest))
    BY <1>1, <1>2
  <2>2. CASE j \in 1..Len(lead)
    BY <1>0, <1>1, <1>5, <2>2
  <2>3. CASE j \in (Len(lead) + 1)..(Len(lead) + Len(rest))
    <3>1. j - Len(lead) \in 1..Len(rest) /\ h[j] = rest[j - Len(lead)]
      BY <1>1, <1>2, <2>3
    <3> QED
      BY <1>0, <1>5, <3>1
  <2> QED
    BY <1>2, <2>1, <2>2, <2>3
<1> QED
    BY <1>0, <1>3, <1>4, <1>5, OnePlace

\* Short sequences.
LEMMA TupleFacts ==
    ASSUME NEW a, NEW b, NEW c, NEW d, NEW e
    PROVE  /\ IsSeq(<<a, b>>) /\ Len(<<a, b>>) = 2
           /\ IsSeq(<<a, b, c>>) /\ Len(<<a, b, c>>) = 3
           /\ IsSeq(<<a, b, c, d>>) /\ Len(<<a, b, c, d>>) = 4
           /\ IsSeq(<<a, b, c, d, e>>) /\ Len(<<a, b, c, d, e>>) = 5
<1>1. <<a, b>> \in Seq({a, b}) /\ <<a, b, c>> \in Seq({a, b, c})
    OBVIOUS
<1>2. <<a, b, c, d>> \in Seq({a, b, c, d}) /\ <<a, b, c, d, e>> \in Seq({a, b, c, d, e})
    OBVIOUS
<1>3. IsSeq(<<a, b>>) /\ IsSeq(<<a, b, c>>) /\ IsSeq(<<a, b, c, d>>) /\ IsSeq(<<a, b, c, d, e>>)
    BY <1>1, <1>2, SeqIsSeq
<1> QED
    BY <1>3

\* Two short sequences put together.
LEMMA TwoAndOne ==
    ASSUME NEW a, NEW b, NEW c
    PROVE  <<a, b>> \o <<c>> = <<a, b, c>>
<1> DEFINE p == <<a, b>>
           q == <<c>>
           r == <<a, b, c>>
<1>1. /\ IsSeq(p) /\ Len(p) = 2 /\ IsSeq(q) /\ Len(q) = 1 /\ IsSeq(r) /\ Len(r) = 3
      /\ p[1] = a /\ p[2] = b
      /\ q[1] = c
      /\ r[1] = a /\ r[2] = b /\ r[3] = c
    BY TupleFacts, OneIsSeq
<1> HIDE DEF p, q, r
<1>2. /\ IsSeq(p \o q) /\ Len(p \o q) = Len(p) + Len(q)
      /\ \A i \in 1..Len(p) : (p \o q)[i] = p[i]
      /\ \A i \in (Len(p) + 1)..(Len(p) + Len(q)) : (p \o q)[i] = q[i - Len(p)]
    BY <1>1, ConcatFacts, Zenon
<1> DEFINE s == p \o q
<1> HIDE DEF s
<1>3. /\ IsSeq(s) /\ Len(s) = 3
      /\ \A i \in 1..2 : s[i] = p[i]
      /\ \A i \in 3..3 : s[i] = q[i - 2]
    BY <1>1, <1>2 DEF s
<1>4. \A i \in 1..Len(s) : s[i] = r[i]
    BY <1>1, <1>3
<1>5. s = r
    BY <1>1, <1>3, <1>4, SameSeq
<1> QED
    BY <1>5 DEF s, p, q, r

\* The same for one and two,
LEMMA OneAndTwo ==
    ASSUME NEW a, NEW b, NEW c
    PROVE  <<a>> \o <<b, c>> = <<a, b, c>>
<1> DEFINE p == <<a>>
           q == <<b, c>>
           r == <<a, b, c>>
<1>1. /\ IsSeq(p) /\ Len(p) = 1 /\ IsSeq(q) /\ Len(q) = 2 /\ IsSeq(r) /\ Len(r) = 3
      /\ p[1] = a
      /\ q[1] = b /\ q[2] = c
      /\ r[1] = a /\ r[2] = b /\ r[3] = c
    BY TupleFacts, OneIsSeq
<1> HIDE DEF p, q, r
<1>2. /\ IsSeq(p \o q) /\ Len(p \o q) = Len(p) + Len(q)
      /\ \A i \in 1..Len(p) : (p \o q)[i] = p[i]
      /\ \A i \in (Len(p) + 1)..(Len(p) + Len(q)) : (p \o q)[i] = q[i - Len(p)]
    BY <1>1, ConcatFacts, Zenon
<1> DEFINE s == p \o q
<1> HIDE DEF s
<1>3. /\ IsSeq(s) /\ Len(s) = 3
      /\ \A i \in 1..1 : s[i] = p[i]
      /\ \A i \in 2..3 : s[i] = q[i - 1]
    BY <1>1, <1>2 DEF s
<1>4. \A i \in 1..Len(s) : s[i] = r[i]
    BY <1>1, <1>3
<1>5. s = r
    BY <1>1, <1>3, <1>4, SameSeq
<1> QED
    BY <1>5 DEF s, p, q, r

\* two and two,
LEMMA TwoAndTwo ==
    ASSUME NEW a, NEW b, NEW c, NEW d
    PROVE  <<a, b>> \o <<c, d>> = <<a, b, c, d>>
<1> DEFINE p == <<a, b>>
           q == <<c, d>>
           r == <<a, b, c, d>>
<1>1. /\ IsSeq(p) /\ Len(p) = 2 /\ IsSeq(q) /\ Len(q) = 2 /\ IsSeq(r) /\ Len(r) = 4
      /\ p[1] = a /\ p[2] = b
      /\ q[1] = c /\ q[2] = d
      /\ r[1] = a /\ r[2] = b /\ r[3] = c /\ r[4] = d
    BY TupleFacts, OneIsSeq
<1> HIDE DEF p, q, r
<1>2. /\ IsSeq(p \o q) /\ Len(p \o q) = Len(p) + Len(q)
      /\ \A i \in 1..Len(p) : (p \o q)[i] = p[i]
      /\ \A i \in (Len(p) + 1)..(Len(p) + Len(q)) : (p \o q)[i] = q[i - Len(p)]
    BY <1>1, ConcatFacts, Zenon
<1> DEFINE s == p \o q
<1> HIDE DEF s
<1>3. /\ IsSeq(s) /\ Len(s) = 4
      /\ \A i \in 1..2 : s[i] = p[i]
      /\ \A i \in 3..4 : s[i] = q[i - 2]
    BY <1>1, <1>2 DEF s
<1>4. \A i \in 1..Len(s) : s[i] = r[i]
    BY <1>1, <1>3
<1>5. s = r
    BY <1>1, <1>3, <1>4, SameSeq
<1> QED
    BY <1>5 DEF s, p, q, r

\* three and two.
LEMMA ThreeAndTwo ==
    ASSUME NEW a, NEW b, NEW c, NEW d, NEW e
    PROVE  <<a, b, c>> \o <<d, e>> = <<a, b, c, d, e>>
<1> DEFINE p == <<a, b, c>>
           q == <<d, e>>
           r == <<a, b, c, d, e>>
<1>1. /\ IsSeq(p) /\ Len(p) = 3 /\ IsSeq(q) /\ Len(q) = 2 /\ IsSeq(r) /\ Len(r) = 5
      /\ p[1] = a /\ p[2] = b /\ p[3] = c
      /\ q[1] = d /\ q[2] = e
      /\ r[1] = a /\ r[2] = b /\ r[3] = c /\ r[4] = d /\ r[5] = e
    BY TupleFacts, OneIsSeq
<1> HIDE DEF p, q, r
<1>2. /\ IsSeq(p \o q) /\ Len(p \o q) = Len(p) + Len(q)
      /\ \A i \in 1..Len(p) : (p \o q)[i] = p[i]
      /\ \A i \in (Len(p) + 1)..(Len(p) + Len(q)) : (p \o q)[i] = q[i - Len(p)]
    BY <1>1, ConcatFacts, Zenon
<1> DEFINE s == p \o q
<1> HIDE DEF s
<1>3. /\ IsSeq(s) /\ Len(s) = 5
      /\ \A i \in 1..3 : s[i] = p[i]
      /\ \A i \in 4..5 : s[i] = q[i - 3]
    BY <1>1, <1>2 DEF s
<1>4. \A i \in 1..Len(s) : s[i] = r[i]
    BY <1>1, <1>3
<1>5. s = r
    BY <1>1, <1>3, <1>4, SameSeq
<1> QED
    BY <1>5 DEF s, p, q, r

\* What the headers say that the handshake puts into a request.
LEMMA RequestHeaders ==
    ASSUME HeadersInv
    PROVE  /\ LastValue(build_request, "upgrade") = <<"websocket">>
           /\ LastValue(build_request, "connection") = <<"Upgrade">>
           /\ LastValue(build_request, "sec-websocket-key") = <<"key", key>>
           /\ LastValue(build_request, "sec-websocket-version") = <<"13">>
<1> DEFINE m == build_request
           u == Header("upgrade", <<"websocket">>)
           c == Header("connection", <<"Upgrade">>)
           k == Header("sec-websocket-key", <<"key", key>>)
           v == Header("sec-websocket-version", <<"13">>)
           h == Header("host", <<"host">>)
           rest == Added("client")
<1>1. IsSeq(rest) /\ \A j \in 1..Len(rest) : rest[j].name \notin DISALLOWED_HEADERS("client")
    BY AddedFacts DEF HeadersInv, Sides
<1>2. \A j \in 1..Len(rest) :
        rest[j].name \notin {"upgrade", "connection", "sec-websocket-key", "sec-websocket-version"}
    BY <1>1 DEF DISALLOWED_HEADERS
<1>3. CASE uri = "no host"
  <2> DEFINE lead == <<u, c, k, v>>
  <2>1. m.headers = Join(lead, rest)
    <3>1. m.headers = ((<<>> \o <<u, c>>) \o <<k, v>>) \o rest
      BY <1>3 DEF build_request, Handshaking
    <3>2. <<>> \o <<u, c>> = <<u, c>> /\ <<u, c>> \o <<k, v>> = lead
      BY TwoAndTwo, TupleFacts, EmptyConcat
    <3> QED
      BY <3>1, <3>2 DEF Join
  <2>2. IsSeq(lead) /\ Len(lead) = 4
    BY TupleFacts
  <2>3. /\ lead[1] = u /\ lead[2] = c /\ lead[3] = k /\ lead[4] = v
        /\ u.name = "upgrade" /\ c.name = "connection"
        /\ k.name = "sec-websocket-key" /\ v.name = "sec-websocket-version"
        /\ u.value = <<"websocket">> /\ c.value = <<"Upgrade">>
        /\ k.value = <<"key", key>> /\ v.value = <<"13">>
    BY DEF Header
  <2> HIDE DEF lead, m, rest, u, c, k, v
  <2>4. LastValue(m, "upgrade") = lead[1].value
    <3>1. Leads(lead, rest, 1, "upgrade")
      BY <1>2, <2>2, <2>3 DEF Leads
    <3> QED
      BY <1>1, <2>1, <2>2, <3>1, LeadFacts
  <2>5. LastValue(m, "connection") = lead[2].value
    <3>1. Leads(lead, rest, 2, "connection")
      BY <1>2, <2>2, <2>3 DEF Leads
    <3> QED
      BY <1>1, <2>1, <2>2, <3>1, LeadFacts
  <2>6. LastValue(m, "sec-websocket-key") = lead[3].value
    <3>1. Leads(lead, rest, 3, "sec-websocket-key")
      BY <1>2, <2>2, <2>3 DEF Leads
    <3> QED
      BY <1>1, <2>1, <2>2, <3>1, LeadFacts
  <2>7. LastValue(m, "sec-websocket-version") = lead[4].value
    <3>1. Leads(lead, rest, 4, "sec-websocket-version")
      BY <1>2, <2>2, <2>3 DEF Leads
    <3> QED
      BY <1>1, <2>1, <2>2, <3>1, LeadFacts
  <2> QED
    BY <2>3, <2>4, <2>5, <2>6, <2>7 DEF m
<1>4. CASE uri # "no host"
  <2> DEFINE lead == <<h, u, c, k, v>>
  <2>1. m.headers = Join(lead, rest)
    <3>1. m.headers = ((<<h>> \o <<u, c>>) \o <<k, v>>) \o rest
      BY <1>4 DEF build_request, Handshaking
    <3>2. <<h>> \o <<u, c>> = <<h, u, c>> /\ <<h, u, c>> \o <<k, v>> = lead
      BY OneAndTwo, ThreeAndTwo
    <3> QED
      BY <3>1, <3>2 DEF Join
  <2>2. IsSeq(lead) /\ Len(lead) = 5
    BY TupleFacts
  <2>3. /\ lead[1] = h /\ lead[2] = u /\ lead[3] = c /\ lead[4] = k /\ lead[5] = v
        /\ h.name = "host" /\ u.name = "upgrade" /\ c.name = "connection"
        /\ k.name = "sec-websocket-key" /\ v.name = "sec-websocket-version"
        /\ u.value = <<"websocket">> /\ c.value = <<"Upgrade">>
        /\ k.value = <<"key", key>> /\ v.value = <<"13">>
    BY DEF Header
  <2> HIDE DEF lead, m, rest, h, u, c, k, v
  <2>4. LastValue(m, "upgrade") = lead[2].value
    <3>1. Leads(lead, rest, 2, "upgrade")
      BY <1>2, <2>2, <2>3 DEF Leads
    <3> QED
      BY <1>1, <2>1, <2>2, <3>1, LeadFacts
  <2>5. LastValue(m, "connection") = lead[3].value
    <3>1. Leads(lead, rest, 3, "connection")
      BY <1>2, <2>2, <2>3 DEF Leads
    <3> QED
      BY <1>1, <2>1, <2>2, <3>1, LeadFacts
  <2>6. LastValue(m, "sec-websocket-key") = lead[4].value
    <3>1. Leads(lead, rest, 4, "sec-websocket-key")
      BY <1>2, <2>2, <2>3 DEF Leads
    <3> QED
      BY <1>1, <2>1, <2>2, <3>1, LeadFacts
  <2>7. LastValue(m, "sec-websocket-version") = lead[5].value
    <3>1. Leads(lead, rest, 5, "sec-websocket-version")
      BY <1>2, <2>2, <2>3 DEF Leads
    <3> QED
      BY <1>1, <2>1, <2>2, <3>1, LeadFacts
  <2> QED
    BY <2>3, <2>4, <2>5, <2>6, <2>7 DEF m
<1> QED
    BY <1>3, <1>4

\* What the headers say that the handshake puts into a response.
LEMMA ResponseHeaders ==
    ASSUME HeadersInv, NEW a
    PROVE  /\ FirstValue(SwitchingProtocols(a), "sec-websocket-accept") = a
           /\ Len(SwitchingProtocols(a).headers) = 3 + Len(Added("server"))
<1> DEFINE m == SwitchingProtocols(a)
           u == Header("upgrade", <<"websocket">>)
           c == Header("connection", <<"Upgrade">>)
           s == Header("sec-websocket-accept", a)
           rest == Added("server")
           lead == <<u, c, s>>
<1>1. IsSeq(rest) /\ \A j \in 1..Len(rest) : rest[j].name \notin DISALLOWED_HEADERS("server")
    BY AddedFacts DEF HeadersInv, Sides
<1>2. \A j \in 1..Len(rest) : rest[j].name # "sec-websocket-accept"
    BY <1>1 DEF DISALLOWED_HEADERS
<1>3. m.headers = Join(lead, rest)
  <2>1. m.headers = (<<u, c>> \o <<s>>) \o rest
    BY DEF SwitchingProtocols, Handshaking
  <2> QED
    BY <2>1, TwoAndOne DEF Join
<1>4. IsSeq(lead) /\ Len(lead) = 3
    BY TupleFacts
<1>5. /\ lead[1] = u /\ lead[2] = c /\ lead[3] = s
      /\ u.name = "upgrade" /\ c.name = "connection" /\ s.name = "sec-websocket-accept"
      /\ s.value = a
    BY DEF Header
<1> HIDE DEF lead, m, rest, u, c, s
<1>6. Leads(lead, rest, 3, "sec-websocket-accept")
    BY <1>2, <1>4, <1>5 DEF Leads
<1>7. FirstValue(m, "sec-websocket-accept") = lead[3].value
    BY <1>1, <1>3, <1>4, <1>6, LeadFacts
<1>8. Len(m.headers) = 3 + Len(rest)
    BY <1>1, <1>3, <1>4, JoinFacts
<1> QED
    BY <1>5, <1>7, <1>8 DEF m, rest


-----------------------------------------------------------------------------
(* A step of x, as its peer r sees it.                                     *)

\* A step that reads nothing leaves the chain as what is sent was,
LEMMA ChainKept ==
    ASSUME NEW r \in Sides, NEW x \in Sides, x = Peer(r), Alone(x), Sent(x)' = Sent(x)
    PROVE  Chain(r)' = Chain(r)
<1>1. Peer(x) = r
    BY Peers
<1>2. got'[r] = got[r] /\ inbuf'[r] = inbuf[r]
    BY <1>1 DEF Alone
<1>3. Chain(r)' = Join(got'[r], Join(inbuf'[r], Sent(x)'))
    BY DEF Chain
<1>4. Chain(r) = Join(got[r], Join(inbuf[r], Sent(x)))
    BY DEF Chain
<1> QED
    BY <1>2, <1>3, <1>4

Replied == {"replying", "open", "closing", "shut"}

\* The message of x stays what it was.
LEMMA SameMessage ==
    ASSUME NEW x \in Sides, Alone(x), added' = added, IsForeign(x)' <=> IsForeign(x),
           phase'[x] \in Replied => phase[x] \in Replied,
           phase'[x] = "refusing" => phase[x] = "refusing",
           phase[x] # "refusing" /\ (todo[x] # <<>> \/ phase[x] \in Returned) =>
                todo'[x] # <<>> \/ phase'[x] \in Returned
    PROVE  \A m : IsMessage(x, m) => IsMessage(x, m)'
<1> SUFFICES ASSUME NEW m, IsMessage(x, m) PROVE IsMessage(x, m)'
    OBVIOUS
<1>1. build_request' = build_request
    BY DEF Alone, build_request, Added
<1>2. \A k : SwitchingProtocols(k)' = SwitchingProtocols(k)
    BY DEF Alone, SwitchingProtocols, Added
<1>3. IsForeign(Peer(x))' <=> IsForeign(Peer(x))
    BY DEF Alone, IsForeign
<1>4. key' = key
    BY DEF Alone
<1>5. BAD_REQUEST' = BAD_REQUEST
    BY DEF BAD_REQUEST
<1> QED
    BY <1>1, <1>2, <1>3, <1>4, <1>5 DEF IsMessage, Replied

\* x hands on what it has to say.
LEMMA SenderKeeps ==
    ASSUME NEW r \in Sides, NEW x \in Sides, x = Peer(r), Alone(x), Flow(r),
           Sent(x)' = Sent(x), ends'[x].queued = ends[x].queued,
           \A m : IsMessage(x, m) => IsMessage(x, m)',
           Unsent(x)' <=> Unsent(x), phase[x] \in Spent => phase'[x] \in Spent,
           gone[x] => gone'[x],
           (gone[x] \/ todo[x] = <<>>) /\ out[x] = <<>> => out'[x] = <<>>,
           gone[x] /\ out[x] = <<>> => net'[x] = net[x],
           todo[x] = <<>> => todo'[x] = <<>>,
           phase[x] \in Returned => phase'[x] \in Returned,
           IsForeign(x)' <=> IsForeign(x)
    PROVE  Flow(r)'
<1>1. Chain(r)' = Chain(r)
    BY ChainKept
<1>2. Peer(x) = r
    BY Peers
<1>3. phase'[r] = phase[r] /\ got'[r] = got[r] /\ inbuf'[r] = inbuf[r]
    BY <1>2 DEF Alone
<1>4. Pending(r)'
  <2>1. Nothing(r) => Nothing(r)'
    BY <1>1 DEF Nothing
  <2>2. Lost(r) => Lost(r)'
    BY <1>3 DEF Lost
  <2>3. Whole(r) => Whole(r)'
    BY <1>1 DEF Whole
  <2> QED
    BY <1>3, <2>1, <2>2, <2>3 DEF Flow, Pending
<1>5. Taken(r)'
  <2>1. r = "client" => x = "server"
    BY DEF Peer
  <2> QED
    BY <1>1, <1>3, <2>1 DEF Flow, Taken
<1> QED
    BY <1>4, <1>5 DEF Flow

\* x has not said anything, and still does not.
LEMMA SenderSilent ==
    ASSUME ProgressInv, NEW r \in Sides, NEW x \in Sides, x = Peer(r), Alone(x), Flow(r),
           Unsent(x), ends'[x] = ends[x], todo'[x] = todo[x], out'[x] = <<>>, net'[x] = net[x],
           Unsent(x)' \/ phase'[x] \in Spent
    PROVE  Flow(r)'
<1>1. Peer(x) = r
    BY Peers
<1>2. /\ ends'[x] = Fresh /\ todo'[x] = <<>> /\ net'[x] = <<>>
      /\ inbuf'[r] = <<>> /\ phase'[r] = phase[r] /\ got'[r] = got[r]
    BY <1>1, Parts DEF Progress, Alone
<1>3. phase'[r] \notin Past
    BY <1>2 DEF Flow, Taken
<1>4. got'[r] = <<>> => Chain(r)' = <<>>
  <2>1. Join(<<>>, <<>>) = <<>>
    BY EmptyIsSeq, JoinEmpty
  <2>2. IsEnd(Fresh) /\ Fresh.queued = <<>> /\ Fresh.written = 0
    BY EmptyIsSeq DEF IsEnd, Fresh, Fields
  <2>3. SubSeq(<<>>, 0 + 1, Len(<<>>)) = <<>>
    BY EmptyIsSeq
  <2>4. Rest(x)' = <<>>
    BY <1>2, <2>2, <2>3 DEF Rest
  <2>5. Sent(x)' = <<>>
    BY <1>2, <2>1, <2>4 DEF Sent
  <2>6. Chain(r)' = Join(got'[r], Join(inbuf'[r], Sent(x)'))
    BY DEF Chain
  <2> QED
    BY <1>2, <2>1, <2>5, <2>6
<1>5. ends'[x].queued = <<>>
    BY <1>2 DEF Fresh
<1> QED
    BY <1>2, <1>3, <1>4, <1>5 DEF Flow, Taken, Pending, Nothing

\* x begins with its message m.
LEMMA SenderBegins ==
    ASSUME ProgressInv, NEW r \in Sides, NEW x \in Sides, x = Peer(r), Alone(x), Flow(r),
           Unsent(x), ends'[x] = ends[x], out'[x] = <<>>, NEW m, IsMessage(x, m)',
           \/ todo'[x] = Units(m) /\ net'[x] = net[x]
           \/ todo'[x] = todo[x] /\ net'[x] = Join(net[x], Units(m))
    PROVE  Flow(r)'
<1> DEFINE u == Units(m)
<1>0. IsSeq(u)
    BY UnitsFacts
<1>1. Peer(x) = r
    BY Peers
<1>2. /\ ends'[x] = Fresh /\ todo[x] = <<>> /\ net[x] = <<>>
      /\ inbuf'[r] = <<>> /\ phase'[r] = phase[r] /\ got'[r] = got[r]
    BY <1>1, Parts DEF Progress, Alone
<1>3. phase'[r] \notin Past
    BY <1>2 DEF Flow, Taken
<1>4. Join(<<>>, <<>>) = <<>> /\ Join(u, <<>>) = u /\ Join(<<>>, u) = u
    BY <1>0, EmptyIsSeq, JoinEmpty
<1>5. Fresh.queued = <<>> /\ Fresh.written = 0
    BY DEF Fresh
<1>6. SubSeq(<<>>, 0 + 1, Len(<<>>)) = <<>>
    BY EmptyIsSeq
<1>7. Rest(x)' = <<>>
    BY <1>2, <1>5, <1>6 DEF Rest
<1>12. \/ todo'[x] = u /\ net'[x] = <<>>
       \/ todo'[x] = <<>> /\ net'[x] = Join(<<>>, u)
    BY <1>2
<1> HIDE DEF u
<1>8. Sent(x)' = u
    BY <1>2, <1>4, <1>7, <1>12 DEF Sent
<1>9. Chain(r)' = Join(got'[r], Join(inbuf'[r], Sent(x)'))
    BY DEF Chain
<1>10. got'[r] = <<>> => Chain(r)' = Join(u, <<>>)
    BY <1>2, <1>4, <1>8, <1>9
<1>11. got'[r] = <<>> => Whole(r)'
    BY <1>2, <1>5, <1>10 DEF Whole, u
<1> QED
    BY <1>2, <1>3, <1>11 DEF Flow, Taken, Pending

\* What the peer has more to say comes to the end of the chain.
LEMMA ChainGrows ==
    ASSUME ProgressInv, NEW r \in Sides, NEW x \in Sides, x = Peer(r), Alone(x),
           NEW fs, IsSeq(fs), Sent(x)' = Join(Sent(x), fs)
    PROVE  Chain(r)' = Join(Chain(r), fs)
<1>1. Peer(x) = r
    BY Peers
<1>2. got'[r] = got[r] /\ inbuf'[r] = inbuf[r]
    BY <1>1 DEF Alone
<1>3. IsSeq(got[r]) /\ IsSeq(inbuf[r]) /\ IsSeq(Sent(x))
    BY ChainFacts
<1> DEFINE g == got[r]
           i == inbuf[r]
           s == Sent(x)
<1>4. /\ IsSeq(g) /\ IsSeq(i) /\ IsSeq(s)
      /\ Chain(r) = Join(g, Join(i, s)) /\ Chain(r)' = Join(g, Join(i, Join(s, fs)))
    BY <1>2, <1>3 DEF Chain
<1> HIDE DEF g, i, s
<1>5. Join(g, Join(i, Join(s, fs))) = Join(Join(g, Join(i, s)), fs)
    BY <1>4, JoinBehind
<1> QED
    BY <1>4, <1>5

\* and so to the end of what it is a part of.
LEMMA WholeGrows ==
    ASSUME NEW r \in Sides, NEW x \in Sides, x = Peer(r), NEW fs, IsSeq(fs), IsSeq(ends[x].queued),
           Chain(r)' = Join(Chain(r), fs), ends'[x].queued = Join(ends[x].queued, fs),
           NEW m, IsMessage(x, m)', Chain(r) = Join(Units(m), ends[x].queued)
    PROVE  Whole(r)'
<1> DEFINE u == Units(m)
           q == ends[x].queued
<1>1. IsSeq(u) /\ IsSeq(q)
    BY UnitsFacts
<1> HIDE DEF u, q
<1>2. Join(Join(u, q), fs) = Join(u, Join(q, fs))
    BY <1>1, JoinAssociative
<1>3. Chain(r)' = Join(Units(m), ends'[x].queued)
    BY <1>2 DEF u, q
<1> QED
    BY <1>3 DEF Whole

\* x has frames fs more to send.
LEMMA SenderGrows ==
    ASSUME ProgressInv, NEW r \in Sides, NEW x \in Sides, x = Peer(r), Alone(x), Flow(r),
           NEW fs, IsSeq(fs), Sent(x)' = Join(Sent(x), fs),
           ends'[x].queued = Join(ends[x].queued, fs),
           added' = added, phase[x] \in {"open", "closing", "foreign open"},
           phase'[x] \in {"open", "closing"} \/ phase'[x] = phase[x],
           phase[x] = "foreign open" => phase'[x] = phase[x],
           out'[x] = out[x], todo'[x] = todo[x]
    PROVE  Flow(r)'
<1>1. Peer(x) = r
    BY Peers
<1>2. /\ phase'[r] = phase[r] /\ got'[r] = got[r] /\ inbuf'[r] = inbuf[r]
      /\ uri' = uri /\ key' = key
    BY <1>1 DEF Alone
<1>3. Chain(r)' = Join(Chain(r), fs)
    BY ChainGrows
<1>4. ~Unsent(x) /\ ~Unsent(x)' /\ phase[x] \notin Spent /\ ~gone[x]
    BY Parts DEF Unsent, Spent, TypeOf, Leaving
<1>5. \A m : IsMessage(x, m) => IsMessage(x, m)'
  <2>1. phase'[x] \in Replied <=> phase[x] \in Replied
    BY DEF Replied
  <2>2. phase'[x] # "refusing" /\ (phase[x] \in Returned <=> phase'[x] \in Returned)
    BY DEF Returned
  <2> QED
    BY <2>1, <2>2, SameMessage DEF IsForeign
<1>6. Whole(r) => Whole(r)'
  <2>1. ASSUME Whole(r) PROVE Whole(r)'
    <3>1. PICK m : IsMessage(x, m) /\ Chain(r) = Join(Units(m), ends[x].queued)
      BY <2>1 DEF Whole
    <3>2. IsMessage(x, m)'
      BY <1>5, <3>1
    <3>3. IsSeq(ends[x].queued)
      BY SentFacts
    <3> QED
      BY <1>3, <3>1, <3>2, <3>3, WholeGrows
  <2> QED
    BY <2>1
<1>7. Pending(r)'
    BY <1>2, <1>4, <1>6 DEF Flow, Pending, Nothing, Lost
<1>8. Taken(r)'
  <2>1. r = "client" => x = "server"
    BY DEF Peer
  <2>2. phase[x] \in Returned => phase'[x] \in Returned
    BY DEF Returned
  <2>3. IsForeign(x)' <=> IsForeign(x)
    BY DEF IsForeign
  <2> QED
    BY <1>2, <1>3, <1>4, <2>1, <2>2, <2>3 DEF Flow, Taken
<1> QED
    BY <1>7, <1>8 DEF Flow

\* x leaves, and what it has written and not flushed is lost.
LEMMA SenderLoses ==
    ASSUME ProgressInv, NEW r \in Sides, NEW x \in Sides, x = Peer(r), Alone(x), Flow(r),
           gone'[x], out'[x] = <<>>, net'[x] = net[x], out[x] # <<>> \/ todo[x] # <<>>
    PROVE  Flow(r)'
<1>1. Peer(x) = r
    BY Peers
<1>2. phase'[r] = phase[r] /\ got'[r] = got[r] /\ inbuf'[r] = inbuf[r]
    BY <1>1 DEF Alone
<1>3. phase[r] \notin Past
    BY DEF Flow, Taken
<1>4. ASSUME phase[r] \in Unread
      PROVE  got[r] = <<>> /\ Len(inbuf[r]) + Len(net[x]) < 2
  <2>1. got[r] = <<>> /\ (Nothing(r) \/ Lost(r) \/ Whole(r))
    BY <1>4 DEF Flow, Pending
  <2>2. /\ IsSeq(inbuf[r]) /\ IsSeq(net[x]) /\ IsSeq(out[x]) /\ IsSeq(todo[x]) /\ IsEnd(ends[x])
        /\ Progress(x)
    BY ChainFacts, SentFacts, Parts
  <2>3. /\ Len(inbuf[r]) \in Nat /\ Len(net[x]) \in Nat /\ Len(out[x]) \in Nat /\ Len(todo[x]) \in Nat
        /\ (Len(out[x]) # 0 \/ Len(todo[x]) # 0)
    BY <2>2, LengthFacts
  <2>4. CASE Nothing(r)
    <3>1. inbuf[r] = <<>> /\ net[x] = <<>>
      <4>1. Len(Chain(r)) = 0 /\ Len(Chain(r)) = Len(got[r]) + (Len(inbuf[r]) + Len(Sent(x)))
        BY <2>4, ChainFacts, EmptyIsSeq DEF Nothing
      <4>2. /\ Len(Sent(x)) = Len(net[x]) + (Len(out[x]) + (Len(todo[x]) + Len(Rest(x))))
            /\ Len(Rest(x)) \in Nat
        BY SentFacts, LengthFacts
      <4>3. Len(got[r]) \in Nat
        BY ChainFacts, LengthFacts
      <4> DEFINE a == Len(inbuf[r])
                 b == Len(net[x])
                 c == Len(out[x])
                 d == Len(todo[x])
                 e == Len(Rest(x))
                 g == Len(got[r])
      <4>5. /\ 0 = g + (a + (b + (c + (d + e)))) /\ a \in Nat /\ b \in Nat /\ c \in Nat /\ d \in Nat
            /\ e \in Nat /\ g \in Nat
        BY <2>3, <4>1, <4>2, <4>3, Zenon
      <4> HIDE DEF a, b, c, d, e, g
      <4>6. a = 0 /\ b = 0
        BY <4>5
      <4>4. Len(inbuf[r]) = 0 /\ Len(net[x]) = 0
        BY <4>6, Zenon DEF a, b
      <4> QED
        BY <2>2, <4>4, LengthFacts
    <3> QED
      BY <2>1, <3>1, EmptyIsSeq
  <2>5. CASE Lost(r)
    BY <2>1, <2>5 DEF Lost
  <2>6. CASE Whole(r)
    <3>1. ends[x].written = 0
      <4>1. todo[x] # <<>> => ends[x] = Fresh
        BY <2>2 DEF Progress
      <4>2. Fresh.written = 0
        BY DEF Fresh
      <4>3. out[x] # <<>> => ~(ends[x].written > 0)
        BY <2>2 DEF Progress
      <4>4. Len(ends[x].queued) \in Nat /\ ends[x].written \in 0..Len(ends[x].queued)
        BY <2>2, LengthFacts DEF IsEnd
      <4>5. CASE todo[x] # <<>>
        BY <4>1, <4>2, <4>5
      <4>6. CASE out[x] # <<>>
        BY <4>3, <4>4, <4>6
      <4> QED
        BY <4>5, <4>6
    <3>2. Len(inbuf[r]) + Len(net[x]) + Len(out[x]) + Len(todo[x]) = 2
      BY <2>1, <2>6, <3>1, MessageLength
    <3> DEFINE a == Len(inbuf[r])
               b == Len(net[x])
               c == Len(out[x])
               d == Len(todo[x])
    <3>3. a + b + c + d = 2 /\ a \in Nat /\ b \in Nat /\ c \in Nat /\ d \in Nat /\ (c # 0 \/ d # 0)
      BY <2>3, <3>2, Zenon
    <3> HIDE DEF a, b, c, d
    <3>4. a + b < 2
      BY <3>3
    <3> QED
      BY <2>1, <3>4 DEF a, b
  <2> QED
    BY <2>1, <2>4, <2>5, <2>6
<1> QED
    BY <1>2, <1>3, <1>4 DEF Flow, Taken, Pending, Lost

-----------------------------------------------------------------------------
(* A step of x, as x sees it.                                              *)

\* A step of x does not change the message of its peer.
LEMMA OtherMessage ==
    ASSUME NEW x \in Sides, Alone(x), IsForeign(x)' <=> IsForeign(x)
    PROVE  \A m : IsMessage(Peer(x), m) => IsMessage(Peer(x), m)'
<1> DEFINE y == Peer(x)
<1>1. y = "client" => build_request' = build_request
    BY DEF Alone, build_request, Added
<1>2. y = "server" => \A k : SwitchingProtocols(k)' = SwitchingProtocols(k)
    BY DEF Alone, SwitchingProtocols, Added
<1>3. IsForeign(y)' <=> IsForeign(y)
    BY DEF Alone, IsForeign
<1>4. key' = key /\ phase'[y] = phase[y] /\ todo'[y] = todo[y]
    BY DEF Alone
<1>5. BAD_REQUEST' = BAD_REQUEST
    BY DEF BAD_REQUEST
<1>6. Peer(y) = x /\ (y = "client" \/ y = "server")
    BY Peers DEF Sides
<1> SUFFICES ASSUME NEW m, IsMessage(y, m) PROVE IsMessage(y, m)'
    OBVIOUS
<1> HIDE DEF y
<1> QED
    BY <1>1, <1>2, <1>3, <1>4, <1>5, <1>6 DEF IsMessage

\* x reads nothing.
LEMMA ReaderKeeps ==
    ASSUME NEW x \in Sides, Alone(x), Flow(x),
           inbuf'[x] = inbuf[x], got'[x] = got[x], net'[Peer(x)] = net[Peer(x)],
           phase'[x] \in Unread => phase[x] \in Unread,
           phase'[x] \in Past => phase[x] \in Past,
           IsForeign(x)' <=> IsForeign(x)
    PROVE  Flow(x)'
<1> DEFINE y == Peer(x)
<1>1. \A m : IsMessage(y, m) => IsMessage(y, m)'
    BY OtherMessage
<1>2. /\ phase'[y] = phase[y] /\ out'[y] = out[y] /\ todo'[y] = todo[y] /\ ends'[y] = ends[y]
      /\ (gone'[y] <=> gone[y])
    BY DEF Alone
<1>3. Chain(x)' = Chain(x)
    BY <1>2 DEF Chain, Sent, Rest
<1>4. Unsent(y)' <=> Unsent(y)
    BY <1>2 DEF Unsent
<1>5. Nothing(x) \/ Lost(x) \/ Whole(x) => Nothing(x)' \/ Lost(x)' \/ Whole(x)'
    BY <1>1, <1>2, <1>3, <1>4 DEF Nothing, Lost, Whole
<1>6. Pending(x)'
    BY <1>5 DEF Flow, Pending
<1>7. x = "client" => y = "server"
    BY DEF Peer
<1>8. IsForeign(y)' <=> IsForeign(y)
    BY <1>2 DEF IsForeign
<1>9. Taken(x)'
    BY <1>2, <1>3, <1>4, <1>7, <1>8 DEF Flow, Taken
<1> QED
    BY <1>6, <1>9 DEF Flow

\* x does not read any more.
LEMMA ReaderLeaves ==
    ASSUME NEW x, phase'[x] \notin Unread \cup Past
    PROVE  Flow(x)'
BY DEF Flow, Pending, Taken

\* Both sides together.
LEMMA BothFlow ==
    ASSUME ProgressInv', NEW x \in Sides, Flow(x)', Flow(Peer(x))'
    PROVE  FlowInv'
<1>1. ASSUME NEW z \in Sides PROVE Flow(z)'
  <2>1. CASE z = x
    BY <2>1
  <2>2. CASE z = Peer(x)
    BY <2>2
  <2> QED
    BY <2>1, <2>2, Peers
<1> QED
    BY <1>1 DEF FlowInv

\* The peer of the side that takes a step, as the reader.
LEMMA Reader ==
    ASSUME FlowInv, NEW x \in Sides
    PROVE  /\ ProgressInv /\ Domains /\ Flow(x) /\ DOMAIN ends[x] = Fields /\ IsEnd(ends[x])
           /\ TypeOf(x) /\ Progress(x)
           /\ Peer(x) \in Sides /\ x = Peer(Peer(x)) /\ Flow(Peer(x))
<1>1. Peer(x) \in Sides /\ x = Peer(Peer(x))
    BY Peers
<1> QED
    BY <1>1, Parts DEF FlowInv

-----------------------------------------------------------------------------
(* What x has to say, after each kind of step.                             *)

\* Nothing changes,
LEMMA SentSame ==
    ASSUME NEW x, net'[x] = net[x], out'[x] = out[x], todo'[x] = todo[x],
           ends'[x].queued = ends[x].queued, ends'[x].written = ends[x].written
    PROVE  Sent(x)' = Sent(x)
BY DEF Sent, Rest

\* frames are queued,
LEMMA SentGrows ==
    ASSUME ProgressInv, NEW x \in Sides, net'[x] = net[x], out'[x] = out[x], todo'[x] = todo[x],
           NEW fs, IsSeq(fs), Queues(x, fs)
    PROVE  Sent(x)' = Join(Sent(x), fs)
<1> DEFINE n == net[x]
           o == out[x]
           t == todo[x]
           r == Rest(x)
           q == ends[x].queued
           w == ends[x].written
<1>1. IsSeq(n) /\ IsSeq(o) /\ IsSeq(t) /\ IsSeq(r) /\ IsSeq(q) /\ w \in 0..Len(q)
    BY SentFacts DEF IsEnd
<1>2. r = SubSeq(q, w + 1, Len(q)) /\ Sent(x) = Join(n, Join(o, Join(t, r)))
    BY DEF Rest, Sent
<1>3. Rest(x)' = SubSeq(q \o fs, w + 1, Len(q \o fs))
    BY DEF Rest, Queues
<1>4. Sent(x)' = Join(n, Join(o, Join(t, Rest(x)')))
    BY DEF Sent
<1> HIDE DEF n, o, t, r, q, w
<1>5. Rest(x)' = Join(r, fs)
    BY <1>1, <1>2, <1>3, SuffixGrows DEF Join
<1> DEFINE s == Join(o, Join(t, r))
<1>6. IsSeq(s)
    BY <1>1, JoinFacts
<1>7. Join(o, Join(t, Join(r, fs))) = Join(s, fs)
    BY <1>1, JoinBehind
<1> HIDE DEF s
<1>8. Join(Join(n, s), fs) = Join(n, Join(s, fs))
    BY <1>1, <1>6, JoinAssociative
<1> QED
    BY <1>2, <1>4, <1>5, <1>7, <1>8 DEF s

\* a part of the message is written,
LEMMA SentWrite ==
    ASSUME ProgressInv, NEW x \in Sides, net'[x] = net[x], todo[x] # <<>>, ends'[x] = ends[x],
           out'[x] = Append(out[x], Head(todo[x])), todo'[x] = Tail(todo[x])
    PROVE  Sent(x)' = Sent(x)
<1>1. IsSeq(out[x]) /\ IsSeq(todo[x]) /\ IsSeq(Rest(x))
    BY SentFacts
<1>2. Join(Append(out[x], Head(todo[x])), Join(Tail(todo[x]), Rest(x)))
        = Join(out[x], Join(todo[x], Rest(x)))
    BY <1>1, MoveHead
<1>3. Rest(x)' = Rest(x)
    BY DEF Rest
<1> QED
    BY <1>2, <1>3 DEF Sent

\* what was written is flushed,
LEMMA SentFlush ==
    ASSUME ProgressInv, NEW x \in Sides, ends'[x] = ends[x], todo'[x] = todo[x],
           net'[x] = net[x] \o out[x], out'[x] = <<>>
    PROVE  Sent(x)' = Sent(x)
<1> DEFINE n == net[x]
           o == out[x]
           b == Join(todo[x], Rest(x))
<1>1. IsSeq(n) /\ IsSeq(o) /\ IsSeq(b)
    BY SentFacts
<1>2. Rest(x)' = Rest(x)
    BY DEF Rest
<1>3. Sent(x)' = Join(Join(n, o), Join(<<>>, b)) /\ Sent(x) = Join(n, Join(o, b))
    BY <1>2 DEF Sent, Join
<1> HIDE DEF n, o, b
<1> QED
    BY <1>1, <1>3, MoveAll

\* the transport sends on a part by itself,
LEMMA SentSpill ==
    ASSUME ProgressInv, NEW x \in Sides, ends'[x] = ends[x], todo'[x] = todo[x], out[x] # <<>>,
           net'[x] = Append(net[x], Head(out[x])), out'[x] = Tail(out[x])
    PROVE  Sent(x)' = Sent(x)
<1>1. IsSeq(net[x]) /\ IsSeq(out[x]) /\ IsSeq(Join(todo[x], Rest(x)))
    BY SentFacts
<1>2. Join(Append(net[x], Head(out[x])), Join(Tail(out[x]), Join(todo[x], Rest(x))))
        = Join(net[x], Join(out[x], Join(todo[x], Rest(x))))
    BY <1>1, MoveHead
<1>3. Rest(x)' = Rest(x)
    BY DEF Rest
<1> QED
    BY <1>2, <1>3 DEF Sent

\* the next frame of the queue is written,
LEMMA SentFrame ==
    ASSUME ProgressInv, NEW x \in Sides, todo'[x] = todo[x], todo[x] = <<>>, ~Flushed(x),
           ends'[x].queued = ends[x].queued, ends'[x].written = ends[x].written + 1,
           net'[x] = (net[x] \o out[x]) \o <<ends[x].queued[ends[x].written + 1]>>,
           out'[x] = <<>>
    PROVE  Sent(x)' = Sent(x)
<1> DEFINE n == net[x]
           o == out[x]
           q == ends[x].queued
           w == ends[x].written
           f == <<q[w + 1]>>
           r2 == SubSeq(q, (w + 1) + 1, Len(q))
<1>1. IsSeq(n) /\ IsSeq(o) /\ IsSeq(Rest(x)) /\ IsSeq(q) /\ w \in 0..Len(q) /\ w # Len(q)
    BY SentFacts DEF IsEnd, Flushed
<1>2. Rest(x) = SubSeq(q, w + 1, Len(q)) /\ Rest(x)' = r2
    BY DEF Rest
<1>3. Sent(x) = Join(n, Join(o, Join(<<>>, Rest(x))))
    BY DEF Sent
<1>4. Sent(x)' = Join((n \o o) \o f, Join(<<>>, Join(<<>>, r2)))
    BY <1>2 DEF Sent
<1> HIDE DEF n, o, q, w
<1>5. Rest(x) = Join(f, r2)
    BY <1>1, <1>2, SuffixNext DEF Join
<1>6. IsSeq(r2) /\ IsSeq(f)
  <2>1. Len(q) \in Nat
    BY <1>1, LengthFacts
  <2>2. (w + 1) + 1 \in Nat /\ (w + 1) + 1 >= 1 /\ Len(q) <= Len(q)
    BY <1>1, <2>1
  <2>3. IsSeq(r2)
    BY <1>1, <2>1, <2>2, SubSeqFacts
  <2> QED
    BY <2>3, OneIsSeq
<1> HIDE DEF f, r2
<1>7. Join(<<>>, Join(<<>>, r2)) = r2 /\ Join(<<>>, Join(f, r2)) = Join(f, r2)
    BY <1>6, JoinEmpty, JoinFacts
<1>8. Sent(x)' = Join(Join(Join(n, o), f), r2) /\ Sent(x) = Join(n, Join(o, Join(f, r2)))
    BY <1>3, <1>4, <1>5, <1>7 DEF Join
<1>9. Join(n, Join(o, Join(f, r2))) = Join(Join(n, Join(o, f)), r2)
    BY <1>1, <1>6, JoinBehind
<1>10. Join(Join(n, o), f) = Join(n, Join(o, f))
    BY <1>1, <1>6, JoinAssociative
<1> QED
    BY <1>8, <1>9, <1>10

\* another implementation sends a frame.
LEMMA SentForeign ==
    ASSUME ProgressInv, NEW x \in Sides, IsForeign(x), out'[x] = out[x], todo'[x] = todo[x], NEW f,
           IsEnd(ends'[x]), ends'[x].queued = Append(ends[x].queued, f),
           ends'[x].written = ends[x].written + 1, net'[x] = Append(net[x], f)
    PROVE  Sent(x)' = Join(Sent(x), <<f>>)
<1> DEFINE n == net[x]
           g == <<f>>
<1>1. IsSeq(n) /\ IsSeq(g) /\ IsSeq(ends[x].queued)
    BY SentFacts, OneIsSeq
<1>2. out[x] = <<>> /\ todo[x] = <<>> /\ ends[x].written = Len(ends[x].queued)
    BY Parts DEF Progress, Flushed
<1>3. Rest(x) = <<>>
    BY <1>2, SentFacts, RestFacts
<1>4. Rest(x)' = <<>>
  <2>1. ends'[x].written = Len(ends'[x].queued)
    BY <1>1, <1>2, AppendFacts
  <2>2. SubSeq(ends'[x].queued, ends'[x].written + 1, Len(ends'[x].queued)) = <<>>
    <3> DEFINE q == ends'[x].queued
               w == ends'[x].written
               r == SubSeq(q, w + 1, Len(q))
    <3>1. IsSeq(q) /\ w = Len(q) /\ Len(q) \in Nat
      BY <2>1, LengthFacts DEF IsEnd
    <3> HIDE DEF q, w
    <3>2. w + 1 \in Nat /\ w + 1 >= 1 /\ Len(q) <= Len(q) /\ ~(w + 1 <= Len(q))
      BY <3>1
    <3>3. IsSeq(r) /\ Len(r) = IF w + 1 <= Len(q) THEN Len(q) - (w + 1) + 1 ELSE 0
      BY <3>1, <3>2, SubSeqFacts
    <3>4. r = <<>>
      BY <3>2, <3>3, LengthFacts
    <3> QED
      BY <3>4 DEF q, w
  <2> QED
    BY <2>2 DEF Rest
<1>5. Join(<<>>, <<>>) = <<>>
    BY EmptyIsSeq, JoinEmpty
<1>6. Append(n, f) = Join(n, g)
    BY <1>1, AppendFacts DEF Join
<1>7. Sent(x) = Join(n, <<>>) /\ Sent(x)' = Join(Append(n, f), <<>>)
    BY <1>2, <1>3, <1>4, <1>5 DEF Sent
<1> HIDE DEF n, g
<1>8. Join(n, <<>>) = n /\ Join(Join(n, g), <<>>) = Join(n, g)
    BY <1>1, JoinEmpty, JoinFacts
<1>9. Sent(x)' = Join(Sent(x), g)
    BY <1>6, <1>7, <1>8
<1> QED
    BY <1>9 DEF g

\* x leaves, with what it has written.
LEMMA SenderLeaves ==
    ASSUME ProgressInv, NEW r \in Sides, NEW x \in Sides, x = Peer(r), Alone(x), Flow(r),
           NEW p \in {"failed", "cancelled", "closed", "shut", "foreign gone"}, Leaves(x, p, out[x]),
           added' = added, net'[x] = net[x], todo'[x] = todo[x],
           ends'[x].queued = ends[x].queued, ends'[x].written = ends[x].written,
           ~Unsent(x), IsForeign(x)' <=> IsForeign(x),
           phase[x] \in Returned => p \in Returned, phase[x] \notin Spent,
           p = "shut" => phase[x] \in Replied
    PROVE  Flow(r)'
<1>1. CASE HoldsBack /\ out[x] # <<>>
    BY <1>1, SenderLoses DEF Leaves
<1>2. CASE ~(HoldsBack /\ out[x] # <<>>)
  <2>1. phase'[x] = p /\ gone'[x] /\ out'[x] = out[x]
    BY <1>2 DEF Leaves
  <2>2. Sent(x)' = Sent(x)
    BY <2>1, SentSame
  <2>3. ~Unsent(x)'
    BY <2>1 DEF Unsent
  <2>4. \A m : IsMessage(x, m) => IsMessage(x, m)'
    <3>1. phase'[x] \in Replied => phase[x] \in Replied
      BY <2>1 DEF Replied
    <3>2. phase'[x] # "refusing"
      BY <2>1
    <3> QED
      BY <2>1, <3>1, <3>2, SameMessage
  <2> QED
    BY <2>1, <2>2, <2>3, <2>4, SenderKeeps
<1> QED
    BY <1>1, <1>2

\* Each step keeps FlowInv: add_header,
LEMMA AddHeaderFlow ==
    ASSUME FlowInv, UNCHANGED connVars, NEW x \in Sides, NEW name, add_header(x, name)
    PROVE  FlowInv'
<1> DEFINE y == Peer(x)
<1>1. /\ ProgressInv /\ Domains /\ Flow(x) /\ Progress(x) /\ y \in Sides /\ x = Peer(y) /\ Flow(y)
    BY Reader
<1>2. /\ Alone(x) /\ KeepsStream(x) /\ KeepsNet(x) /\ KeepsWrites(x) /\ Stays(x)
      /\ phase[x] = "new"
    BY <1>1, AddHeaderEffect
<1>3. Unsent(x) /\ Unsent(x)' /\ out[x] = <<>>
    BY <1>1, <1>2 DEF Unsent, Stays, Progress
<1>4. Flow(x)'
    BY <1>1, <1>2, ReaderKeeps DEF KeepsStream, KeepsNet, Stays, IsForeign
<1>5. Flow(y)'
    BY <1>1, <1>2, <1>3, SenderSilent DEF KeepsStream, KeepsNet, KeepsWrites
<1>6. ProgressInv'
    BY <1>1, AddHeaderProgress
<1> QED
    BY <1>4, <1>5, <1>6, BothFlow

\* connect,
LEMMA ConnectFlow ==
    ASSUME FlowInv, UNCHANGED connVars, NEW x \in Sides, x = "client", connect
    PROVE  FlowInv'
<1> DEFINE y == Peer(x)
<1>1. /\ ProgressInv /\ Domains /\ Flow(x) /\ Progress(x) /\ y \in Sides /\ x = Peer(y) /\ Flow(y)
    BY Reader
<1>2. /\ Alone(x) /\ KeepsStream(x) /\ KeepsNet(x) /\ KeepsWrites(x)
      /\ phase[x] = "new" /\ phase'[x] \in {"unreachable", "connected", "undialled"}
    BY <1>1, ConnectEffect
<1>3. Unsent(x) /\ Unsent(x)' /\ out[x] = <<>>
    BY <1>1, <1>2 DEF Unsent, Progress
<1>4. Flow(x)'
    BY <1>1, <1>2, ReaderKeeps DEF KeepsStream, KeepsNet, IsForeign, Unread, Past
<1>5. Flow(y)'
    BY <1>1, <1>2, <1>3, SenderSilent DEF KeepsStream, KeepsNet, KeepsWrites
<1>6. ProgressInv'
    BY <1>1, ConnectProgress
<1> QED
    BY <1>4, <1>5, <1>6, BothFlow

\* connect_on,
LEMMA ConnectOnFlow ==
    ASSUME FlowInv, UNCHANGED connVars, NEW x \in Sides, x = "client", connect_on
    PROVE  FlowInv'
<1> DEFINE y == Peer(x)
<1>0. PICK m : m = build_request
    OBVIOUS
<1>1. /\ ProgressInv /\ Domains /\ Flow(x) /\ Progress(x) /\ y \in Sides /\ x = Peer(y) /\ Flow(y)
    BY Reader
<1>2. /\ Alone(x) /\ KeepsStream(x) /\ KeepsNet(x) /\ out'[x] = out[x] /\ added' = added
      /\ phase[x] \in {"new", "connected"}
      /\ \/ phase'[x] = "undialled" /\ todo'[x] = todo[x]
         \/ phase'[x] = "writing" /\ todo'[x] = Units(m)
    BY <1>0, <1>1, ConnectOnEffect
<1>3. Unsent(x) /\ out[x] = <<>>
    BY <1>1, <1>2 DEF Unsent, Progress
<1>4. Flow(x)'
    BY <1>1, <1>2, ReaderKeeps DEF KeepsStream, KeepsNet, IsForeign, Unread, Past
<1>5. Flow(y)'
  <2>1. CASE phase'[x] = "undialled" /\ todo'[x] = todo[x]
    <3>1. Unsent(x)'
      BY <2>1 DEF Unsent
    <3> QED
      BY <1>1, <1>2, <1>3, <2>1, <3>1, SenderSilent DEF KeepsStream, KeepsNet
  <2>2. CASE phase'[x] = "writing" /\ todo'[x] = Units(m)
    <3>1. build_request' = m
      BY <1>0, <1>2 DEF Alone, build_request, Added
    <3>2. IsMessage(x, m)'
      BY <2>2, <3>1 DEF IsMessage, IsForeign
    <3> QED
      BY <1>1, <1>2, <1>3, <2>2, <3>2, SenderBegins DEF KeepsStream, KeepsNet
  <2> QED
    BY <1>2, <2>1, <2>2
<1>6. ProgressInv'
    BY <1>1, ConnectOnProgress
<1> QED
    BY <1>4, <1>5, <1>6, BothFlow

\* accept,
LEMMA AcceptFlow ==
    ASSUME FlowInv, UNCHANGED connVars, NEW x \in Sides, x = "server", accept
    PROVE  FlowInv'
<1> DEFINE y == Peer(x)
<1>1. /\ ProgressInv /\ Domains /\ Flow(x) /\ Progress(x) /\ y \in Sides /\ x = Peer(y) /\ Flow(y)
    BY Reader
<1>2. /\ Alone(x) /\ KeepsStream(x) /\ KeepsNet(x) /\ KeepsWrites(x)
      /\ phase[x] = "new" /\ phase'[x] = "reading"
    BY <1>1, AcceptEffect
<1>3. Unsent(x) /\ Unsent(x)' /\ out[x] = <<>>
    BY <1>1, <1>2 DEF Unsent, Progress
<1>4. Flow(x)'
    BY <1>1, <1>2, ReaderKeeps DEF KeepsStream, KeepsNet, IsForeign, Unread, Past
<1>5. Flow(y)'
    BY <1>1, <1>2, <1>3, SenderSilent DEF KeepsStream, KeepsNet, KeepsWrites
<1>6. ProgressInv'
    BY <1>1, AcceptProgress
<1> QED
    BY <1>4, <1>5, <1>6, BothFlow

\* the flush,
LEMMA FlushFlow ==
    ASSUME FlowInv, UNCHANGED connVars, NEW x \in Sides, x = "client", Flush
    PROVE  FlowInv'
<1> DEFINE y == Peer(x)
<1>1. /\ ProgressInv /\ Domains /\ Flow(x) /\ y \in Sides /\ x = Peer(y) /\ Flow(y) /\ TypeOf(x)
    BY Reader
<1>2. /\ Alone(x) /\ KeepsStream(x) /\ inbuf' = inbuf /\ todo' = todo /\ added' = added
      /\ phase[x] = "flushing" /\ phase'[x] = "reading" /\ (gone'[x] <=> gone[x])
      /\ net'[x] = net[x] \o out[x] /\ out'[x] = <<>> /\ net'[y] = net[y]
    BY <1>1, FlushEffect
<1>3. Flow(x)'
    BY <1>1, <1>2, ReaderKeeps DEF KeepsStream, IsForeign, Unread, Past
<1>4. Sent(x)' = Sent(x)
    BY <1>1, <1>2, SentFlush DEF KeepsStream
<1>5. ~Unsent(x) /\ ~Unsent(x)' /\ ~gone[x]
    BY <1>1, <1>2 DEF Unsent, TypeOf, Leaving
<1>6. \A m : IsMessage(x, m) => IsMessage(x, m)'
    BY <1>2, SameMessage DEF Replied, Returned, IsForeign
<1>7. Flow(y)'
    BY <1>1, <1>2, <1>4, <1>5, <1>6, SenderKeeps DEF KeepsStream, Spent, Returned, IsForeign
<1>8. ProgressInv'
    BY <1>1, FlushProgress
<1> QED
    BY <1>3, <1>7, <1>8, BothFlow

\* the write of the message,
LEMMA WriteFlow ==
    ASSUME FlowInv, UNCHANGED connVars, NEW x \in Sides, Write(x)
    PROVE  FlowInv'
<1> DEFINE y == Peer(x)
           w == Append(out[x], Head(todo[x]))
<1>1. /\ ProgressInv /\ Domains /\ Flow(x) /\ y \in Sides /\ x = Peer(y) /\ Flow(y) /\ TypeOf(x)
    BY Reader
<1>2. /\ Alone(x) /\ KeepsStream(x) /\ KeepsNet(x) /\ added' = added
      /\ phase[x] \in {"writing", "replying", "refusing"} /\ todo[x] # <<>>
      /\ todo'[x] = Tail(todo[x])
      /\ \/ phase[x] = "refusing" /\ Len(todo[x]) = 1 /\ Leaves(x, "failed", w)
         \/ out'[x] = w /\ (gone'[x] <=> gone[x]) /\ Len(todo[x]) # 1 /\ phase'[x] = phase[x]
         \/ /\ out'[x] = w /\ (gone'[x] <=> gone[x]) /\ phase[x] # "refusing" /\ Len(todo[x]) = 1
            /\ phase'[x] = IF x = "client" THEN "flushing" ELSE "open"
    BY <1>1, WriteEffect
<1>3. /\ phase[x] = "refusing" => x = "server"
      /\ phase[x] = "writing" => x = "client"
      /\ phase[x] = "replying" => x = "server"
    BY <1>1, <1>2 DEF TypeOf, Phases, Returned, ForeignPhases, Sides
<1> HIDE DEF w
<1>4. ProgressInv'
    BY <1>1, WriteProgress
<1>5. Flow(x)'
    BY <1>1, <1>2, <1>3, ReaderKeeps
       DEF KeepsStream, KeepsNet, IsForeign, Unread, Past, Leaves
<1>6. ~Unsent(x) /\ ~Unsent(x)' /\ ~gone[x]
    BY <1>1, <1>2, <1>3 DEF Unsent, TypeOf, Leaving, Leaves
<1>7. Flow(y)'
  <2>1. CASE Leaves(x, "failed", w) /\ HoldsBack
    BY <1>1, <1>2, <2>1, SenderLoses DEF Leaves, KeepsNet
  <2>2. CASE ~(Leaves(x, "failed", w) /\ HoldsBack)
    <3>1. out'[x] = w
      BY <1>2, <2>2 DEF Leaves
    <3>2. Sent(x)' = Sent(x)
      BY <1>1, <1>2, <3>1, SentWrite DEF KeepsStream, KeepsNet, w
    <3>3. \A m : IsMessage(x, m) => IsMessage(x, m)'
      <4>1. phase'[x] \in Replied => phase[x] \in Replied
        BY <1>2, <1>3 DEF Replied, Leaves
      <4>2. phase'[x] = "refusing" => phase[x] = "refusing"
        BY <1>2, <1>3 DEF Leaves
      <4>3. IsForeign(x)' <=> IsForeign(x)
        BY <1>2, <1>3 DEF IsForeign, Leaves
      <4>4. Len(todo[x]) # 1 => todo'[x] # <<>>
        <5>1. IsSeq(todo[x])
          BY <1>1 DEF TypeOf
        <5>2. IsSeq(Tail(todo[x])) /\ Len(Tail(todo[x])) = Len(todo[x]) - 1 /\ Len(todo[x]) \in Nat
          BY <1>2, <5>1, HeadTail, LengthFacts
        <5>3. Len(todo[x]) # 1 => Len(Tail(todo[x])) # 0
          BY <5>2
        <5> QED
          BY <1>2, <5>2, <5>3, LengthFacts
      <4>6. x = "client" \/ phase[x] = "refusing" \/ todo'[x] # <<>> \/ phase'[x] \in Returned
        BY <1>2, <4>4 DEF Returned
      <4>7. CASE x = "client"
        <5>1. build_request' = build_request
          BY <1>2 DEF Alone, build_request, Added
        <5> QED
          BY <1>2, <4>3, <4>7, <5>1 DEF IsMessage, IsForeign
      <4>8. CASE x # "client"
        BY <1>2, <4>1, <4>2, <4>3, <4>6, <4>8, SameMessage
      <4> QED
        BY <4>7, <4>8
    <3>4. phase[x] \notin Spent /\ phase[x] \notin Returned /\ (IsForeign(x)' <=> IsForeign(x)) /\ todo[x] # <<>>
      BY <1>2, <1>3 DEF Spent, Returned, IsForeign, Leaves
    <3> QED
      BY <1>1, <1>2, <1>6, <3>2, <3>3, <3>4, SenderKeeps DEF KeepsStream, KeepsNet
  <2> QED
    BY <2>1, <2>2
<1> QED
    BY <1>4, <1>5, <1>7, BothFlow

\* and its error.
LEMMA WriteErrorFlow ==
    ASSUME FlowInv, UNCHANGED connVars, NEW x \in Sides, WriteError(x)
    PROVE  FlowInv'
<1> DEFINE y == Peer(x)
<1>1. /\ ProgressInv /\ Domains /\ y \in Sides /\ x = Peer(y) /\ Flow(y)
    BY Reader
<1>2. /\ Alone(x) /\ KeepsStream(x) /\ KeepsNet(x) /\ todo'[x] = todo[x] /\ added' = added
      /\ phase[x] \in {"writing", "flushing", "replying", "refusing"}
      /\ Leaves(x, "failed", out[x])
    BY <1>1, WriteErrorEffect
<1>3. phase'[x] = "failed"
    BY <1>2 DEF Leaves
<1>4. Flow(x)'
    BY <1>3, ReaderLeaves DEF Unread, Past
<1>5. /\ ~Unsent(x) /\ (IsForeign(x)' <=> IsForeign(x)) /\ phase[x] \notin Returned
      /\ phase[x] \notin Spent
    BY <1>2, <1>3 DEF Unsent, IsForeign, Returned, Spent
<1>6. Flow(y)'
    BY <1>1, <1>2, <1>5, SenderLeaves DEF KeepsStream, KeepsNet
<1>7. ProgressInv'
    BY <1>1, WriteErrorProgress
<1> QED
    BY <1>4, <1>6, <1>7, BothFlow

\* x refuses the request, or answers it with m.
LEMMA AnswerFlow ==
    ASSUME ProgressInv, NEW x \in Sides, NEW y \in Sides, x = Peer(y), Flow(y), Alone(x),
           x = "server", phase[x] = "reading",
           ends'[x] = ends[x], out'[x] = out[x], net'[x] = net[x], NEW m, todo'[x] = Units(m),
           \/ m = BAD_REQUEST /\ phase'[x] = "refusing"
           \/ /\ phase'[x] = "replying" /\ todo'[x] # <<>>
              /\ \E k : m = SwitchingProtocols(k)' /\ (~IsForeign(y) => k = digest(<<"key", key>>))
    PROVE  Flow(y)'
<1>1. Unsent(x) /\ out[x] = <<>>
    BY Parts DEF Unsent, Progress
<1>2. Peer(x) = y /\ key' = key /\ phase'[y] = phase[y]
    BY Peers DEF Alone
<1>3. IsForeign(y)' <=> IsForeign(y)
    BY <1>2 DEF IsForeign
<1>4. BAD_REQUEST' = BAD_REQUEST
    BY DEF BAD_REQUEST
<1>5. IsMessage(x, m)'
    BY <1>2, <1>3, <1>4 DEF IsMessage, IsForeign
<1> QED
    BY <1>1, <1>5, SenderBegins

\* The end of the input keeps FlowInv,
LEMMA ReadEofFlow ==
    ASSUME FlowInv, UNCHANGED connVars, NEW x \in Sides, ReadEof(x)
    PROVE  FlowInv'
<1> DEFINE y == Peer(x)
<1>0. PICK m : m = BAD_REQUEST
    OBVIOUS
<1>1. /\ ProgressInv /\ Domains /\ Progress(x) /\ y \in Sides /\ x = Peer(y) /\ Flow(y) /\ Flow(x)
    BY Reader
<1>2. /\ Alone(x) /\ KeepsStream(x) /\ KeepsNet(x) /\ added' = added /\ phase[x] = "reading"
      /\ \/ /\ x = "server" /\ phase'[x] = "refusing" /\ todo'[x] = Units(m)
            /\ out'[x] = out[x] /\ (gone'[x] <=> gone[x])
         \/ Leaves(x, "failed", out[x]) /\ todo'[x] = todo[x]
    BY <1>0, <1>1, ReadEofEffect
<1>3. phase'[x] \in {"refusing", "failed"}
    BY <1>2 DEF Leaves
<1>4. Flow(x)'
    BY <1>3, ReaderLeaves DEF Unread, Past
<1>5. Flow(y)'
  <2>1. CASE /\ x = "server" /\ phase'[x] = "refusing" /\ todo'[x] = Units(m)
             /\ out'[x] = out[x]
    BY <1>0, <1>1, <1>2, <2>1, AnswerFlow DEF KeepsStream, KeepsNet
  <2>2. CASE Leaves(x, "failed", out[x]) /\ todo'[x] = todo[x] /\ x = "server"
    <3>1. Unsent(x) /\ out'[x] = <<>> /\ phase'[x] \in Spent
      BY <1>1, <1>2, <2>2 DEF Unsent, Progress, Leaves, Spent
    <3> QED
      BY <1>1, <1>2, <2>2, <3>1, SenderSilent DEF KeepsStream, KeepsNet
  <2>3. CASE Leaves(x, "failed", out[x]) /\ todo'[x] = todo[x] /\ x = "client"
    <3>1. /\ ~Unsent(x) /\ (IsForeign(x)' <=> IsForeign(x)) /\ phase[x] \notin Returned
          /\ phase[x] \notin Spent
      BY <1>2, <2>3 DEF Unsent, IsForeign, Returned, Spent, Leaves
    <3> QED
      BY <1>1, <1>2, <2>3, <3>1, SenderLeaves DEF KeepsStream, KeepsNet
  <2> QED
    BY <1>2, <2>1, <2>2, <2>3 DEF Sides
<1>6. ProgressInv'
    BY <1>1, ReadEofProgress
<1> QED
    BY <1>4, <1>5, <1>6, BothFlow

\* the transport that sends on by itself,
LEMMA SpillFlow ==
    ASSUME FlowInv, UNCHANGED connVars, NEW x \in Sides, Spill(x)
    PROVE  FlowInv'
<1> DEFINE y == Peer(x)
<1>1. /\ ProgressInv /\ Domains /\ y \in Sides /\ x = Peer(y) /\ Flow(y) /\ Flow(x)
    BY Reader
<1>2. /\ Alone(x) /\ KeepsStream(x) /\ inbuf' = inbuf /\ todo' = todo /\ added' = added /\ Stays(x)
      /\ out[x] # <<>> /\ out'[x] = Tail(out[x]) /\ net'[x] = Append(net[x], Head(out[x]))
      /\ net'[y] = net[y]
    BY <1>1, SpillEffect
<1>3. Flow(x)'
    BY <1>1, <1>2, ReaderKeeps DEF KeepsStream, Stays, IsForeign
<1>4. Sent(x)' = Sent(x)
    BY <1>1, <1>2, SentSpill DEF KeepsStream
<1>5. (Unsent(x)' <=> Unsent(x)) /\ (IsForeign(x)' <=> IsForeign(x))
    BY <1>2 DEF Unsent, IsForeign, Stays
<1>6. \A m : IsMessage(x, m) => IsMessage(x, m)'
    BY <1>2, <1>5, SameMessage DEF Stays
<1>7. Flow(y)'
    BY <1>1, <1>2, <1>4, <1>5, <1>6, SenderKeeps DEF KeepsStream, Stays
<1>8. ProgressInv'
    BY <1>1, SpillProgress
<1> QED
    BY <1>3, <1>7, <1>8, BothFlow

\* another implementation that begins,
LEMMA ForeignSendFlow ==
    ASSUME FlowInv, UNCHANGED connVars, NEW x \in Sides, NEW m \in ForeignMessages, ForeignSend(x, m)
    PROVE  FlowInv'
<1> DEFINE y == Peer(x)
<1>1. /\ ProgressInv /\ Domains /\ Progress(x) /\ y \in Sides /\ x = Peer(y) /\ Flow(y)
    BY Reader
<1>2. /\ Alone(x) /\ KeepsStream(x) /\ KeepsWrites(x)
      /\ phase[x] = "foreign" /\ phase'[x] = "foreign open"
      /\ net'[x] = Join(net[x], Units(m))
    BY <1>1, ForeignSendEffect DEF Join
<1>3. Flow(x)'
    BY <1>2, ReaderLeaves DEF Unread, Past
<1>4. Unsent(x) /\ out'[x] = <<>>
    BY <1>1, <1>2 DEF Unsent, Progress, KeepsWrites
<1>5. IsMessage(x, m)'
    BY <1>2 DEF IsMessage, IsForeign
<1>6. Flow(y)'
    BY <1>1, <1>2, <1>4, <1>5, SenderBegins DEF KeepsStream, KeepsWrites
<1>7. ProgressInv'
    BY <1>1, ForeignSendProgress
<1> QED
    BY <1>3, <1>6, <1>7, BothFlow

\* or leaves,
LEMMA ForeignLeaveFlow ==
    ASSUME FlowInv, UNCHANGED connVars, NEW x \in Sides, ForeignLeave(x)
    PROVE  FlowInv'
<1> DEFINE y == Peer(x)
<1>1. /\ ProgressInv /\ Domains /\ Progress(x) /\ y \in Sides /\ x = Peer(y) /\ Flow(y)
    BY Reader
<1>2. /\ Alone(x) /\ KeepsStream(x) /\ KeepsNet(x) /\ todo'[x] = todo[x] /\ added' = added
      /\ phase[x] \in {"foreign", "foreign open"} /\ Leaves(x, "foreign gone", <<>>)
    BY <1>1, ForeignLeaveEffect
<1>3. phase'[x] = "foreign gone" /\ out'[x] = <<>> /\ out[x] = <<>>
    BY <1>1, <1>2 DEF Leaves, Progress, IsForeign
<1>4. Flow(x)'
    BY <1>3, ReaderLeaves DEF Unread, Past
<1>5. Flow(y)'
  <2>1. CASE phase[x] = "foreign"
    <3>1. Unsent(x) /\ phase'[x] \in Spent
      BY <1>3, <2>1 DEF Unsent, Spent
    <3> QED
      BY <1>1, <1>2, <1>3, <3>1, SenderSilent DEF KeepsStream, KeepsNet
  <2>2. CASE phase[x] = "foreign open"
    <3>1. /\ ~Unsent(x) /\ (IsForeign(x)' <=> IsForeign(x)) /\ phase[x] \notin Returned
          /\ phase[x] \notin Spent
      BY <1>3, <2>2 DEF Unsent, IsForeign, Returned, Spent
    <3> QED
      BY <1>1, <1>2, <1>3, <3>1, SenderLeaves DEF KeepsStream, KeepsNet
  <2> QED
    BY <1>2, <2>1, <2>2
<1>6. ProgressInv'
    BY <1>1, ForeignLeaveProgress
<1> QED
    BY <1>4, <1>5, <1>6, BothFlow

\* and the drop of the handshake future.
LEMMA CancelFlow ==
    ASSUME FlowInv, UNCHANGED connVars, NEW x \in Sides, Cancel(x)
    PROVE  FlowInv'
<1> DEFINE y == Peer(x)
<1>1. /\ ProgressInv /\ Domains /\ Progress(x) /\ y \in Sides /\ x = Peer(y) /\ Flow(y)
    BY Reader
<1>2. /\ Alone(x) /\ KeepsStream(x) /\ KeepsNet(x) /\ todo'[x] = todo[x] /\ added' = added
      /\ phase[x] \in {"connected", "writing", "flushing", "reading", "replying", "refusing"}
      /\ Leaves(x, "cancelled", out[x])
    BY <1>1, CancelEffect
<1>3. phase'[x] = "cancelled"
    BY <1>2 DEF Leaves
<1>4. Flow(x)'
    BY <1>3, ReaderLeaves DEF Unread, Past
<1>5. Flow(y)'
  <2>1. CASE Unsent(x)
    <3>1. out'[x] = <<>> /\ phase'[x] \in Spent
      BY <1>1, <1>2, <1>3, <2>1 DEF Progress, Leaves, Spent
    <3> QED
      BY <1>1, <1>2, <2>1, <3>1, SenderSilent DEF KeepsStream, KeepsNet
  <2>2. CASE ~Unsent(x)
    <3>1. /\ (IsForeign(x)' <=> IsForeign(x)) /\ phase[x] \notin Returned /\ phase[x] \notin Spent
      BY <1>2, <1>3 DEF IsForeign, Returned, Spent
    <3> QED
      BY <1>1, <1>2, <2>2, <3>1, SenderLeaves DEF KeepsStream, KeepsNet
  <2> QED
    BY <2>1, <2>2
<1>6. ProgressInv'
    BY <1>1, CancelProgress
<1> QED
    BY <1>4, <1>5, <1>6, BothFlow
=============================================================================
