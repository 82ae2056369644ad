------------------------------ MODULE Endpoint ------------------------------
(***************************************************************************)
(* What one end of a connection promises about its frames and about how it *)
(* closes: the four states of StreamState, the frames it has queued and    *)
(* how many of them it has written.  WebSocketStream implements it, with   *)
(* its polls, tasks, wakers and partial writes; Connection is made of two. *)
(*                                                                         *)
(* The effect of an event is a value, so that an end can be a variable or  *)
(* a part of one.                                                          *)
(***************************************************************************)
EXTENDS Naturals, Sequences

CONSTANTS
    Sendable,       \* sequences of frames that one start_send or poll_close queues
    Answers         \* frames that an end may queue as answers

VARIABLE end        \* [state, queued, written, ended]

States == {"Active", "ClosedByPeer", "ClosedByUs", "CloseAcknowledged"}
Opened == [state |-> "Active", queued |-> <<>>, written |-> 0, ended |-> "no"]

HasClose(fs) == \E i \in DOMAIN fs : fs[i].op = "Close"

\* queue_frame, for each of fs
Queued(fs) ==
    [end EXCEPT !.queued = @ \o fs,
                !.state = IF HasClose(fs) /\ end.state # "ClosedByPeer"
                         THEN "ClosedByUs" ELSE end.state]

\* A valid close frame arrives, and is answered with the close frame f.
CloseReceived(f) ==
    IF end.state = "Active"
    THEN [end EXCEPT !.state = "ClosedByPeer", !.queued = Append(@, f)]
    ELSE [end EXCEPT !.state = "CloseAcknowledged", !.ended = "us"]

\* Mutant: a ping is answered after our close frame too.
PingReceived_Always(f) == [end EXCEPT !.queued = Append(@, f)]

\* A ping arrives, and is answered with f in Active only.
PingReceived(f) == IF end.state = "Active" THEN Queued(<<f>>) ELSE end

\* The decoder rejects a frame; the close frame f says why.
Rejected(f) ==
    IF end.state = "ClosedByUs"
    THEN [end EXCEPT !.state = "CloseAcknowledged", !.ended = "error"]
    ELSE [end EXCEPT !.state = "ClosedByPeer", !.queued = Append(@, f)]

\* poll_flush writes up to and with frame number n.
Written(n) == [end EXCEPT !.written = n]

\* poll_next in ClosedByPeer, when poll_flush is done.
Acknowledged ==
    [end EXCEPT !.state = "CloseAcknowledged", !.written = Len(end.queued), !.ended = "peer"]

\* Reading or writing fails, maybe after some frames were written.
Failed(n) ==
    [end EXCEPT !.state = "CloseAcknowledged", !.written = n,
                !.ended = IF end.ended = "no" THEN "error" ELSE end.ended]

-----------------------------------------------------------------------------
\* Mutant: nothing is read any more once we have closed.
Reads_ActiveOnly == end.state = "Active"

Reads == end.state \in {"Active", "ClosedByUs"}
More == end.written..Len(end.queued)

Init == end = Opened

Send == end.state = "Active" /\ \E fs \in Sendable : end' = Queued(fs)

Read ==
    /\ Reads
    /\ \E f \in Answers :
        \/ f.op = "Close" /\ end' \in {CloseReceived(f), Rejected(f)}
        \/ f.op = "Pong" /\ end' = PingReceived(f)

Write == \E n \in More : end' = Written(n)
Acknowledge == end.state = "ClosedByPeer" /\ end' = Acknowledged
Fail == \E n \in More : end' = Failed(n)

Next == Send \/ Read \/ Write \/ Acknowledge \/ Fail

Spec == Init /\ [][Next]_end
=============================================================================
