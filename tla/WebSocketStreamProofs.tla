------------------------ MODULE WebSocketStreamProofs ------------------------
(***************************************************************************)
(* Proofs about WebSocketStream, for every set of tasks, of frames and of  *)
(* messages and every value of the configuration and of the bounds.        *)
(***************************************************************************)
EXTENDS WebSocketStream, TLAPS

-----------------------------------------------------------------------------
(* Type correctness.                                                       *)

\* What appending to frame_queue does to the frames.
LEMMA Concatenation ==
    ASSUME NEW S, NEW a \in Seq(S), NEW b \in Seq(S)
    PROVE  /\ a \o b \in Seq(S) /\ Len(a \o b) = Len(a) + Len(b)
           /\ Len(a) \in Nat /\ Len(b) \in Nat
           /\ Len(a \o b) >= Len(a)
           /\ \A i \in 1..Len(a) : (a \o b)[i] = a[i]
           /\ \A i \in 1..Len(b) : (a \o b)[Len(a) + i] = b[i]
OBVIOUS

\* Queueing one frame (queue_frame) leaves the frames before it in place.
LEMMA ConcatenationOfOne ==
    ASSUME NEW S, NEW a \in Seq(S), NEW b \in Seq(S), Len(b) = 1
    PROVE  (a \o b)[Len(a) + 1] = b[1]
<1> DEFINE s == a \o b
<1>1. Len(a) \in Nat /\ Len(s) = Len(a) + Len(b)
    BY Concatenation, Zenon
<1>2. \A i \in 1..Len(s) : s[i] = IF i <= Len(a) THEN a[i] ELSE b[i - Len(a)]
    OBVIOUS
<1> HIDE DEF s
<1>3. s[Len(a) + 1] = b[Len(a) + 1 - Len(a)]
    BY <1>1, <1>2
<1>4. Len(a) + 1 - Len(a) = 1
    BY <1>1
<1> QED
    BY <1>3, <1>4 DEF s

\* Message::into_frames yields a sequence of frames.
LEMMA MessageFramesType ==
    ASSUME NEW m \in Messages
    PROVE  MessageFrames(m) \in Seq(OutFrames)
<1> DEFINE q == (m.len + FrameSize - 1) \div FrameSize
           n == IF m.op \in ControlOps \/ m.len <= FrameSize THEN 1 ELSE q
<1>1. m.op \in OpCodes /\ m.len \in Nat /\ FrameSize \in Nat \ {0}
    BY StreamAssumption DEF OpCodes
<1>2. q \in Nat
    BY <1>1, SMT
<1>3. n \in Nat
    BY <1>2
<1>4. \A i \in 1..n : [op |-> IF i = 1 THEN m.op ELSE "Continuation", fin |-> i = n] \in OutFrames
    BY <1>1 DEF OutFrames, OpCodes
<1>5. [i \in 1..n |-> [op |-> IF i = 1 THEN m.op ELSE "Continuation", fin |-> i = n]]
          \in Seq(OutFrames)
    BY <1>3, <1>4
<1> QED
    BY <1>5 DEF MessageFrames

\* What poll_flush does to frame_queue and to the transport.
LEMMA PollFlushEffect ==
    ASSUME TypeOK, NEW cx \in Tasks, NEW r \in FlushResults, PollFlush(cx, r)
    PROVE  /\ popped' \in popped..Len(frames) /\ bytes_written' \in 0..(UnitsPerFrame - 1)
           /\ popped' = Len(frames) => bytes_written' = 0
           /\ room' \in 0..IoRoom
           /\ flushing_waker' \in Tasks \cup {NoTask} /\ write_waker' \in Tasks \cup {NoTask}
           /\ broken' = broken /\ shutdown' = shutdown
           /\ r = "ready" => popped' = Len(frames)
<1> DEFINE most == IF room < Remaining THEN room ELSE Remaining
<1>1. /\ Len(frames) \in Nat /\ popped \in Nat /\ popped <= Len(frames)
      /\ bytes_written \in {0, 1} /\ room \in Nat /\ room <= IoRoom /\ IoRoom \in Nat
    BY StreamAssumption DEF TypeOK, UnitsPerFrame
<1>2. Remaining = 2 * (Len(frames) - popped) - bytes_written /\ Remaining \in Nat
    BY <1>1 DEF Remaining, UnitsPerFrame, TypeOK
<1>3. most \in Nat /\ most <= room /\ most <= Remaining
    BY <1>1, <1>2
<1> HIDE DEF most
<1>4. PICK k \in 0..most :
        /\ popped' = popped + (bytes_written + k) \div 2
        /\ bytes_written' = (bytes_written + k) % 2
        /\ room' = room - k
        /\ r = "ready" => k = Remaining \/ ~HasRemaining
    BY DEF PollFlush, most, UnitsPerFrame
<1> DEFINE advanced == bytes_written + k
<1>5. k \in Nat /\ k <= room /\ k <= Remaining
    BY <1>1, <1>2, <1>3
<1>6. advanced \in Nat /\ advanced <= 2 * (Len(frames) - popped)
    BY <1>1, <1>2, <1>5
<1>7. /\ advanced \div 2 \in Nat /\ advanced % 2 \in {0, 1}
      /\ advanced = 2 * (advanced \div 2) + (advanced % 2)
    BY <1>6, SMT
<1>8. popped' = popped + advanced \div 2 /\ bytes_written' = advanced % 2
    BY <1>4
<1>9. r = "ready" => k = Remaining
  <2>1. ~HasRemaining => Remaining = 0
    BY <1>1, <1>2 DEF HasRemaining, TypeOK
  <2> QED
    BY <1>2, <1>4, <1>5, <2>1
<1>10. r = "ready" => advanced = 2 * (Len(frames) - popped)
    BY <1>1, <1>2, <1>9
<1> HIDE DEF advanced
<1>11. popped' \in popped..Len(frames) /\ bytes_written' \in 0..(UnitsPerFrame - 1)
    BY <1>1, <1>6, <1>7, <1>8 DEF UnitsPerFrame
<1>12. popped' = Len(frames) => bytes_written' = 0
    BY <1>1, <1>6, <1>7, <1>8
<1>13. r = "ready" => popped' = Len(frames)
    BY <1>1, <1>7, <1>8, <1>10
<1>14. room' \in 0..IoRoom
    BY <1>1, <1>4, <1>5
<1> QED
    BY <1>11, <1>12, <1>13, <1>14 DEF PollFlush, TypeOK

\* How a step of a poll leaves the tasks.
TasksOK == call \in Calls /\ job \in [Tasks -> Jobs] /\ runnable \subseteq Tasks

\* However a poll returns or loops, the tasks keep their types.
LEMMA ReturnTypes ==
    ASSUME TypeOK, call # NoCall
    PROVE  /\ call.task \in Tasks /\ call.op \in {"next", "close"} /\ call.at \in Places
           /\ \A p \in Places : Loop(p) => TasksOK'
           /\ ReturnPending => TasksOK'
           /\ Done => TasksOK'
           /\ ReturnItem => TasksOK'
           /\ ReturnNone => TasksOK'
<1>1. call \in [op : {"next", "close"}, task : Tasks, at : Places]
    BY DEF TypeOK, Calls
<1>2. NoCall \in Calls /\ "none" \in Jobs /\ {"frame", "flush"} \subseteq Places
    BY DEF Calls, Jobs, Places
<1>3. \A p \in Places : Loop(p) => TasksOK'
    BY <1>1 DEF TypeOK, TasksOK, Loop, Calls
<1>4. ReturnPending => TasksOK'
    BY <1>2 DEF TypeOK, TasksOK, ReturnPending
<1>5. Done => TasksOK'
    BY <1>1, <1>2 DEF TypeOK, TasksOK, Done, Finish
<1> QED
    BY <1>1, <1>2, <1>3, <1>4, <1>5 DEF ReturnItem, ReturnNone

\* How the poll of a future leaves the tasks.
LEMMA PollTypes ==
    ASSUME TypeOK, NEW t \in Tasks
    PROVE  /\ Park(t) => job' \in [Tasks -> Jobs] /\ runnable' \subseteq Tasks
           /\ \A next \in Jobs :
                Finish(t, next) => job' \in [Tasks -> Jobs] /\ runnable' \subseteq Tasks
BY DEF TypeOK, Park, Finish

\* Every step of the environment keeps the types.
LEMMA EnvironmentType ==
    ASSUME TypeOK, Environment
    PROVE  TypeOK'
<1> USE DEF TypeOK
<1>1. \A ws : Woken(ws) \subseteq Tasks
    BY DEF Woken
<1>2. ASSUME NEW f \in PeerFrames, PeerSend(f) PROVE TypeOK'
    BY <1>1, <1>2 DEF PeerSend, structVars, queueVars, writeVars, ghostVars
<1>3. ASSUME NEW how \in {"eof", "midframe"}, PeerEof(how) PROVE TypeOK'
    BY <1>1, <1>3 DEF PeerEof, structVars, queueVars, writeVars, ghostVars
<1>4. CASE Drain
    BY <1>1, <1>4, StreamAssumption DEF Drain, structVars, queueVars, readVars, ghostVars
<1>5. CASE Reset
    BY <1>1, <1>5 DEF Reset, structVars, queueVars, ghostVars
<1>6. ASSUME NEW n \in LimitValues, SetLimits(n) PROVE TypeOK'
    BY <1>6 DEF SetLimits, queueVars, taskVars, readVars, writeVars, ghostVars
<1>7. ASSUME NEW t \in Tasks, Cancel(t) PROVE TypeOK'
    BY <1>7 DEF Cancel, structVars, queueVars, readVars, writeVars, ghostVars, Jobs
<1>8. ASSUME NEW t \in Tasks, NEW what \in Jobs, Begin(t, what) PROVE TypeOK'
    BY <1>8 DEF Begin, structVars, queueVars, readVars, writeVars, ghostVars
<1> QED
    BY <1>2, <1>3, <1>4, <1>5, <1>6, <1>7, <1>8 DEF Environment

\* A flush changes the state and `ended' within their types.
LEMMA FlushTypes ==
    ASSUME TypeOK, NEW r \in FlushResults
    PROVE  /\ StateAfterFlush(r) \in StreamStates
           /\ EndedAfterFlush(r) \in {"no", "peer", "us", "error"}
BY DEF TypeOK, StateAfterFlush, EndedAfterFlush, StreamStates

\* Every poll of a future keeps the types.
LEMMA TaskPolledType ==
    ASSUME TypeOK, NEW t \in Tasks, TaskPolled(t)
    PROVE  TypeOK'
<1>1. {"none", "start", "flush"} \subseteq Jobs /\ "frame" \in Places
    BY DEF Jobs, Places
<1>2. CASE TaskFlush(t)
  <2>1. PICK r \in FlushResults :
            /\ PollFlush(t, r)
            /\ state' = StateAfterFlush(r) /\ ended' = EndedAfterFlush(r)
            /\ Park(t) \/ Finish(t, "none")
    BY <1>2 DEF TaskFlush
  <2> QED
    BY <1>1, <1>2, <2>1, PollFlushEffect, PollTypes, FlushTypes DEF TypeOK, TaskFlush, readVars
<1>3. CASE TaskReady(t)
  <2>1. CASE Remaining < FlushThreshold
    <3>1. /\ Finish(t, "start")
          /\ UNCHANGED <<state, ended, popped, bytes_written, flushing_waker, writeVars>>
      <4>1. Remaining \in Int /\ FlushThreshold \in Nat
        BY StreamAssumption DEF TypeOK, Remaining, UnitsPerFrame
      <4>2. ~(Remaining >= FlushThreshold)
        BY <2>1, <4>1
      <4> QED
        BY <1>3, <4>2 DEF TaskReady
    <3> QED
        BY <1>1, <1>3, <3>1, PollTypes DEF TypeOK, TaskReady, readVars, writeVars
  <2>2. CASE ~(Remaining < FlushThreshold)
    <3>1. PICK r \in FlushResults :
            /\ PollFlush(t, r)
            /\ state' = StateAfterFlush(r) /\ ended' = EndedAfterFlush(r)
            /\ Park(t) \/ Finish(t, "none") \/ Finish(t, "start")
        BY <1>3, <2>2 DEF TaskReady, FlushResults
    <3> QED
        BY <1>1, <1>3, <3>1, PollFlushEffect, PollTypes, FlushTypes DEF TypeOK, TaskReady, readVars
  <2> QED
    BY <2>1, <2>2
<1>4. ASSUME NEW m \in Messages, TaskStartSend(t, m) PROVE TypeOK'
  <2>1. frames' \in Seq(OutFrames) /\ Len(frames') >= Len(frames)
    <3>1. frames \in Seq(OutFrames) /\ MessageFrames(m) \in Seq(OutFrames)
        BY MessageFramesType DEF TypeOK
    <3>2. frames' = frames \/ frames' = frames \o MessageFrames(m)
        BY <1>4 DEF TaskStartSend, QueueFrames
    <3> DEFINE longer == frames \o MessageFrames(m)
    <3>3. longer \in Seq(OutFrames) /\ Len(longer) >= Len(frames) /\ Len(frames) \in Nat
        BY <3>1, Concatenation, Zenon
    <3>4. frames' = frames \/ frames' = longer
        BY <3>2
    <3> HIDE DEF longer
    <3> QED
        BY <3>1, <3>3, <3>4
  <2>2. popped \in 0..Len(frames') /\ (popped = Len(frames') => bytes_written = 0)
    BY <2>1 DEF TypeOK
  <2>3. state' \in StreamStates
    BY <1>4 DEF TaskStartSend, StateAfterQueue, TypeOK, StreamStates
  <2>4. \E next \in {"none", "flush"} : Finish(t, next)
    BY <1>4 DEF TaskStartSend
  <2> QED
    BY <1>1, <1>4, <2>1, <2>2, <2>3, <2>4, PollTypes
    DEF TypeOK, TaskStartSend, readVars, writeVars, ghostVars
<1>5. CASE TaskNext(t)
  <2>1. call' \in Calls
    BY <1>1, <1>5 DEF TaskNext, Calls
  <2> QED
    BY <1>5, <2>1, PollTypes
    DEF TypeOK, TaskNext, structVars, queueVars, readVars, writeVars, ghostVars
<1>6. CASE TaskClose(t)
  <2>1. call' \in Calls
    BY <1>1, <1>6 DEF TaskClose, Calls
  <2>2. Control("Close") \in Seq(OutFrames)
    BY DEF Control, OutFrames, OpCodes, ControlOps
  <2>3. frames' \in Seq(OutFrames) /\ Len(frames') >= Len(frames)
    <3>1. frames \in Seq(OutFrames)
        BY DEF TypeOK
    <3>2. frames' = frames \/ frames' = frames \o Control("Close")
        BY <1>6 DEF TaskClose, QueueFrames
    <3> DEFINE longer == frames \o Control("Close")
    <3>3. longer \in Seq(OutFrames) /\ Len(longer) >= Len(frames) /\ Len(frames) \in Nat
        BY <2>2, <3>1, Concatenation, Zenon
    <3>4. frames' = frames \/ frames' = longer
        BY <3>2
    <3> HIDE DEF longer
    <3> QED
        BY <3>1, <3>3, <3>4
  <2>4. popped \in 0..Len(frames') /\ (popped = Len(frames') => bytes_written = 0)
    BY <2>3 DEF TypeOK
  <2>5. state' \in StreamStates
    BY <1>6 DEF TaskClose, StateAfterQueue, TypeOK, StreamStates
  <2> QED
    BY <1>6, <2>1, <2>3, <2>4, <2>5, PollTypes
    DEF TypeOK, TaskClose, readVars, writeVars, ghostVars
<1> QED
    BY <1>2, <1>3, <1>4, <1>5, <1>6 DEF TaskPolled

\* What queueing one control frame does to the queue.
LEMMA QueueControl ==
    ASSUME TypeOK, NEW op \in ControlOps, QueueFrames(Control(op))
    PROVE  /\ frames' \in Seq(OutFrames) /\ Len(frames') = Len(frames) + 1
           /\ popped \in 0..Len(frames') /\ popped # Len(frames')
           /\ frames'[Len(frames')].op = op
           /\ \A i \in 1..Len(frames) : frames'[i] = frames[i]
<1> DEFINE c == Control(op)
           longer == frames \o c
<1>1. c \in Seq(OutFrames) /\ Len(c) = 1 /\ c[1].op = op
    BY DEF Control, OutFrames, OpCodes
<1>2. frames' = longer /\ frames \in Seq(OutFrames)
    BY DEF QueueFrames, TypeOK
<1>3. popped \in 0..Len(frames) /\ Len(frames) \in Nat
    BY <1>2 DEF TypeOK
<1> HIDE DEF c
<1>4. /\ longer \in Seq(OutFrames) /\ Len(longer) = Len(frames) + Len(c)
      /\ \A i \in 1..Len(frames) : longer[i] = frames[i]
    BY <1>1, <1>2, Concatenation, Zenon
<1>5. longer[Len(frames) + 1] = c[1]
    BY <1>1, <1>2, ConcatenationOfOne, Zenon
<1> HIDE DEF longer
<1> QED
    BY <1>1, <1>2, <1>3, <1>4, <1>5

\* A flush made inside a poll keeps the types.
LEMMA FlushInCallType ==
    ASSUME TypeOK, TasksOK', NEW cx \in Tasks, NEW r \in FlushResults, PollFlush(cx, r),
           state' \in StreamStates, ended' \in {"no", "peer", "us", "error"},
           UNCHANGED <<frag, max_payload_len, partial, frames, readVars, seen, opener, last,
                       oversized>>
    PROVE  TypeOK'
BY PollFlushEffect DEF TypeOK, TasksOK, readVars

\* Every step of a poll keeps the types.
LEMMA InCallType ==
    ASSUME TypeOK, InCall
    PROVE  TypeOK'
<1> DEFINE Returned == \/ \E p \in Places : Loop(p)
                       \/ ReturnPending \/ Done \/ ReturnItem \/ ReturnNone
<1>1. call # NoCall
    BY DEF InCall, FrameTerminated, FrameAcknowledge, FrameFlush, ReadPending, ReadEof,
           ReadIoError, ReadFrameError, ReadControl, ReadData, CloseFlush, CloseShutdown, At
<1>2. call.task \in Tasks /\ (Returned => TasksOK')
    BY <1>1, ReturnTypes
<1>3. {"read", "shutdown", "frame"} \subseteq Places
      /\ {"CloseAcknowledged", "ClosedByPeer", "ClosedByUs"} \subseteq StreamStates
    BY DEF Places, StreamStates
<1>4. CASE FrameTerminated
  <2>1. TasksOK'
    BY <1>2, <1>4 DEF FrameTerminated
  <2> QED
    BY <1>4, <2>1
    DEF TypeOK, TasksOK, FrameTerminated, structVars, queueVars, readVars, writeVars, ghostVars
<1>5. CASE FrameAcknowledge
  <2>1. PICK r \in FlushResults :
            /\ PollFlush(call.task, r)
            /\ CASE r = "ready" -> state' = "CloseAcknowledged" /\ ended' = "peer" /\ ReturnNone
                 [] r = "pending" -> UNCHANGED <<state, ended>> /\ ReturnPending
                 [] r = "error" -> state' = "CloseAcknowledged" /\ ended' = "error" /\ ReturnItem
    BY <1>5 DEF FrameAcknowledge
  <2>2. /\ state' \in StreamStates /\ ended' \in {"no", "peer", "us", "error"}
        /\ Returned
    BY <1>3, <2>1 DEF FlushResults, TypeOK
  <2> HIDE DEF Returned
  <2> QED
    BY <1>2, <1>5, <2>1, <2>2, FlushInCallType DEF FrameAcknowledge
<1>6. CASE FrameFlush
  <2>1. CASE HasRemaining
    <3>1. PICK r \in FlushResults :
            /\ PollFlush(FlushingWaker, r)
            /\ state' = StateAfterFlush(r) /\ ended' = EndedAfterFlush(r)
            /\ IF r = "error" THEN ReturnItem ELSE Loop("read")
        BY <1>6, <2>1 DEF FrameFlush
    <3>2. Returned /\ FlushingWaker \in Tasks
        BY <1>2, <1>3, <3>1 DEF FlushingWaker, TypeOK
    <3> HIDE DEF Returned
    <3> QED
        BY <1>2, <1>6, <3>1, <3>2, FlushInCallType, FlushTypes DEF FrameFlush
  <2>2. CASE ~HasRemaining
    <3>1. TasksOK'
        BY <1>2, <1>3, <1>6, <2>2 DEF FrameFlush
    <3> QED
        BY <1>6, <2>2, <3>1 DEF TypeOK, TasksOK, FrameFlush, readVars, writeVars
  <2> QED
    BY <2>1, <2>2
<1>7. CASE ReadPending
  <2>1. TasksOK'
    BY <1>2, <1>7 DEF ReadPending
  <2> QED
    BY <1>2, <1>7, <2>1 DEF TypeOK, TasksOK, ReadPending, structVars, queueVars, writeVars, ghostVars
<1>8. CASE ReadEof
  <2>1. TasksOK'
    BY <1>2, <1>8 DEF ReadEof
  <2> QED
    BY <1>8, <2>1
    DEF TypeOK, TasksOK, ReadEof, structVars, queueVars, readVars, writeVars, ghostVars
<1>9. CASE ReadIoError
  <2>1. TasksOK'
    BY <1>2, <1>9 DEF ReadIoError
  <2> QED
    BY <1>3, <1>9, <2>1 DEF TypeOK, TasksOK, ReadIoError, queueVars, writeVars
<1>10. inbound # <<>> => Tail(inbound) \in Seq(PeerFrames) /\ Head(inbound) \in PeerFrames
    BY DEF TypeOK
<1>11. CASE ReadFrameError
  <2>1. TasksOK'
    BY <1>2, <1>11 DEF ReadFrameError
  <2>2. /\ frames' \in Seq(OutFrames) /\ popped \in 0..Len(frames')
        /\ popped = Len(frames') => bytes_written = 0
    BY <1>11, QueueControl DEF ReadFrameError, ControlOps, TypeOK
  <2>3. state' \in StreamStates /\ ended' \in {"no", "peer", "us", "error"}
    BY <1>3, <1>11 DEF ReadFrameError, StateAfterReadError, TypeOK
  <2> QED
    BY <1>10, <1>11, <2>1, <2>2, <2>3 DEF TypeOK, TasksOK, ReadFrameError, writeVars
<1>12. CASE ReadControl
  <2>1. TasksOK'
    BY <1>2, <1>12 DEF ReadControl
  <2>2. /\ frames' \in Seq(OutFrames) /\ popped \in 0..Len(frames')
        /\ popped = Len(frames') => bytes_written = 0
    BY <1>12, QueueControl DEF ReadControl, ControlOps, TypeOK
  <2>3. state' \in StreamStates /\ ended' \in {"no", "peer", "us", "error"}
    BY <1>3, <1>12 DEF ReadControl, StateAfterQueue, TypeOK
  <2> QED
    BY <1>10, <1>12, <2>1, <2>2, <2>3 DEF TypeOK, TasksOK, ReadControl, writeVars
<1>13. CASE ReadData
  <2> DEFINE f == Head(inbound)
             whole == partial.len + f.len
             one == <<Len(seen) + 1>>
             more == Append(partial.ids, Len(seen) + 1)
  <2>1. TasksOK'
    BY <1>2, <1>3, <1>13 DEF ReadData
  <2>2. /\ f \in InFrames /\ f.op \notin ControlOps /\ seen' = Append(seen, f.op)
        /\ opener' \in {opener, Len(seen) + 1} /\ inbound' = Tail(inbound) /\ inbound # <<>>
    BY <1>10, <1>13, StreamAssumption DEF ReadData
  <2>3. /\ f.op \in DataOps \cup {"Continuation"} /\ f.len \in Nat /\ whole \in Nat
        /\ Len(seen) + 1 \in Nat /\ one \in Seq(Nat) /\ more \in Seq(Nat)
    BY <2>2 DEF InFrames, OpCodes, TypeOK
  <2>4. frag' \in DataOps \cup {"Continuation"}
    BY <1>13, <2>3 DEF ReadData, OpcodeTaken, TypeOK
  <2>5. partial' \in [len : Nat, ids : Seq(Nat)]
    <3>1. \/ partial' = partial
          \/ partial' = [len |-> f.len, ids |-> one]
          \/ partial' = [len |-> whole, ids |-> more]
          \/ partial' = NoPayload
        BY <1>13 DEF ReadData
    <3>2. NoPayload \in [len : Nat, ids : Seq(Nat)] /\ partial \in [len : Nat, ids : Seq(Nat)]
        BY DEF NoPayload, TypeOK
    <3> HIDE DEF f, whole, one, more
    <3> QED
        BY <2>3, <3>1, <3>2
  <2>6. last' \in [op : OpCodes \cup {"none"}, len : Nat, ids : Seq(Nat), limit : Nat]
    <3> DEFINE message(op, len, ids) ==
                 [op |-> op, len |-> len, ids |-> ids, limit |-> max_payload_len]
    <3>1. \/ last' = last
          \/ last' = message(f.op, f.len, one)
          \/ last' = message(frag, whole, more)
        BY <1>13 DEF ReadData
    <3>2. /\ max_payload_len \in Nat
          /\ frag \in OpCodes \cup {"none"} /\ f.op \in OpCodes \cup {"none"}
          /\ last \in [op : OpCodes \cup {"none"}, len : Nat, ids : Seq(Nat), limit : Nat]
        BY <2>3, StreamAssumption DEF TypeOK, OpCodes
    <3> HIDE DEF f, whole, one, more
    <3> QED
        BY <2>3, <3>1, <3>2
  <2>7. oversized' \in BOOLEAN
    BY <1>13 DEF ReadData, TypeOK
  <2> HIDE DEF f, whole
  <2>8. UNCHANGED <<state, max_payload_len, queueVars, eof, has_errored, read_waker, arrived,
                    writeVars, ended>>
    BY <1>13 DEF ReadData
  <2>9. seen' \in Seq(OpCodes) /\ opener' \in Nat /\ inbound' \in Seq(PeerFrames)
    BY <1>10, <2>2, <2>3 DEF TypeOK, OpCodes
  <2> HIDE DEF one, more
  <2>10. /\ state' \in StreamStates /\ max_payload_len' \in LimitValues
         /\ arrived' \in Nat /\ ended' \in {"no", "peer", "us", "error"}
    BY <2>8 DEF TypeOK
  <2>11. /\ frames' \in Seq(OutFrames) /\ popped' \in 0..Len(frames')
         /\ bytes_written' \in 0..(UnitsPerFrame - 1)
         /\ popped' = Len(frames') => bytes_written' = 0
         /\ flushing_waker' \in Tasks \cup {NoTask}
    BY <2>8 DEF TypeOK, queueVars
  <2>12. /\ eof' \in {"no", "clean", "midframe"} /\ has_errored' \in BOOLEAN
         /\ read_waker' \in Tasks \cup {NoTask}
         /\ room' \in 0..IoRoom /\ broken' \in BOOLEAN /\ shutdown' \in BOOLEAN
         /\ write_waker' \in Tasks \cup {NoTask}
    BY <2>8 DEF TypeOK, writeVars
  <2> QED
    BY <2>1, <2>4, <2>5, <2>6, <2>7, <2>9, <2>10, <2>11, <2>12, Zenon DEF TypeOK, TasksOK
<1>14. CASE CloseFlush
  <2>1. PICK r \in FlushResults :
            /\ PollFlush(call.task, r)
            /\ state' = StateAfterFlush(r) /\ ended' = EndedAfterFlush(r)
            /\ CASE r = "ready" -> Loop("shutdown")
                 [] r = "pending" -> ReturnPending
                 [] r = "error" -> Done
    BY <1>14 DEF CloseFlush
  <2>2. Returned
    BY <1>3, <2>1 DEF FlushResults
  <2> HIDE DEF Returned
  <2> QED
    BY <1>2, <1>14, <2>1, <2>2, FlushInCallType, FlushTypes DEF CloseFlush
<1>15. CASE CloseShutdown
  <2>1. TasksOK'
    BY <1>2, <1>15 DEF CloseShutdown
  <2>2. shutdown' \in BOOLEAN /\ write_waker' \in Tasks \cup {NoTask}
    BY <1>2, <1>15 DEF CloseShutdown, TypeOK
  <2> HIDE DEF Returned
  <2> QED
    BY <1>15, <2>1, <2>2
    DEF TypeOK, TasksOK, CloseShutdown, structVars, queueVars, readVars, ghostVars
<1> QED
    BY <1>4, <1>5, <1>6, <1>7, <1>8, <1>9, <1>11, <1>12, <1>13, <1>14, <1>15 DEF InCall

\* The types of from_raw_stream hold initially and every poll, event of the
\* transport and cancellation keeps them: frame_queue never loses count of
\* what is written, whatever the sizes, the tasks and the frames.
THEOREM TypeCorrect == Spec => []TypeOK
<1>1. ASSUME Init PROVE TypeOK
  <2>1. \A S : <<>> \in Seq(S)
    OBVIOUS
  <2>2. /\ frames \in Seq(OutFrames) /\ inbound \in Seq(PeerFrames)
        /\ partial \in [len : Nat, ids : Seq(Nat)]
        /\ last \in [op : OpCodes \cup {"none"}, len : Nat, ids : Seq(Nat), limit : Nat]
    BY <1>1, <2>1 DEF Init, NoPayload, NoMessage
  <2>3. popped \in 0..Len(frames) /\ bytes_written \in 0..(UnitsPerFrame - 1) /\ bytes_written = 0
    BY <1>1 DEF Init, UnitsPerFrame
  <2>4. call \in Calls /\ job \in [Tasks -> Jobs] /\ runnable \subseteq Tasks
    BY <1>1 DEF Init, Calls, Jobs
  <2>5. /\ state \in StreamStates /\ frag = "Continuation" /\ max_payload_len \in LimitValues
        /\ flushing_waker = NoTask /\ read_waker = NoTask /\ write_waker = NoTask
        /\ eof = "no" /\ has_errored = FALSE /\ broken = FALSE /\ shutdown = FALSE
        /\ arrived = 0 /\ seen \in Seq(OpCodes) /\ opener = 0 /\ ended = "no" /\ oversized = FALSE
    BY <1>1 DEF Init, StreamStates
  <2>6. room \in 0..IoRoom
    BY <1>1, StreamAssumption DEF Init
  <2> QED
    BY <2>2, <2>3, <2>4, <2>5, <2>6 DEF TypeOK
<1>2. TypeOK /\ [Next]_vars => TypeOK'
  <2> SUFFICES ASSUME TypeOK, [Next]_vars PROVE TypeOK'
    OBVIOUS
  <2>1. CASE UNCHANGED vars
    BY <2>1 DEF TypeOK, vars, structVars, queueVars, taskVars, readVars, writeVars, ghostVars
  <2> QED
    BY <2>1, EnvironmentType, InCallType, TaskPolledType DEF Next
<1> QED
    BY <1>1, <1>2, PTL DEF Spec

-----------------------------------------------------------------------------
(* Closing.  CloseInv is inductive relative to TypeOK.  A step either      *)
(* queues nothing (QuietStep) or queues in the state Active (QueueStep).   *)

\* Where a poll is after a step of its loop.
LEMMA ReturnPlaces ==
    ASSUME TypeOK, call # NoCall
    PROVE  /\ \A p \in Places : Loop(p) => call'.at = p /\ call'.op = call.op
           /\ ReturnPending => call'.at = "frame" /\ call'.op = "none"
           /\ Done => call'.at = "frame" /\ call'.op = "none"
           /\ ReturnItem => call'.at = "frame" /\ call'.op \in {"none", call.op}
           /\ ReturnNone => \/ call'.at = "frame" /\ call'.op = "none"
                            \/ call'.at = "flush" /\ call'.op = "close" /\ call.op = "close"
<1>1. call \in [op : {"next", "close"}, task : Tasks, at : Places]
    BY DEF TypeOK, Calls
<1>2. \A p \in Places : Loop(p) => call'.at = p /\ call'.op = call.op
    BY <1>1 DEF Loop
<1>3. /\ ReturnPending => call'.at = "frame" /\ call'.op = "none"
      /\ Done => call'.at = "frame" /\ call'.op = "none"
    BY DEF ReturnPending, Done, NoCall
<1>4. {"frame", "flush"} \subseteq Places
    BY DEF Places
<1> QED
    BY <1>1, <1>2, <1>3, <1>4 DEF ReturnItem, ReturnNone

\* A step that queues nothing: it may write, and may end the stream.
LEMMA QuietStep ==
    ASSUME TypeOK, TypeOK', CloseInv, frames' = frames, popped' >= popped,
           \/ state' = state /\ ended' = ended
           \/ /\ state' = "CloseAcknowledged"
              /\ \/ ended' \in {ended, "us", "error"}
                 \/ ended' = "peer" /\ popped' = Len(frames) /\ state = "ClosedByPeer",
           has_errored' = has_errored \/ state' = "CloseAcknowledged",
           shutdown' = shutdown \/ (popped' = Len(frames) /\ state' # "Active"),
           call'.at = "read" => state' \in {"Active", "ClosedByUs"},
           call'.op = "close" => state' # "Active",
           call'.at \in {"flush", "shutdown"} => call'.op = "close",
           call'.at = "shutdown" => popped' = Len(frames)
    PROVE  CloseInv'
<1>1. /\ Len(frames) \in Nat /\ popped \in Nat /\ popped' \in Nat
      /\ popped <= Len(frames) /\ popped' <= Len(frames)
    BY DEF TypeOK
<1>2. ~HasRemaining => ~HasRemaining'
    BY <1>1 DEF HasRemaining
<1>3. popped' = Len(frames) => ~HasRemaining'
    BY <1>1 DEF HasRemaining
<1>4. /\ NothingAfterClose'
      /\ (state = "Active" => NoCloseYet)'
      /\ (state = "ClosedByPeer" => CloseIsQueued)'
      /\ (ended # "no" => state = "CloseAcknowledged")'
    BY DEF CloseInv, NothingAfterClose, NoCloseYet, CloseIsQueued
<1>5. AcknowledgedIsWritten'
    BY <1>2, <1>3 DEF CloseInv, AcknowledgedIsWritten, CloseIsQueued
<1>6. /\ (At("read") => state \in {"Active", "ClosedByUs"})'
      /\ (call.op = "close" => state # "Active")'
      /\ (call.at \in {"flush", "shutdown"} => call.op = "close")'
      /\ (At("shutdown") => ~HasRemaining)'
    BY <1>3 DEF At
<1>7. ShutdownAfterFlush'
    BY <1>2, <1>3 DEF CloseInv, ShutdownAfterFlush, TypeOK
<1>8. DecoderErrorIsFinal'
    BY DEF CloseInv, DecoderErrorIsFinal
<1> QED
    BY <1>4, <1>5, <1>6, <1>7, <1>8 DEF CloseInv

\* A step that queues frames fs does so in the state Active; a close frame is
\* queued alone and moves the state.
LEMMA QueueStep ==
    ASSUME TypeOK, TypeOK', CloseInv, state = "Active",
           NEW fs \in Seq(OutFrames), frames' = frames \o fs,
           \/ state' = "Active" /\ \A i \in 1..Len(fs) : fs[i].op # "Close"
           \/ state' \in {"ClosedByUs", "ClosedByPeer"} /\ Len(fs) = 1 /\ fs[1].op = "Close",
           UNCHANGED <<ended, shutdown>>,
           has_errored' = has_errored \/ state' = "ClosedByPeer",
           call'.at = "frame", call'.op = "close" => state' # "Active"
    PROVE  CloseInv'
<1> DEFINE longer == frames \o fs
<1>1. frames \in Seq(OutFrames) /\ frames' = longer
    BY DEF TypeOK
<1>2. /\ longer \in Seq(OutFrames) /\ Len(longer) = Len(frames) + Len(fs)
      /\ Len(frames) \in Nat /\ Len(fs) \in Nat
      /\ \A i \in 1..Len(frames) : longer[i] = frames[i]
    BY <1>1, Concatenation, Zenon
<1>3. \A i \in 1..Len(longer) : longer[i] = IF i <= Len(frames) THEN frames[i] ELSE fs[i - Len(frames)]
    BY <1>1
<1>4. Len(fs) = 1 => longer[Len(frames) + 1] = fs[1]
    BY <1>1, ConcatenationOfOne, Zenon
<1> HIDE DEF longer
<1>5. \A i \in 1..Len(frames) : frames[i].op # "Close"
    BY DEF CloseInv, NoCloseYet
<1>6. \A i \in 1..Len(longer) : longer[i].op = "Close" => i = Len(longer) /\ state' # "Active"
  <2> SUFFICES ASSUME NEW i \in 1..Len(longer), longer[i].op = "Close"
               PROVE  i = Len(longer) /\ state' # "Active"
    OBVIOUS
  <2>1. i > Len(frames)
    BY <1>2, <1>5
  <2>2. i - Len(frames) \in 1..Len(fs) /\ longer[i] = fs[i - Len(frames)]
    BY <1>2, <1>3, <2>1
  <2>3. state' # "Active" /\ Len(fs) = 1
    BY <2>2
  <2> QED
    BY <1>2, <2>1, <2>3
<1>7. NothingAfterClose' /\ (state = "Active" => NoCloseYet)'
    BY <1>1, <1>6 DEF NothingAfterClose, NoCloseYet
<1>8. (state = "ClosedByPeer" => CloseIsQueued)'
  <2> SUFFICES ASSUME state' = "ClosedByPeer" PROVE CloseIsQueued'
    OBVIOUS
  <2>1. Len(fs) = 1 /\ fs[1].op = "Close"
    OBVIOUS
  <2>2. Len(longer) = Len(frames) + 1 /\ longer[Len(longer)].op = "Close"
    BY <1>2, <1>4, <2>1
  <2>3. longer # <<>>
    BY <1>2, <2>2
  <2> QED
    BY <1>1, <2>2, <2>3 DEF CloseIsQueued
<1>9. ended = "no" /\ ~shutdown /\ ~has_errored
    BY DEF CloseInv, ShutdownAfterFlush, DecoderErrorIsFinal, TypeOK
<1>10. /\ AcknowledgedIsWritten' /\ ShutdownAfterFlush' /\ DecoderErrorIsFinal'
       /\ (ended # "no" => state = "CloseAcknowledged")'
    BY <1>9 DEF AcknowledgedIsWritten, ShutdownAfterFlush, DecoderErrorIsFinal, TypeOK
<1>11. /\ (At("read") => state \in {"Active", "ClosedByUs"})'
       /\ (call.op = "close" => state # "Active")'
       /\ (call.at \in {"flush", "shutdown"} => call.op = "close")'
       /\ (At("shutdown") => ~HasRemaining)'
    BY DEF At
<1> QED
    BY <1>7, <1>8, <1>10, <1>11 DEF CloseInv

\* A close message is one frame and no frame of another message is a close.
LEMMA MessageFramesClose ==
    ASSUME NEW m \in Messages
    PROVE  /\ m.op = "Close" => Len(MessageFrames(m)) = 1 /\ MessageFrames(m)[1].op = "Close"
           /\ m.op # "Close" => \A i \in 1..Len(MessageFrames(m)) : MessageFrames(m)[i].op # "Close"
<1> DEFINE q == (m.len + FrameSize - 1) \div FrameSize
           n == IF m.op \in ControlOps \/ m.len <= FrameSize THEN 1 ELSE q
           fs == [i \in 1..n |-> [op |-> IF i = 1 THEN m.op ELSE "Continuation", fin |-> i = n]]
<1>1. fs = MessageFrames(m) /\ MessageFrames(m) \in Seq(OutFrames)
    BY MessageFramesType DEF MessageFrames
<1>2. m.len \in Nat /\ FrameSize \in Nat \ {0}
    BY StreamAssumption
<1>3. q \in Nat
    BY <1>2, SMT
<1>4. n \in Nat /\ (m.op = "Close" => n = 1)
    BY <1>3 DEF ControlOps
<1> HIDE DEF n
<1>5. Len(fs) = n /\ \A i \in 1..n : fs[i].op = IF i = 1 THEN m.op ELSE "Continuation"
    BY <1>4
<1> HIDE DEF fs
<1> QED
    BY <1>1, <1>4, <1>5

\* CloseInv and TypeOK together are preserved by every step.
LEMMA CloseInvStep ==
    ASSUME TypeOK, TypeOK', CloseInv, [Next]_vars
    PROVE  CloseInv'
<1>1. /\ call \in Calls /\ call' \in Calls /\ NoCall.at = "frame" /\ NoCall.op = "none"
      /\ \A i \in Places : At(i) <=> call # NoCall /\ call.at = i
      /\ popped <= Len(frames) /\ popped \in Nat /\ Len(frames) \in Nat
    BY DEF TypeOK, NoCall, At
<1>2. /\ call.at = "read" => state \in {"Active", "ClosedByUs"}
      /\ call.op = "close" => state # "Active"
      /\ call.at \in {"flush", "shutdown"} => call.op = "close"
      /\ call.at = "shutdown" => popped = Len(frames)
    BY <1>1 DEF CloseInv, At, NoCall, HasRemaining
<1>3. {"frame", "read", "flush", "shutdown"} \subseteq Places
    BY DEF Places
<1>4. ASSUME frames' = frames, popped' = popped, state' = state, ended' = ended,
             has_errored' = has_errored, shutdown' = shutdown, call' = call
      PROVE  CloseInv'
    BY <1>1, <1>2, <1>4, QuietStep
<1>5. CASE UNCHANGED vars
    BY <1>4, <1>5 DEF vars, structVars, queueVars, taskVars, readVars, writeVars, ghostVars
<1>6. CASE Environment
  <2>1. /\ frames' = frames /\ popped' = popped /\ state' = state /\ ended' = ended
        /\ has_errored' = has_errored /\ shutdown' = shutdown /\ call' = call
    BY <1>6 DEF Environment, PeerSend, PeerEof, Drain, Reset, SetLimits, Cancel, Begin,
                structVars, queueVars, taskVars, readVars, writeVars, ghostVars
  <2> QED
    BY <1>4, <2>1
<1>7. ASSUME NEW t \in Tasks, TaskPolled(t) PROVE CloseInv'
  <2>1. call = NoCall
    BY <1>7 DEF TaskPolled, TaskFlush, TaskReady, TaskStartSend, TaskNext, TaskClose, Polls
  <2>2. CASE TaskFlush(t) \/ TaskReady(t)
    <3>1. /\ frames' = frames /\ call' = call /\ has_errored' = has_errored
          /\ shutdown' = shutdown /\ popped' >= popped
          /\ \/ state' = state /\ ended' = ended
             \/ state' = "CloseAcknowledged" /\ ended' \in {ended, "error"}
      <4>1. frames' = frames /\ call' = call /\ has_errored' = has_errored
        BY <2>2 DEF TaskFlush, TaskReady, readVars
      <4>2. ASSUME NEW r \in FlushResults, PollFlush(t, r),
                   state' = StateAfterFlush(r), ended' = EndedAfterFlush(r)
            PROVE  /\ shutdown' = shutdown /\ popped' >= popped
                   /\ \/ state' = state /\ ended' = ended
                      \/ state' = "CloseAcknowledged" /\ ended' \in {ended, "error"}
        <5>1. shutdown' = shutdown /\ popped' \in popped..Len(frames)
            BY <4>2, PollFlushEffect
        <5> QED
            BY <1>1, <4>2, <5>1 DEF StateAfterFlush, EndedAfterFlush
      <4>3. CASE UNCHANGED <<state, ended, popped, bytes_written, flushing_waker, writeVars>>
        BY <1>1, <4>1, <4>3 DEF writeVars
      <4>4. \/ UNCHANGED <<state, ended, popped, bytes_written, flushing_waker, writeVars>>
            \/ \E r \in FlushResults :
                    /\ PollFlush(t, r)
                    /\ state' = StateAfterFlush(r) /\ ended' = EndedAfterFlush(r)
        BY <2>2 DEF TaskFlush, TaskReady
      <4> QED
        BY <4>1, <4>2, <4>3, <4>4
    <3> QED
        BY <1>1, <2>1, <3>1, QuietStep
  <2>3. CASE TaskNext(t)
    <3>1. call'.at = "frame" /\ call'.op = "next"
        BY <2>3 DEF TaskNext
    <3> QED
        BY <1>1, <2>3, <3>1, QuietStep
        DEF TaskNext, structVars, queueVars, readVars, writeVars, ghostVars
  <2>4. ASSUME NEW m \in Messages, TaskStartSend(t, m) PROVE CloseInv'
    <3>1. CASE state # "Active"
        BY <1>4, <2>4, <3>1 DEF TaskStartSend, readVars, writeVars, ghostVars
    <3>2. CASE state = "Active"
      <4>1. /\ frames' = frames \o MessageFrames(m) /\ state' = StateAfterQueue(state, m.op)
            /\ UNCHANGED <<call, ended, shutdown, has_errored>>
        BY <2>4, <3>2 DEF TaskStartSend, QueueFrames, readVars, writeVars, ghostVars
      <4>2. /\ m.op = "Close" => state' = "ClosedByUs"
            /\ m.op # "Close" => state' = "Active"
        BY <3>2, <4>1 DEF StateAfterQueue
      <4>3. call'.at = "frame" /\ call'.op = "none"
        BY <1>1, <2>1, <4>1
      <4> QED
        BY <3>2, <4>1, <4>2, <4>3, QueueStep, MessageFramesType, MessageFramesClose
    <3> QED
        BY <3>1, <3>2
  <2>5. CASE TaskClose(t)
    <3>1. call'.at = "frame" /\ call'.op = "close"
        BY <2>5 DEF TaskClose
    <3>2. CASE state # "Active"
        BY <1>1, <2>5, <3>1, <3>2, QuietStep DEF TaskClose, readVars, writeVars, ghostVars
    <3>3. CASE state = "Active"
      <4>1. /\ frames' = frames \o Control("Close") /\ state' = "ClosedByUs"
            /\ UNCHANGED <<ended, shutdown, has_errored>>
        BY <2>5, <3>3 DEF TaskClose, QueueFrames, StateAfterQueue, readVars, writeVars, ghostVars
      <4>2. /\ Control("Close") \in Seq(OutFrames) /\ Len(Control("Close")) = 1
            /\ Control("Close")[1].op = "Close"
        BY DEF Control, OutFrames, OpCodes, ControlOps
      <4> QED
        BY <3>1, <3>3, <4>1, <4>2, QueueStep
    <3> QED
        BY <3>2, <3>3
  <2> QED
    BY <1>7, <2>2, <2>3, <2>4, <2>5 DEF TaskPolled
<1>8. ASSUME InCall PROVE CloseInv'
  <2>1. call # NoCall /\ call.task \in Tasks /\ call.op \in {"next", "close"}
    BY <1>8, ReturnTypes
    DEF InCall, FrameTerminated, FrameAcknowledge, FrameFlush, ReadPending, ReadEof,
        ReadIoError, ReadFrameError, ReadControl, ReadData, CloseFlush, CloseShutdown, At
  <2>2. CASE FrameTerminated
    <3>1. /\ state = "CloseAcknowledged" /\ ReturnNone
          /\ frames' = frames /\ popped' = popped /\ state' = state /\ ended' = ended
          /\ has_errored' = has_errored /\ shutdown' = shutdown
        BY <2>2 DEF FrameTerminated, structVars, queueVars, readVars, writeVars, ghostVars
    <3> QED
        BY <1>1, <2>1, <3>1, ReturnPlaces, QuietStep
  <2>3. CASE FrameAcknowledge
    <3>1. PICK r \in FlushResults :
            /\ PollFlush(call.task, r)
            /\ CASE r = "ready" -> state' = "CloseAcknowledged" /\ ended' = "peer" /\ ReturnNone
                 [] r = "pending" -> UNCHANGED <<state, ended>> /\ ReturnPending
                 [] r = "error" -> state' = "CloseAcknowledged" /\ ended' = "error" /\ ReturnItem
        BY <2>3 DEF FrameAcknowledge
    <3>2. frames' = frames /\ has_errored' = has_errored /\ state = "ClosedByPeer"
        BY <2>3 DEF FrameAcknowledge, readVars
    <3>3. /\ shutdown' = shutdown /\ popped' >= popped
          /\ r = "ready" => popped' = Len(frames)
        BY <1>1, <2>1, <3>1, PollFlushEffect
    <3>4. /\ state' # "Active" /\ call'.at \in {"frame", "flush"}
          /\ call'.at = "flush" => call'.op = "close"
          /\ \/ state' = state /\ ended' = ended
             \/ state' = "CloseAcknowledged" /\ ended' = "error"
             \/ state' = "CloseAcknowledged" /\ ended' = "peer" /\ popped' = Len(frames)
        BY <2>1, <3>1, <3>2, <3>3, ReturnPlaces DEF FlushResults
    <3> QED
        BY <3>2, <3>3, <3>4, QuietStep
  <2>4. CASE FrameFlush
    <3>1. /\ frames' = frames /\ has_errored' = has_errored /\ state \in {"Active", "ClosedByUs"}
        BY <2>4 DEF FrameFlush, readVars
    <3>2. CASE HasRemaining
      <4>1. PICK r \in FlushResults :
                /\ PollFlush(FlushingWaker, r)
                /\ state' = StateAfterFlush(r) /\ ended' = EndedAfterFlush(r)
                /\ IF r = "error" THEN ReturnItem ELSE Loop("read")
        BY <2>4, <3>2 DEF FrameFlush
      <4>2. FlushingWaker \in Tasks
        BY <2>1 DEF FlushingWaker, TypeOK
      <4>3. shutdown' = shutdown /\ popped' >= popped
        BY <1>1, <4>1, <4>2, PollFlushEffect
      <4>4. /\ \/ state' = state /\ ended' = ended /\ call'.at = "read"
               \/ state' = "CloseAcknowledged" /\ ended' \in {ended, "error"} /\ call'.at = "frame"
            /\ call'.op \in {"none", call.op}
        BY <1>3, <2>1, <4>1, ReturnPlaces DEF StateAfterFlush, EndedAfterFlush
      <4> QED
        BY <1>2, <3>1, <4>3, <4>4, QuietStep
    <3>3. CASE ~HasRemaining
      <4>1. Loop("read") /\ UNCHANGED <<state, ended, popped, shutdown>>
        BY <2>4, <3>3 DEF FrameFlush, writeVars
      <4>2. call'.at = "read" /\ call'.op = call.op
        BY <1>3, <2>1, <4>1, ReturnPlaces
      <4> QED
        BY <1>1, <1>2, <3>1, <4>1, <4>2, QuietStep
    <3> QED
        BY <3>2, <3>3
  <2>5. CASE ReadPending \/ ReadEof
    <3>1. /\ frames' = frames /\ popped' = popped /\ state' = state /\ ended' = ended
          /\ has_errored' = has_errored /\ shutdown' = shutdown
          /\ ReturnPending \/ ReturnNone
        BY <2>5 DEF ReadPending, ReadEof, structVars, queueVars, readVars, writeVars, ghostVars
    <3>2. /\ call'.at \in {"frame", "flush"} /\ call'.op \in {"none", call.op}
          /\ call'.at = "flush" => call'.op = "close"
        BY <2>1, <3>1, ReturnPlaces
    <3> QED
        BY <1>1, <1>2, <3>1, <3>2, QuietStep
  <2>6. CASE ReadIoError
    <3>1. /\ frames' = frames /\ popped' = popped /\ shutdown' = shutdown
          /\ state' = "CloseAcknowledged" /\ ended' = "error" /\ ReturnItem
        BY <2>6 DEF ReadIoError, queueVars, writeVars
    <3>2. call'.at = "frame"
        BY <2>1, <3>1, ReturnPlaces
    <3> QED
        BY <1>1, <3>1, <3>2, QuietStep
  <2>7. ASSUME At("read") PROVE state \in {"Active", "ClosedByUs"}
    BY <2>7 DEF CloseInv
  <2>8. \A op \in ControlOps :
            /\ Control(op) \in Seq(OutFrames) /\ Len(Control(op)) = 1
            /\ Control(op)[1].op = op
    BY DEF Control, OutFrames, OpCodes
  <2>9. CASE ReadFrameError
    <3>1. /\ popped' = popped /\ shutdown' = shutdown /\ ReturnItem
          /\ state \in {"Active", "ClosedByUs"} /\ state' = StateAfterReadError(state)
        BY <2>7, <2>9 DEF ReadFrameError, writeVars
    <3>2. call'.at = "frame" /\ call'.op \in {"none", call.op}
        BY <2>1, <3>1, ReturnPlaces
    <3>3. CASE state = "ClosedByUs"
      <4>1. frames' = frames /\ ended' = "error" /\ state' = "CloseAcknowledged"
        BY <2>9, <3>1, <3>3 DEF ReadFrameError, StateAfterReadError
      <4> QED
        BY <1>1, <3>1, <3>2, <4>1, QuietStep
    <3>4. CASE state = "Active"
      <4>1. frames' = frames \o Control("Close") /\ ended' = ended /\ state' = "ClosedByPeer"
        BY <2>9, <3>1, <3>4 DEF ReadFrameError, StateAfterReadError, QueueFrames
      <4> QED
        BY <2>8, <3>1, <3>2, <3>4, <4>1, QueueStep DEF ControlOps
    <3> QED
        BY <3>1, <3>3, <3>4
  <2>10. CASE ReadControl
    <3>1. /\ popped' = popped /\ shutdown' = shutdown /\ has_errored' = has_errored /\ ReturnItem
          /\ state \in {"Active", "ClosedByUs"}
        BY <2>7, <2>10 DEF ReadControl, writeVars
    <3>2. call'.at = "frame" /\ call'.op \in {"none", call.op}
        BY <2>1, <3>1, ReturnPlaces
    <3>3. \/ /\ state = "Active" /\ state' = "ClosedByPeer" /\ ended' = ended
             /\ frames' = frames \o Control("Close")
          \/ state' = "CloseAcknowledged" /\ ended' = "us" /\ frames' = frames
          \/ /\ state = "Active" /\ state' = "Active" /\ ended' = ended
             /\ frames' = frames \o Control("Pong")
          \/ state' = state /\ ended' = ended /\ frames' = frames
        BY <2>10 DEF ReadControl, AnswersPing, QueueFrames, StateAfterQueue
    <3>4. CASE state' = state /\ ended' = ended /\ frames' = frames
        BY <1>1, <1>2, <3>1, <3>2, <3>4, QuietStep
    <3>5. CASE state' = "CloseAcknowledged" /\ ended' = "us" /\ frames' = frames
        BY <1>1, <1>2, <3>1, <3>2, <3>5, QuietStep
    <3>6. CASE /\ state = "Active" /\ state' = "ClosedByPeer" /\ ended' = ended
               /\ frames' = frames \o Control("Close")
        BY <2>8, <3>1, <3>2, <3>6, QueueStep DEF ControlOps
    <3>7. CASE /\ state = "Active" /\ state' = "Active" /\ ended' = ended
               /\ frames' = frames \o Control("Pong")
      <4>1. /\ Control("Pong") \in Seq(OutFrames)
            /\ \A i \in 1..Len(Control("Pong")) : Control("Pong")[i].op # "Close"
        BY <2>8 DEF ControlOps
      <4> QED
        BY <1>2, <3>1, <3>2, <3>7, <4>1, QueueStep
    <3> QED
        BY <3>3, <3>4, <3>5, <3>6, <3>7, Zenon
  <2>11. CASE ReadData
    <3>1. /\ frames' = frames /\ popped' = popped /\ state' = state /\ ended' = ended
          /\ has_errored' = has_errored /\ shutdown' = shutdown
          /\ ReturnItem \/ Loop("frame")
        BY <2>11 DEF ReadData, queueVars, writeVars
    <3>2. call'.at = "frame" /\ call'.op \in {"none", call.op}
        BY <1>3, <2>1, <3>1, ReturnPlaces
    <3> QED
        BY <1>1, <1>2, <3>1, <3>2, QuietStep
  <2>12. CASE CloseFlush
    <3>1. PICK r \in FlushResults :
            /\ PollFlush(call.task, r)
            /\ state' = StateAfterFlush(r) /\ ended' = EndedAfterFlush(r)
            /\ CASE r = "ready" -> Loop("shutdown")
                 [] r = "pending" -> ReturnPending
                 [] r = "error" -> Done
        BY <2>12 DEF CloseFlush
    <3>2. frames' = frames /\ has_errored' = has_errored
        BY <2>12 DEF CloseFlush, readVars
    <3>3. /\ shutdown' = shutdown /\ popped' >= popped
          /\ r = "ready" => popped' = Len(frames)
        BY <1>1, <2>1, <3>1, PollFlushEffect
    <3>4. /\ call'.at = "frame" \/ (call'.at = "shutdown" /\ popped' = Len(frames))
          /\ call'.op \in {"none", call.op}
          /\ call'.at = "shutdown" => call'.op = "close"
        BY <1>2, <1>3, <2>1, <2>12, <3>1, <3>3, ReturnPlaces DEF FlushResults, CloseFlush, At
    <3>5. \/ state' = state /\ ended' = ended
          \/ state' = "CloseAcknowledged" /\ ended' \in {ended, "error"}
        BY <3>1 DEF StateAfterFlush, EndedAfterFlush
    <3> QED
        BY <1>2, <3>2, <3>3, <3>4, <3>5, QuietStep
  <2>13. CASE CloseShutdown
    <3>1. /\ frames' = frames /\ popped' = popped /\ state' = state /\ ended' = ended
          /\ has_errored' = has_errored /\ call.at = "shutdown"
          /\ Done \/ ReturnPending
        BY <2>13 DEF CloseShutdown, At, structVars, queueVars, readVars, ghostVars
    <3>2. call'.at = "frame" /\ call'.op = "none"
        BY <2>1, <3>1, ReturnPlaces
    <3>3. state # "Active"
        BY <1>2, <3>1
    <3> QED
        BY <1>1, <1>2, <3>1, <3>2, <3>3, QuietStep
  <2> QED
    BY <1>8, <2>2, <2>3, <2>4, <2>5, <2>6, <2>9, <2>10, <2>11, <2>12, <2>13 DEF InCall
<1> QED
    BY <1>5, <1>6, <1>7, <1>8 DEF Next

\* Rank grows from Active through the two closed states to CloseAcknowledged.
LEMMA StateStep ==
    ASSUME TypeOK, CloseInv, [Next]_vars
    PROVE  state' = state \/ Rank[state'] > Rank[state]
<1>1. /\ Rank["Active"] = 0 /\ Rank["ClosedByPeer"] = 1 /\ Rank["ClosedByUs"] = 1
      /\ Rank["CloseAcknowledged"] = 2
    BY DEF Rank, StreamStates
<1>2. \A r \in FlushResults : StateAfterFlush(r) \in {state, "CloseAcknowledged"}
    BY DEF StateAfterFlush
<1>3. \/ state' \in {state, "CloseAcknowledged"}
      \/ state = "Active" /\ state' \in {"ClosedByUs", "ClosedByPeer"}
  <2>1. CASE UNCHANGED vars
    BY <2>1 DEF vars, structVars
  <2>2. CASE Environment
    BY <2>2 DEF Environment, PeerSend, PeerEof, Drain, Reset, SetLimits, Cancel, Begin, structVars
  <2>3. ASSUME NEW t \in Tasks, TaskPolled(t)
        PROVE  \/ state' \in {state, "CloseAcknowledged"}
               \/ state = "Active" /\ state' = "ClosedByUs"
    <3>1. CASE TaskFlush(t) \/ TaskReady(t)
        BY <1>2, <3>1 DEF TaskFlush, TaskReady
    <3>2. CASE TaskNext(t) \/ TaskClose(t) \/ \E m \in Messages : TaskStartSend(t, m)
        BY <3>2 DEF TaskNext, TaskClose, TaskStartSend, StateAfterQueue, structVars
    <3> QED
        BY <2>3, <3>1, <3>2 DEF TaskPolled
  <2>4. CASE InCall
    <3>1. CASE FrameTerminated \/ ReadPending \/ ReadEof \/ ReadData \/ CloseShutdown
        BY <3>1 DEF FrameTerminated, ReadPending, ReadEof, ReadData, CloseShutdown, structVars
    <3>2. CASE FrameAcknowledge \/ FrameFlush \/ CloseFlush
        BY <1>2, <3>2 DEF FrameAcknowledge, FrameFlush, CloseFlush, FlushResults
    <3>3. CASE ReadIoError
        BY <3>3 DEF ReadIoError
    <3>4. CASE ReadFrameError
      <4>1. state \in {"Active", "ClosedByUs"} /\ state' = StateAfterReadError(state)
        BY <3>4 DEF ReadFrameError, CloseInv
      <4> QED
        BY <4>1 DEF StateAfterReadError
    <3>5. CASE ReadControl
        BY <3>5 DEF ReadControl, StateAfterQueue
    <3> QED
        BY <2>4, <3>1, <3>2, <3>3, <3>4, <3>5 DEF InCall
  <2> QED
    BY <2>1, <2>2, <2>3, <2>4 DEF Next
<1> QED
    BY <1>1, <1>3 DEF TypeOK, StreamStates

\* CloseInv holds of a fresh stream, and every step keeps it.
THEOREM CloseInvariant == Spec => []CloseInv
<1>1. Init => CloseInv
    BY DEF Init, CloseInv, NothingAfterClose, NoCloseYet, AcknowledgedIsWritten, At, NoCall,
           ShutdownAfterFlush, DecoderErrorIsFinal
<1>2. TypeOK /\ TypeOK' /\ CloseInv /\ [Next]_vars => CloseInv'
    BY CloseInvStep
<1> QED
    BY <1>1, <1>2, TypeCorrect, PTL DEF Spec

\* Whoever queues the close frame (close(), a sent close message, the reply to
\* the peer's close or to an invalid frame), it is the last frame ever queued.
THEOREM NothingQueuedAfterClose == Spec => []NothingAfterClose
<1>1. CloseInv => NothingAfterClose
    BY DEF CloseInv
<1> QED
    BY <1>1, CloseInvariant, PTL

\* poll_next returns None for a close by the peer only after our close frame,
\* and everything queued before it, is written.
THEOREM AcknowledgedOnlyWhenWritten == Spec => []AcknowledgedIsWritten
<1>1. CloseInv => AcknowledgedIsWritten
    BY DEF CloseInv
<1> QED
    BY <1>1, CloseInvariant, PTL

\* poll_close shuts the transport down with nothing left to write, and nothing
\* is queued afterwards.
THEOREM ShutdownOnlyAfterFlush == Spec => []ShutdownAfterFlush
<1>1. CloseInv => ShutdownAfterFlush
    BY DEF CloseInv
<1> QED
    BY <1>1, CloseInvariant, PTL

\* No frame is read once the decoder has failed.
THEOREM NoReadAfterDecoderError == Spec => []DecoderErrorIsFinal
<1>1. CloseInv => DecoderErrorIsFinal
    BY DEF CloseInv
<1> QED
    BY <1>1, CloseInvariant, PTL

\* The state of the stream never goes back.
THEOREM StateOnlyMovesForward == Spec => StateMovesForward
<1>1. TypeOK /\ CloseInv /\ [Next]_vars => [state' = state \/ Rank[state'] > Rank[state]]_vars
    BY StateStep
<1> QED
    BY <1>1, TypeCorrect, CloseInvariant, PTL DEF Spec, StateMovesForward

-----------------------------------------------------------------------------
(* WebSocketStream implements Endpoint: every step of a poll, a task or    *)
(* the transport is a step of the closing protocol of one end, or leaves   *)
(* what the peer can see of it alone.                                      *)

\* What the peer can see of an end.
Visible == <<state, frames, popped, ended>>

\* The end fails, maybe after it has written some of the queue.
LEMMA FailureIsStep ==
    ASSUME frames' = frames, popped' \in popped..Len(frames),
           state' = "CloseAcknowledged", ended' = IF ended = "no" THEN "error" ELSE ended
    PROVE  End!Next
<1> DEFINE end == [state |-> state, queued |-> frames, written |-> popped, ended |-> ended]
           outcome == IF ended = "no" THEN "error" ELSE ended
<1>1. End!Failed(popped') =
        [state |-> "CloseAcknowledged", queued |-> frames, written |-> popped', ended |-> outcome]
  <2>1. end.ended = ended
    OBVIOUS
  <2>2. End!Failed(popped') =
          [end EXCEPT !.state = "CloseAcknowledged", !.written = popped', !.ended = outcome]
    BY <2>1 DEF End!Failed
  <2> HIDE DEF outcome
  <2> QED
    BY <2>2
<1>2. end' = End!Failed(popped')
    BY <1>1
<1>3. popped' \in End!More
    BY DEF End!More
<1> HIDE DEF end
<1>4. End!Fail
    BY <1>2, <1>3 DEF End!Fail, end
<1> QED
    BY <1>4 DEF End!Next

\* A flush writes some of the queue, and fails or not.
LEMMA FlushIsStep ==
    ASSUME TypeOK, NEW cx \in Tasks, NEW r \in FlushResults, PollFlush(cx, r), frames' = frames,
           state' = StateAfterFlush(r), ended' = EndedAfterFlush(r)
    PROVE  End!Next
<1>1. popped' \in popped..Len(frames)
    BY PollFlushEffect
<1>2. CASE r = "error"
  <2>1. state' = "CloseAcknowledged" /\ ended' = IF ended = "no" THEN "error" ELSE ended
    BY <1>2 DEF StateAfterFlush, EndedAfterFlush
  <2> QED
    BY <1>1, <2>1, FailureIsStep
<1>3. CASE r # "error"
  <2>1. state' = state /\ ended' = ended
    BY <1>3 DEF StateAfterFlush, EndedAfterFlush
  <2> QED
    BY <1>1, <2>1 DEF End!Next, End!Write, End!More, End!Written
<1> QED
    BY <1>2, <1>3

\* A send, or the close frame of poll_close.
LEMMA SendIsStep ==
    ASSUME state = "Active", NEW fs,
           fs \in {MessageFrames(m) : m \in Messages} \cup {Control("Close")},
           frames' = frames \o fs, UNCHANGED <<popped, ended>>,
           state' = IF End!HasClose(fs) THEN "ClosedByUs" ELSE "Active"
    PROVE  End!Next
<1> DEFINE end == [state |-> state, queued |-> frames, written |-> popped, ended |-> ended]
           after == IF End!HasClose(fs) THEN "ClosedByUs" ELSE "Active"
<1>1. End!Queued(fs) =
        [state |-> after, queued |-> frames \o fs, written |-> popped, ended |-> ended]
  <2>1. end.state = "Active" /\ end.queued = frames
    OBVIOUS
  <2>2. End!Queued(fs) = [end EXCEPT !.queued = frames \o fs, !.state = after]
    BY <2>1 DEF End!Queued
  <2> HIDE DEF after
  <2> QED
    BY <2>2
<1>2. end' = End!Queued(fs)
    BY <1>1
<1>3. end.state = "Active"
    OBVIOUS
<1> HIDE DEF end
<1>4. End!Send
    BY <1>2, <1>3 DEF End!Send, end
<1> QED
    BY <1>4 DEF End!Next

\* The close frame that answers a close or an invalid frame.
LEMMA CloseAnswerIsStep ==
    ASSUME TypeOK, state = "Active", frames' = frames \o Control("Close"), UNCHANGED <<popped, ended>>,
           state' = "ClosedByPeer"
    PROVE  End!Next
<1> DEFINE f == [op |-> "Close", fin |-> TRUE]
<1>1. frames \in Seq(OutFrames) /\ f \in OutFrames
    BY DEF TypeOK, OutFrames, OpCodes, ControlOps
<1>2. frames' = Append(frames, f)
    BY <1>1 DEF Control
<1>3. f \in {[op |-> op, fin |-> TRUE] : op \in {"Close", "Pong"}} /\ f.op = "Close"
    OBVIOUS
<1> HIDE DEF f
<1>4. End!Reads
    BY DEF End!Reads
<1>5. [state |-> state, queued |-> frames, written |-> popped, ended |-> ended]' = End!CloseReceived(f)
    BY <1>2 DEF End!CloseReceived
<1>6. End!Read
    BY <1>3, <1>4, <1>5 DEF End!Read
<1> QED
    BY <1>6 DEF End!Next

\* The pong that answers a ping.
LEMMA PongIsStep ==
    ASSUME state = "Active", frames' = frames \o Control("Pong"), UNCHANGED <<state, popped, ended>>
    PROVE  End!Next
<1> DEFINE f == [op |-> "Pong", fin |-> TRUE]
<1>1. f \in {[op |-> op, fin |-> TRUE] : op \in {"Close", "Pong"}} /\ f.op = "Pong"
      /\ Control("Pong") = <<f>>
    BY DEF Control
<1>2. ~End!HasClose(<<f>>)
    BY DEF End!HasClose
<1> HIDE DEF f
<1>3. End!Reads
    BY DEF End!Reads
<1>4. [state |-> state, queued |-> frames, written |-> popped, ended |-> ended]' = End!PingReceived(f)
    BY <1>1, <1>2 DEF End!PingReceived, End!Queued
<1>5. End!Read
    BY <1>1, <1>3, <1>4 DEF End!Read
<1> QED
    BY <1>5 DEF End!Next

\* The stream that its peer closed ends, with everything written.
LEMMA AcknowledgedIsStep ==
    ASSUME state = "ClosedByPeer", frames' = frames, popped' = Len(frames),
           state' = "CloseAcknowledged", ended' = "peer"
    PROVE  End!Next
<1> DEFINE end == [state |-> state, queued |-> frames, written |-> popped, ended |-> ended]
           n == Len(frames)
<1>1. end.queued = frames /\ end.state = "ClosedByPeer"
    OBVIOUS
<1>2. End!Acknowledged =
        [end EXCEPT !.state = "CloseAcknowledged", !.written = n, !.ended = "peer"]
    BY <1>1 DEF End!Acknowledged
<1>3. end' = [state |-> "CloseAcknowledged", queued |-> frames, written |-> n, ended |-> "peer"]
    OBVIOUS
<1> HIDE DEF n
<1>4. end' = End!Acknowledged
    BY <1>2, <1>3
<1> HIDE DEF end
<1>5. End!Acknowledge
    BY <1>1, <1>4 DEF End!Acknowledge, end
<1> QED
    BY <1>5 DEF End!Next

\* Our close is answered.
LEMMA AnsweredIsStep ==
    ASSUME state = "ClosedByUs", UNCHANGED <<frames, popped>>, state' = "CloseAcknowledged",
           ended' = "us"
    PROVE  End!Next
<1> DEFINE f == [op |-> "Close", fin |-> TRUE]
<1>1. f \in {[op |-> op, fin |-> TRUE] : op \in {"Close", "Pong"}} /\ f.op = "Close"
    OBVIOUS
<1> HIDE DEF f
<1>2. End!Reads
    BY DEF End!Reads
<1>3. [state |-> state, queued |-> frames, written |-> popped, ended |-> ended]' = End!CloseReceived(f)
    BY DEF End!CloseReceived
<1>4. End!Read
    BY <1>1, <1>2, <1>3 DEF End!Read
<1> QED
    BY <1>4 DEF End!Next

\* Frames hold a close exactly when the message is a close.
LEMMA HasCloseOfMessage ==
    /\ \A m \in Messages : End!HasClose(MessageFrames(m)) <=> m.op = "Close"
    /\ End!HasClose(Control("Close"))
<1>1. ASSUME NEW m \in Messages PROVE End!HasClose(MessageFrames(m)) <=> m.op = "Close"
  <2>1. DOMAIN MessageFrames(m) = 1..Len(MessageFrames(m))
    BY MessageFramesType
  <2> QED
    BY <2>1, MessageFramesClose DEF End!HasClose
<1>2. End!HasClose(Control("Close"))
    BY DEF Control, End!HasClose
<1> QED
    BY <1>1, <1>2

\* Every step of the stream is a step of the end, or is not visible.
LEMMA StepRefines ==
    ASSUME TypeOK, CloseInv, [Next]_vars
    PROVE  End!Next \/ UNCHANGED Visible
<1>1. ASSUME At("read") PROVE state \in {"Active", "ClosedByUs"} /\ ended = "no"
    BY <1>1 DEF CloseInv
<1>2. CASE UNCHANGED vars
    BY <1>2 DEF vars, structVars, queueVars, ghostVars, Visible
<1>3. CASE Environment
    BY <1>3 DEF Environment, PeerSend, PeerEof, Drain, Reset, SetLimits, Cancel, Begin,
                structVars, queueVars, ghostVars, Visible
<1>4. ASSUME NEW t \in Tasks, TaskPolled(t) PROVE End!Next \/ UNCHANGED Visible
  <2>1. CASE TaskFlush(t) \/ TaskReady(t)
    <3>1. frames' = frames
        BY <2>1 DEF TaskFlush, TaskReady
    <3>2. \/ UNCHANGED <<state, popped, ended>>
          \/ \E r \in FlushResults :
                /\ PollFlush(t, r)
                /\ state' = StateAfterFlush(r) /\ ended' = EndedAfterFlush(r)
        BY <2>1 DEF TaskFlush, TaskReady
    <3>3. CASE UNCHANGED <<state, popped, ended>>
        BY <3>1, <3>3 DEF Visible
    <3> QED
        BY <3>1, <3>2, <3>3, FlushIsStep
  <2>2. CASE TaskNext(t)
    BY <2>2 DEF TaskNext, structVars, queueVars, ghostVars, Visible
  <2>3. ASSUME NEW m \in Messages, TaskStartSend(t, m) PROVE End!Next \/ UNCHANGED Visible
    <3>1. popped' = popped /\ ended' = ended
        BY <2>3 DEF TaskStartSend, ghostVars
    <3>2. CASE state # "Active"
        BY <2>3, <3>1, <3>2 DEF TaskStartSend, Visible
    <3>3. CASE state = "Active"
      <4>1. frames' = frames \o MessageFrames(m) /\ state' = StateAfterQueue(state, m.op)
        BY <2>3, <3>3 DEF TaskStartSend, QueueFrames
      <4>2. state' = IF End!HasClose(MessageFrames(m)) THEN "ClosedByUs" ELSE "Active"
        BY <3>3, <4>1, HasCloseOfMessage DEF StateAfterQueue
      <4> QED
        BY <3>1, <3>3, <4>1, <4>2, SendIsStep
    <3> QED
        BY <3>2, <3>3
  <2>4. CASE TaskClose(t)
    <3>1. popped' = popped /\ ended' = ended
        BY <2>4 DEF TaskClose, ghostVars
    <3>2. CASE state # "Active"
        BY <2>4, <3>1, <3>2 DEF TaskClose, Visible
    <3>3. CASE state = "Active"
      <4>1. frames' = frames \o Control("Close") /\ state' = "ClosedByUs"
        BY <2>4, <3>3 DEF TaskClose, QueueFrames, StateAfterQueue
      <4> QED
        BY <3>1, <3>3, <4>1, HasCloseOfMessage, SendIsStep
    <3> QED
        BY <3>2, <3>3
  <2> QED
    BY <1>4, <2>1, <2>2, <2>3, <2>4 DEF TaskPolled
<1>5. ASSUME InCall PROVE End!Next \/ UNCHANGED Visible
  <2>1. call # NoCall /\ call.task \in Tasks
    BY <1>5, ReturnTypes
    DEF InCall, FrameTerminated, FrameAcknowledge, FrameFlush, ReadPending, ReadEof,
        ReadIoError, ReadFrameError, ReadControl, ReadData, CloseFlush, CloseShutdown, At
  <2>2. CASE FrameTerminated \/ ReadPending \/ ReadEof \/ ReadData \/ CloseShutdown
    BY <2>2 DEF FrameTerminated, ReadPending, ReadEof, ReadData, CloseShutdown, structVars,
                queueVars, ghostVars, Visible
  <2>3. CASE FrameAcknowledge
    <3>1. PICK r \in FlushResults :
            /\ PollFlush(call.task, r)
            /\ CASE r = "ready" -> state' = "CloseAcknowledged" /\ ended' = "peer"
                 [] r = "pending" -> UNCHANGED <<state, ended>>
                 [] r = "error" -> state' = "CloseAcknowledged" /\ ended' = "error"
        BY <2>3 DEF FrameAcknowledge, FlushResults
    <3>2. frames' = frames /\ state = "ClosedByPeer" /\ ended = "no"
        BY <2>3 DEF FrameAcknowledge, CloseInv
    <3>3. CASE r = "ready"
      <4>1. popped' = Len(frames) /\ state' = "CloseAcknowledged" /\ ended' = "peer"
        BY <2>1, <3>1, <3>3, PollFlushEffect
      <4> QED
        BY <3>2, <4>1, AcknowledgedIsStep
    <3>4. CASE r # "ready"
      <4>1. state' = StateAfterFlush(r) /\ ended' = EndedAfterFlush(r)
        BY <3>1, <3>2, <3>4 DEF FlushResults, StateAfterFlush, EndedAfterFlush
      <4> QED
        BY <2>1, <3>1, <3>2, <4>1, FlushIsStep
    <3> QED
        BY <3>3, <3>4
  <2>4. CASE FrameFlush
    <3>1. frames' = frames /\ FlushingWaker \in Tasks
        BY <2>1, <2>4 DEF FrameFlush, FlushingWaker, TypeOK
    <3>2. \/ UNCHANGED <<state, popped, ended>>
          \/ \E r \in FlushResults :
                /\ PollFlush(FlushingWaker, r)
                /\ state' = StateAfterFlush(r) /\ ended' = EndedAfterFlush(r)
        BY <2>4 DEF FrameFlush
    <3>3. CASE UNCHANGED <<state, popped, ended>>
        BY <3>1, <3>3 DEF Visible
    <3> QED
        BY <3>1, <3>2, <3>3, FlushIsStep
  <2>5. CASE CloseFlush
    <3>1. PICK r \in FlushResults :
            /\ PollFlush(call.task, r)
            /\ state' = StateAfterFlush(r) /\ ended' = EndedAfterFlush(r)
        BY <2>5 DEF CloseFlush
    <3>2. frames' = frames
        BY <2>5 DEF CloseFlush
    <3> QED
        BY <2>1, <3>1, <3>2, FlushIsStep
  <2>6. CASE ReadIoError
    <3>1. /\ frames' = frames /\ popped' = popped /\ ended = "no"
          /\ state' = "CloseAcknowledged" /\ ended' = "error"
        BY <1>1, <2>6 DEF ReadIoError, queueVars
    <3>2. popped' \in popped..Len(frames)
        BY <3>1 DEF TypeOK
    <3> QED
        BY <3>1, <3>2, FailureIsStep
  <2>7. CASE ReadFrameError
    <3>1. /\ popped' = popped /\ ended = "no" /\ state \in {"Active", "ClosedByUs"}
          /\ state' = StateAfterReadError(state)
        BY <1>1, <2>7 DEF ReadFrameError
    <3>2. CASE state = "ClosedByUs"
      <4>1. frames' = frames /\ ended' = "error" /\ state' = "CloseAcknowledged"
        BY <2>7, <3>1, <3>2 DEF ReadFrameError, StateAfterReadError
      <4>2. popped' \in popped..Len(frames)
        BY <3>1 DEF TypeOK
      <4> QED
        BY <3>1, <4>1, <4>2, FailureIsStep
    <3>3. CASE state = "Active"
      <4>1. frames' = frames \o Control("Close") /\ ended' = ended /\ state' = "ClosedByPeer"
        BY <2>7, <3>1, <3>3 DEF ReadFrameError, StateAfterReadError, QueueFrames
      <4> QED
        BY <3>1, <3>3, <4>1, CloseAnswerIsStep
    <3> QED
        BY <3>1, <3>2, <3>3
  <2>8. CASE ReadControl
    <3>1. popped' = popped /\ state \in {"Active", "ClosedByUs"}
        BY <1>1, <2>8 DEF ReadControl
    <3>2. \/ /\ state = "Active" /\ state' = "ClosedByPeer" /\ ended' = ended
             /\ frames' = frames \o Control("Close")
          \/ state = "ClosedByUs" /\ state' = "CloseAcknowledged" /\ ended' = "us" /\ frames' = frames
          \/ state = "Active" /\ state' = state /\ ended' = ended /\ frames' = frames \o Control("Pong")
          \/ state' = state /\ ended' = ended /\ frames' = frames
        BY <2>8 DEF ReadControl, AnswersPing, QueueFrames, StateAfterQueue
    <3>3. CASE state' = state /\ ended' = ended /\ frames' = frames
        BY <3>1, <3>3 DEF Visible
    <3> QED
        BY <3>1, <3>2, <3>3, CloseAnswerIsStep, AnsweredIsStep, PongIsStep
  <2> QED
    BY <1>5, <2>2, <2>3, <2>4, <2>5, <2>6, <2>7, <2>8 DEF InCall
<1> QED
    BY <1>2, <1>3, <1>4, <1>5 DEF Next

\* For every number of tasks, every mix of messages and frames and every order
\* of polls, wake-ups, partial writes, faults and cancellations, the stream
\* behaves to its peer as an Endpoint.
THEOREM StreamImplementsEndpoint == Spec => ImplementsEndpoint
<1> DEFINE end == [state |-> state, queued |-> frames, written |-> popped, ended |-> ended]
<1>1. Init => End!Init
    BY DEF Init, End!Init, End!Opened
<1>2. TypeOK /\ CloseInv /\ [Next]_vars => [End!Next]_end
  <2>1. UNCHANGED Visible => UNCHANGED end
    BY DEF Visible
  <2> QED
    BY <2>1, StepRefines
<1> QED
    BY <1>1, <1>2, TypeCorrect, CloseInvariant, PTL DEF Spec, ImplementsEndpoint, End!Spec

-----------------------------------------------------------------------------
(* How a message is split into the frames that are queued, and how the     *)
(* frames that are read are put together again.                            *)
(*                                                                         *)
(* The frames that are queued.  Between two polls no message is unfinished *)
(* in the queue: into_frames queues all of it in one call of start_send.   *)

Before(fs, i) == {j \in 1..(i - 1) : fs[j].op \notin ControlOps}
OpenAt(fs, i) == \E j \in Before(fs, i) : ~fs[j].fin /\ \A k \in Before(fs, i) : k <= j
WellFormed(fs) ==
    \A i \in 1..Len(fs) :
        /\ fs[i].op = "Continuation" => OpenAt(fs, i)
        /\ fs[i].op \in DataOps => ~OpenAt(fs, i)
OutgoingInv == WellFormed(frames) /\ ~OpenAt(frames, Len(frames) + 1)

\* What OutgoingWellFormed says of the queue.
LEMMA WellFormedQueue == OutgoingWellFormed <=> WellFormed(frames)
BY DEF OutgoingWellFormed, WellFormed, OpenAt, Before

\* Frames queued behind do not change what came before.
LEMMA OpenBefore ==
    ASSUME NEW fs, NEW gs, NEW n \in Nat, NEW i \in 1..(n + 1),
           \A j \in 1..n : gs[j] = fs[j]
    PROVE  OpenAt(gs, i) <=> OpenAt(fs, i)
<1>1. \A j \in 1..(i - 1) : gs[j] = fs[j]
    OBVIOUS
<1>2. Before(gs, i) = Before(fs, i)
    BY <1>1 DEF Before
<1>3. \A j \in Before(fs, i) : gs[j] = fs[j]
    BY <1>1 DEF Before
<1> QED
    BY <1>2, <1>3, Zenon DEF OpenAt

\* A control frame is queued.
LEMMA ControlQueued ==
    ASSUME NEW fs, NEW gs, NEW n \in Nat, Len(fs) = n, Len(gs) = n + 1,
           \A j \in 1..n : gs[j] = fs[j], gs[n + 1].op \in ControlOps,
           WellFormed(fs), ~OpenAt(fs, n + 1)
    PROVE  WellFormed(gs) /\ ~OpenAt(gs, n + 2)
<1>1. \A i \in 1..(n + 1) : OpenAt(gs, i) <=> OpenAt(fs, i)
    BY OpenBefore
<1>2. Before(gs, n + 2) = Before(gs, n + 1)
    BY DEF Before
<1>3. ~OpenAt(gs, n + 2)
    BY <1>1, <1>2 DEF OpenAt
<1>4. ASSUME NEW i \in 1..(n + 1)
      PROVE  /\ gs[i].op = "Continuation" => OpenAt(gs, i)
             /\ gs[i].op \in DataOps => ~OpenAt(gs, i)
  <2>1. CASE i \in 1..n
    BY <1>1, <2>1 DEF WellFormed
  <2>2. CASE i = n + 1
    BY <2>2 DEF ControlOps, DataOps
  <2> QED
    BY <2>1, <2>2
<1> QED
    BY <1>3, <1>4 DEF WellFormed

\* All the k frames of a data message are queued.
LEMMA MessageQueued ==
    ASSUME NEW fs, NEW gs, NEW n \in Nat, NEW k \in Nat, Len(fs) = n, Len(gs) = n + k,
           NEW op \in DataOps,
           \A j \in 1..n : gs[j] = fs[j],
           \A j \in (n + 1)..(n + k) :
               /\ gs[j].op = IF j = n + 1 THEN op ELSE "Continuation"
               /\ gs[j].fin <=> j = n + k,
           WellFormed(fs), ~OpenAt(fs, n + 1)
    PROVE  WellFormed(gs) /\ ~OpenAt(gs, n + k + 1)
<1>1. \A i \in 1..(n + 1) : OpenAt(gs, i) <=> OpenAt(fs, i)
    BY OpenBefore
<1>2. \A j \in (n + 1)..(n + k) : gs[j].op \notin ControlOps
    BY DEF ControlOps, DataOps
<1>3. ASSUME NEW i \in (n + 2)..(n + k + 1)
      PROVE  OpenAt(gs, i) <=> ~gs[i - 1].fin
  <2>1. i - 1 \in Before(gs, i) /\ \A j \in Before(gs, i) : j \in Int /\ j <= i - 1
    BY <1>2 DEF Before
  <2>2. ASSUME NEW j \in Before(gs, i), \A l \in Before(gs, i) : l <= j
        PROVE  j = i - 1
    BY <2>1, <2>2
  <2> QED
    BY <2>1, <2>2 DEF OpenAt
<1>4. ~OpenAt(gs, n + k + 1)
  <2>1. CASE k = 0
    BY <1>1, <2>1
  <2>2. CASE k # 0
    <3>1. n + k + 1 \in (n + 2)..(n + k + 1) /\ n + k + 1 - 1 = n + k /\ n + k \in (n + 1)..(n + k)
      BY <2>2
    <3>2. gs[n + k].fin
      BY <3>1
    <3> QED
      BY <1>3, <3>1, <3>2
  <2> QED
    BY <2>1, <2>2
<1>5. ASSUME NEW i \in 1..(n + k)
      PROVE  /\ gs[i].op = "Continuation" => OpenAt(gs, i)
             /\ gs[i].op \in DataOps => ~OpenAt(gs, i)
  <2>1. CASE i \in 1..n
    BY <1>1, <2>1 DEF WellFormed
  <2>2. CASE i = n + 1
    BY <1>1, <2>2 DEF DataOps
  <2>3. CASE i \in (n + 2)..(n + k)
    <3>1. i - 1 \in (n + 1)..(n + k) /\ i - 1 # n + k /\ i \in (n + 2)..(n + k + 1)
      BY <2>3
    <3>2. ~gs[i - 1].fin /\ gs[i].op = "Continuation"
      BY <2>3, <3>1
    <3> QED
      BY <1>3, <3>1, <3>2 DEF DataOps
  <2> QED
    BY <2>1, <2>2, <2>3
<1> QED
    BY <1>4, <1>5 DEF WellFormed

\* Every step queues nothing, one control frame, or a whole message.
LEMMA FramesStep ==
    ASSUME TypeOK, [Next]_vars
    PROVE  \/ frames' = frames
           \/ \E op \in {"Close", "Pong"} : frames' = frames \o Control(op)
           \/ \E m \in Messages : frames' = frames \o MessageFrames(m)
<1> DEFINE Goal == \/ frames' = frames
                   \/ \E op \in {"Close", "Pong"} : frames' = frames \o Control(op)
                   \/ \E m \in Messages : frames' = frames \o MessageFrames(m)
<1>1. CASE UNCHANGED vars
    BY <1>1 DEF vars, queueVars
<1>2. CASE Environment
    BY <1>2 DEF Environment, PeerSend, PeerEof, Drain, Reset, SetLimits, Cancel, Begin, queueVars
<1>3. CASE FrameTerminated \/ FrameAcknowledge \/ FrameFlush \/ ReadPending \/ ReadEof
           \/ ReadIoError \/ ReadData \/ CloseFlush \/ CloseShutdown
  <2>1. frames' = frames
    BY <1>3 DEF FrameTerminated, FrameAcknowledge, FrameFlush, ReadPending, ReadEof, ReadIoError,
             ReadData, CloseFlush, CloseShutdown, queueVars
  <2> QED
    BY <2>1
<1>4. CASE ReadFrameError \/ ReadControl
    BY <1>4 DEF ReadFrameError, ReadControl, QueueFrames
<1>5. ASSUME NEW t \in Tasks, TaskPolled(t) PROVE Goal
    BY <1>5 DEF TaskPolled, TaskFlush, TaskReady, TaskNext, TaskClose, TaskStartSend, QueueFrames,
             queueVars
<1> QED
    BY <1>1, <1>2, <1>3, <1>4, <1>5 DEF Next, InCall

\* Every step keeps the queue well-formed, and leaves no message open in it.
LEMMA OutgoingStep ==
    ASSUME TypeOK, OutgoingInv, [Next]_vars
    PROVE  OutgoingInv'
<1> DEFINE n == Len(frames)
<1>1. frames \in Seq(OutFrames) /\ n \in Nat
    BY DEF TypeOK
<1>2. WellFormed(frames) /\ ~OpenAt(frames, n + 1)
    BY DEF OutgoingInv
<1>3. CASE frames' = frames
    BY <1>2, <1>3 DEF OutgoingInv
<1>4. ASSUME NEW op \in {"Close", "Pong"}, frames' = frames \o Control(op) PROVE OutgoingInv'
  <2> DEFINE c == Control(op)
             gs == frames \o c
  <2>1. c \in Seq(OutFrames) /\ Len(c) = 1 /\ c[1].op \in ControlOps
    BY DEF Control, OutFrames, OpCodes, ControlOps
  <2> HIDE DEF c
  <2>2. /\ Len(gs) = n + 1 /\ (\A j \in 1..n : gs[j] = frames[j]) /\ gs[n + 1] = c[1]
    BY <1>1, <2>1, Concatenation, ConcatenationOfOne
  <2> HIDE DEF gs
  <2>3. WellFormed(gs) /\ ~OpenAt(gs, n + 2)
    BY <1>1, <1>2, <2>1, <2>2, ControlQueued
  <2>4. n + 2 = Len(gs) + 1 /\ frames' = gs
    BY <1>1, <1>4, <2>2 DEF gs, c
  <2> QED
    BY <2>3, <2>4 DEF OutgoingInv
<1>5. ASSUME NEW m \in Messages, frames' = frames \o MessageFrames(m) PROVE OutgoingInv'
  <2> DEFINE q == (m.len + FrameSize - 1) \div FrameSize
             k == IF m.op \in ControlOps \/ m.len <= FrameSize THEN 1 ELSE q
             c == [i \in 1..k |-> [op |-> IF i = 1 THEN m.op ELSE "Continuation", fin |-> i = k]]
             gs == frames \o c
  <2>1. c = MessageFrames(m) /\ c \in Seq(OutFrames)
    BY MessageFramesType DEF MessageFrames
  <2>2. m.len \in Nat /\ FrameSize \in Nat \ {0} /\ m.op \in ControlOps \cup DataOps
    BY StreamAssumption
  <2>3. q \in Nat
    BY <2>2, SMT
  <2>4. k \in Nat /\ (m.op \in ControlOps => k = 1)
    BY <2>3
  <2> HIDE DEF k
  <2>5. /\ Len(c) = k
        /\ \A i \in 1..k : c[i].op = (IF i = 1 THEN m.op ELSE "Continuation") /\ (c[i].fin <=> i = k)
    <3>1. Len(c) = k /\ \A i \in 1..k : c[i].op = IF i = 1 THEN m.op ELSE "Continuation"
      BY <2>4
    <3>2. \A i \in 1..k : c[i].fin = (i = k)
      BY <2>4, Zenon
    <3> HIDE DEF c
    <3> QED
      BY <3>1, <3>2
  <2>9. c \in Seq(OutFrames)
    BY <2>1
  <2> HIDE DEF c
  <2>6. Len(gs) = n + k /\ (\A j \in 1..n : gs[j] = frames[j]) /\ \A i \in 1..k : gs[n + i] = c[i]
    <3>0. frames \in Seq(OutFrames)
      BY <1>1
    <3> HIDE DEF n
    <3>1. /\ Len(frames \o c) = Len(frames) + Len(c)
          /\ \A j \in 1..Len(frames) : (frames \o c)[j] = frames[j]
          /\ \A i \in 1..Len(c) : (frames \o c)[Len(frames) + i] = c[i]
      BY <3>0, <2>9, Concatenation
    <3> QED
      BY <2>5, <3>1, Zenon DEF n
  <2> HIDE DEF gs
  <2>7. WellFormed(gs) /\ ~OpenAt(gs, n + k + 1)
    <3>1. CASE m.op \in ControlOps
      <4>1. k = 1 /\ gs[n + 1] = c[1] /\ c[1].op = m.op
        BY <2>4, <2>5, <2>6, <3>1
      <4>2. n + k + 1 = n + 2 /\ Len(gs) = n + 1
        BY <1>1, <2>6, <4>1
      <4>3. gs[n + 1].op \in ControlOps
        BY <3>1, <4>1
      <4>4. WellFormed(gs) /\ ~OpenAt(gs, n + 2)
        BY <1>1, <1>2, <2>6, <4>2, <4>3, ControlQueued, Zenon
      <4> QED
        BY <4>2, <4>4, Zenon
    <3>2. CASE m.op \in DataOps
      <4>1. ASSUME NEW j \in (n + 1)..(n + k)
            PROVE  /\ gs[j].op = IF j = n + 1 THEN m.op ELSE "Continuation"
                   /\ gs[j].fin <=> j = n + k
        <5> DEFINE i == j - n
        <5>1. i \in 1..k /\ n + i = j /\ (i = 1 <=> j = n + 1) /\ (i = k <=> j = n + k)
          BY <1>1, <2>4
        <5>2. gs[j] = c[i]
          BY <2>6, <5>1
        <5> HIDE DEF i
        <5> QED
          BY <2>5, <5>1, <5>2
      <4> QED
        BY <1>1, <1>2, <2>4, <2>6, <3>2, <4>1, MessageQueued
    <3> QED
      BY <2>2, <3>1, <3>2
  <2>8. frames' = gs
    BY <1>5, <2>1 DEF gs
  <2> QED
    BY <2>6, <2>7, <2>8 DEF OutgoingInv
<1> QED
    BY <1>3, <1>4, <1>5, FramesStep

\* The frames queued form legal messages: whatever pongs and closes the stream
\* queues by itself (poll_next_frame, poll_close) and whichever tasks send, a
\* continuation frame only ever follows an unfinished frame of its message, and
\* no message begins inside another one (into_frames, start_send).
THEOREM OutgoingIsWellFormed == Spec => []OutgoingWellFormed
<1>1. Init => OutgoingInv
    BY DEF Init, OutgoingInv, WellFormed, OpenAt, Before
<1>2. TypeOK /\ OutgoingInv /\ [Next]_vars => OutgoingInv'
    BY OutgoingStep
<1>3. OutgoingInv => OutgoingWellFormed
    BY WellFormedQueue DEF OutgoingInv
<1> QED
    BY <1>1, <1>2, <1>3, TypeCorrect, PTL DEF Spec

-----------------------------------------------------------------------------
(* The message that is collected.  The fragments in partial_payload are    *)
(* numbered from the one that opened the message to the last one seen.     *)

Run(a, b) == [i \in 1..(b - a + 1) |-> a + i - 1]
PartialInv ==
    /\ opener <= Len(seen)
    /\ ~oversized => partial.ids = IF frag = "Continuation" THEN <<>> ELSE Run(opener, Len(seen))
    /\ ~oversized => \E a, b \in Nat : a <= b + 1 /\ last.ids = Run(a, b)

\* Runs of numbers.
LEMMA RunFacts ==
    ASSUME NEW a \in Nat, NEW b \in Nat, a <= b + 1
    PROVE  /\ Append(Run(a, b), b + 1) = Run(a, b + 1)
           /\ Run(a, a) = <<a>>
           /\ \A i \in 1..(Len(Run(a, b)) - 1) : Run(a, b)[i + 1] = Run(a, b)[i] + 1
<1> DEFINE n == b - a + 1
           r == Run(a, b)
           s == Append(r, b + 1)
           u == Run(a, b + 1)
           v == Run(a, a)
<1>1. n \in Nat /\ b + 1 - a + 1 = n + 1 /\ a - a + 1 = 1
    OBVIOUS
<1>2. r \in Seq(Int) /\ Len(r) = n /\ \A i \in 1..n : r[i] = a + i - 1
    BY <1>1 DEF Run
<1>3. u \in Seq(Int) /\ Len(u) = n + 1 /\ \A i \in 1..(n + 1) : u[i] = a + i - 1
    BY <1>1 DEF Run
<1>4. v \in Seq(Int) /\ Len(v) = 1 /\ v[1] = a
    BY <1>1 DEF Run
<1> HIDE DEF r, u, v
<1>5. /\ s \in Seq(Int) /\ Len(s) = n + 1 /\ \A i \in 1..(n + 1) : s[i] = IF i <= n THEN r[i] ELSE b + 1
    BY <1>1, <1>2
<1> HIDE DEF s
<1>6. \A i \in 1..(n + 1) : s[i] = u[i]
    BY <1>1, <1>2, <1>3, <1>5
<1>7. s = u
    BY <1>1, <1>3, <1>5, <1>6
<1>8. v = <<a>>
    BY <1>4
<1>9. \A i \in 1..(n - 1) : r[i + 1] = r[i] + 1
    BY <1>1, <1>2
<1> QED
    BY <1>2, <1>7, <1>8, <1>9 DEF r, s, u, v

\* What the decoder lets pass.
LEMMA Passes ==
    ASSUME TypeOK, inbound # <<>>, ~Rejected(Head(inbound))
    PROVE  LET f == Head(inbound) IN
           /\ f \in InFrames /\ f.len <= max_payload_len
           /\ f.op = "Continuation" <=> frag # "Continuation" /\ f.op \notin ControlOps
           /\ f.op \notin ControlOps \cup {"Continuation"} => f.op \in DataOps
<1> DEFINE f == Head(inbound)
<1>1. f \in PeerFrames
    BY DEF TypeOK
<1> HIDE DEF f
<1>2. f \in InFrames /\ f.op \in OpCodes /\ f.len \in Nat /\ max_payload_len \in Nat
    BY <1>1, StreamAssumption DEF InFrames, TypeOK
<1>3. /\ ~(f.op = "Continuation" /\ frag = "Continuation")
      /\ ~(f.op \in DataOps /\ frag # "Continuation") /\ ~(f.len > max_payload_len)
    BY DEF Rejected, f
<1>4. f.len <= max_payload_len
    BY <1>2, <1>3
<1> QED
    BY <1>2, <1>3, <1>4 DEF OpCodes, ControlOps, DataOps, f

\* Only ReadData collects and delivers.
LEMMA AssemblyStep ==
    ASSUME TypeOK, [Next]_vars
    PROVE  UNCHANGED <<frag, partial, seen, opener, last, oversized>> \/ ReadData
<1> DEFINE Goal == UNCHANGED <<frag, partial, seen, opener, last, oversized>>
<1>1. CASE UNCHANGED vars
    BY <1>1 DEF vars, structVars, ghostVars
<1>2. CASE Environment
    BY <1>2 DEF Environment, PeerSend, PeerEof, Drain, Reset, SetLimits, Cancel, Begin, structVars,
             ghostVars
<1>3. CASE FrameTerminated \/ FrameAcknowledge \/ FrameFlush \/ ReadPending \/ ReadEof
           \/ ReadIoError \/ ReadFrameError \/ ReadControl \/ CloseFlush \/ CloseShutdown
  <2>1. Goal
    BY <1>3 DEF FrameTerminated, FrameAcknowledge, FrameFlush, ReadPending, ReadEof, ReadIoError,
             ReadFrameError, ReadControl, CloseFlush, CloseShutdown, structVars, ghostVars
  <2> QED
    BY <2>1
<1>4. ASSUME NEW t \in Tasks, TaskPolled(t) PROVE Goal
    BY <1>4 DEF TaskPolled, TaskFlush, TaskReady, TaskNext, TaskClose, TaskStartSend, structVars,
             ghostVars
<1> QED
    BY <1>1, <1>2, <1>3, <1>4 DEF Next, InCall

\* What ReadData delivers.
Delivers(op, len, ids) == last' = [op |-> op, len |-> len, ids |-> ids, limit |-> max_payload_len]

\* What ReadData does with the frame f.
LEMMA ReadDataEffect ==
    ASSUME TypeOK, ReadData
    PROVE  LET f == Head(inbound)
               whole == partial.len + f.len
               id == Len(seen) + 1
           IN  /\ f.len <= max_payload_len /\ whole \in Nat /\ f.len \in Nat
               /\ \/ /\ f.op \in DataOps /\ frag = "Continuation" /\ opener' = id
                     /\ seen' = Append(seen, f.op)
                     /\ \/ Delivers(f.op, f.len, <<id>>)
                           /\ UNCHANGED <<frag, partial, oversized>>
                        \/ /\ frag' = f.op /\ partial' = [len |-> f.len, ids |-> <<id>>]
                           /\ UNCHANGED <<last, oversized>>
                  \/ /\ frag # "Continuation" /\ opener' = opener
                     /\ seen' = Append(seen, "Continuation")
                     /\ \/ oversized' /\ UNCHANGED <<frag, partial, last>>
                        \/ /\ partial' = [len |-> whole, ids |-> Append(partial.ids, id)]
                           /\ UNCHANGED <<frag, last, oversized>>
                        \/ /\ frag' = "Continuation" /\ partial' = NoPayload /\ whole <= max_payload_len
                           /\ Delivers(frag, whole, Append(partial.ids, id))
                           /\ UNCHANGED oversized
<1> DEFINE f == Head(inbound)
           whole == partial.len + f.len
           id == Len(seen) + 1
<1>1. /\ f \in InFrames /\ f.len <= max_payload_len
      /\ f.op = "Continuation" <=> frag # "Continuation" /\ f.op \notin ControlOps
      /\ f.op \notin ControlOps \cup {"Continuation"} => f.op \in DataOps
    BY Passes DEF ReadData
<1>2. f.len \in Nat /\ whole \in Nat
    BY <1>1 DEF InFrames, TypeOK
<1>3. /\ f.op \notin ControlOps /\ seen' = Append(seen, f.op)
      /\ opener' = IF f.op = "Continuation" THEN opener ELSE id
      /\ \/ f.op # "Continuation" /\ Delivers(f.op, f.len, <<id>>) /\ UNCHANGED <<frag, partial, oversized>>
         \/ /\ f.op # "Continuation" /\ frag' = f.op /\ partial' = [len |-> f.len, ids |-> <<id>>]
            /\ UNCHANGED <<last, oversized>>
         \/ f.op = "Continuation" /\ oversized' /\ UNCHANGED <<frag, partial, last>>
         \/ /\ f.op = "Continuation" /\ partial' = [len |-> whole, ids |-> Append(partial.ids, id)]
            /\ UNCHANGED <<frag, last, oversized>>
         \/ /\ f.op = "Continuation" /\ whole <= max_payload_len
            /\ frag' = "Continuation" /\ partial' = NoPayload
            /\ Delivers(frag, whole, Append(partial.ids, id)) /\ UNCHANGED oversized
    BY DEF ReadData, Delivers, OpcodeTaken
<1> HIDE DEF f, whole, id
<1>4. CASE f.op # "Continuation"
  <2>1. f.op \in DataOps /\ frag = "Continuation" /\ opener' = id
    BY <1>1, <1>3, <1>4
  <2>2. \/ Delivers(f.op, f.len, <<id>>) /\ UNCHANGED <<frag, partial, oversized>>
        \/ /\ frag' = f.op /\ partial' = [len |-> f.len, ids |-> <<id>>]
           /\ UNCHANGED <<last, oversized>>
    BY <1>3, <1>4
  <2> QED
    BY <1>1, <1>2, <1>3, <2>1, <2>2 DEF f, whole, id
<1>5. CASE f.op = "Continuation"
  <2>1. frag # "Continuation" /\ opener' = opener
    BY <1>1, <1>3, <1>5
  <2>2. \/ oversized' /\ UNCHANGED <<frag, partial, last>>
        \/ /\ partial' = [len |-> whole, ids |-> Append(partial.ids, id)]
           /\ UNCHANGED <<frag, last, oversized>>
        \/ /\ frag' = "Continuation" /\ partial' = NoPayload /\ whole <= max_payload_len
           /\ Delivers(frag, whole, Append(partial.ids, id)) /\ UNCHANGED oversized
    BY <1>3, <1>5
  <2> QED
    BY <1>1, <1>2, <1>3, <2>1, <2>2 DEF f, whole, id
<1> QED
    BY <1>4, <1>5

\* The frames numbered ids are those of a message with opcode op, s being the
\* opcodes of all data frames.
Spells(s, op, ids) ==
    /\ op \in DataOps /\ ids # <<>>
    /\ \A i \in 1..Len(ids) :
           /\ ids[i] \in 1..Len(s)
           /\ s[ids[i]] = IF i = 1 THEN op ELSE "Continuation"
LegalInv ==
    /\ last # NoMessage => Spells(seen, last.op, last.ids) /\ last.len <= last.limit
    /\ frag # "Continuation" => Spells(seen, frag, partial.ids)

\* A message is the same whatever data frame follows; it begins with any frame
\* that is no continuation, and a continuation frame makes it longer.
LEMMA SpellsFacts ==
    ASSUME NEW s \in Seq(OpCodes), NEW c \in OpCodes, NEW op, NEW ids \in Seq(Nat)
    PROVE  /\ Spells(s, op, ids) => Spells(Append(s, c), op, ids)
           /\ c \in DataOps => Spells(Append(s, c), c, <<Len(s) + 1>>)
           /\ Spells(s, op, ids) /\ c = "Continuation" => Spells(Append(s, c), op, Append(ids, Len(s) + 1))
<1> DEFINE n == Len(s)
           t == Append(s, c)
           m == Len(ids)
           more == Append(ids, n + 1)
           one == <<n + 1>>
<1>1. n \in Nat /\ m \in Nat
    OBVIOUS
<1>2. t \in Seq(OpCodes) /\ Len(t) = n + 1 /\ (\A i \in 1..n : t[i] = s[i]) /\ t[n + 1] = c
    OBVIOUS
<1>3. more \in Seq(Nat) /\ Len(more) = m + 1 /\ (\A i \in 1..m : more[i] = ids[i]) /\ more[m + 1] = n + 1
    OBVIOUS
<1>4. Len(one) = 1 /\ one[1] = n + 1 /\ one # <<>>
    OBVIOUS
<1>5. more # <<>>
    BY <1>1, <1>3
<1> HIDE DEF n, t, m, more, one
<1>6. ASSUME Spells(s, op, ids) PROVE Spells(t, op, ids)
  <2>1. \A i \in 1..m : ids[i] \in 1..n /\ s[ids[i]] = IF i = 1 THEN op ELSE "Continuation"
    BY <1>6 DEF Spells, m, n
  <2>2. \A i \in 1..m : ids[i] \in 1..(n + 1) /\ t[ids[i]] = IF i = 1 THEN op ELSE "Continuation"
    BY <1>1, <1>2, <2>1
  <2> QED
    BY <1>2, <1>6, <2>2 DEF Spells, m
<1>7. ASSUME c \in DataOps PROVE Spells(t, c, one)
    BY <1>1, <1>2, <1>4, <1>7 DEF Spells
<1>8. ASSUME Spells(s, op, ids), c = "Continuation" PROVE Spells(t, op, more)
  <2>1. \A i \in 1..m : ids[i] \in 1..(n + 1) /\ t[ids[i]] = IF i = 1 THEN op ELSE "Continuation"
    BY <1>2, <1>6, <1>8 DEF Spells, m
  <2>2. m + 1 # 1
    BY <1>1, <1>8 DEF Spells, m
  <2>3. \A i \in 1..(m + 1) : more[i] \in 1..(n + 1) /\ t[more[i]] = IF i = 1 THEN op ELSE "Continuation"
    BY <1>1, <1>2, <1>3, <1>8, <2>1, <2>2
  <2> QED
    BY <1>2, <1>3, <1>5, <1>8, <2>3 DEF Spells
<1> QED
    BY <1>6, <1>7, <1>8 DEF t, more, one, n

\* Every step keeps what is collected, and what was delivered, a legal message.
LEMMA LegalStep ==
    ASSUME TypeOK, LegalInv, [Next]_vars
    PROVE  LegalInv'
<1> DEFINE id == Len(seen) + 1
           ids == partial.ids
           old == last.ids
<1>1. CASE UNCHANGED <<frag, partial, seen, opener, last, oversized>>
    BY <1>1 DEF LegalInv
<1>2. CASE ReadData
  <2> DEFINE f == Head(inbound)
  <2>1. /\ seen \in Seq(OpCodes) /\ ids \in Seq(Nat) /\ old \in Seq(Nat)
    BY DEF TypeOK
  <2>2. DataOps \subseteq OpCodes /\ "Continuation" \in OpCodes /\ "Continuation" \notin DataOps
    BY DEF OpCodes, DataOps
  <2>3. /\ last # NoMessage => Spells(seen, last.op, old) /\ last.len <= last.limit
        /\ frag # "Continuation" => Spells(seen, frag, ids)
    BY DEF LegalInv
  <2> HIDE DEF id, ids, old, f
  <2>4. CASE \E c \in DataOps, len \in Nat :
               /\ frag = "Continuation" /\ seen' = Append(seen, c) /\ len <= max_payload_len
               /\ \/ Delivers(c, len, <<id>>) /\ UNCHANGED <<frag, partial>>
                  \/ frag' = c /\ partial' = [len |-> len, ids |-> <<id>>] /\ UNCHANGED last
    <3>1. PICK c \in DataOps, len \in Nat :
               /\ frag = "Continuation" /\ seen' = Append(seen, c) /\ len <= max_payload_len
               /\ \/ Delivers(c, len, <<id>>) /\ UNCHANGED <<frag, partial>>
                  \/ frag' = c /\ partial' = [len |-> len, ids |-> <<id>>] /\ UNCHANGED last
        BY <2>4
    <3>2. Spells(seen', c, <<id>>)
        BY <2>1, <2>2, <3>1, SpellsFacts DEF id
    <3>3. last # NoMessage => Spells(seen', last.op, old)
        BY <2>1, <2>2, <2>3, <3>1, SpellsFacts
    <3>4. CASE Delivers(c, len, <<id>>) /\ UNCHANGED <<frag, partial>>
        BY <3>1, <3>2, <3>4 DEF LegalInv, Delivers
    <3>5. CASE frag' = c /\ partial' = [len |-> len, ids |-> <<id>>] /\ UNCHANGED last
        BY <2>3, <3>2, <3>3, <3>5 DEF LegalInv, old
    <3> QED
        BY <3>1, <3>4, <3>5
  <2>5. CASE /\ frag # "Continuation" /\ seen' = Append(seen, "Continuation")
             /\ \/ UNCHANGED <<frag, partial, last>>
                \/ \E len : partial' = [len |-> len, ids |-> Append(ids, id)] /\ UNCHANGED <<frag, last>>
                \/ \E len : /\ frag' = "Continuation" /\ len <= max_payload_len
                            /\ Delivers(frag, len, Append(ids, id))
    <3>1. Spells(seen', frag, ids) /\ Spells(seen', frag, Append(ids, id))
        BY <2>1, <2>2, <2>3, <2>5, SpellsFacts DEF id
    <3>2. last # NoMessage => Spells(seen', last.op, old)
        BY <2>1, <2>2, <2>3, <2>5, SpellsFacts
    <3>3. CASE UNCHANGED <<frag, partial, last>>
        BY <2>3, <3>1, <3>2, <3>3 DEF LegalInv, old, ids
    <3>4. CASE \E len : partial' = [len |-> len, ids |-> Append(ids, id)] /\ UNCHANGED <<frag, last>>
        BY <2>3, <3>1, <3>2, <3>4 DEF LegalInv, old
    <3>5. CASE \E len : /\ frag' = "Continuation" /\ len <= max_payload_len
                        /\ Delivers(frag, len, Append(ids, id))
        BY <3>1, <3>5 DEF LegalInv, Delivers
    <3> QED
        BY <2>5, <3>3, <3>4, <3>5
  <2> QED
    BY <1>2, <2>4, <2>5, ReadDataEffect DEF id, ids
<1> QED
    BY <1>1, <1>2, AssemblyStep

\* A message that is delivered has the opcode of the frame it begins with, all
\* its other frames are continuation frames, and it is not longer than the limit
\* in force, wherever limits_mut moved it while the message was collected and
\* whichever fragments were dropped as too long (poll_next, Decoder::decode).
THEOREM DeliveredIsAlwaysLegal == Spec => []DeliveredIsLegal
<1>1. Init => LegalInv
    BY DEF Init, LegalInv
<1>2. TypeOK /\ LegalInv /\ [Next]_vars => LegalInv'
    BY LegalStep
<1>3. LegalInv => DeliveredIsLegal
    BY DEF LegalInv, DeliveredIsLegal, Spells
<1> QED
    BY <1>1, <1>2, <1>3, TypeCorrect, PTL DEF Spec

\* Every step keeps the numbering of what is collected.
LEMMA PartialStep ==
    ASSUME TypeOK, PartialInv, [Next]_vars
    PROVE  PartialInv'
<1> DEFINE n == Len(seen)
           id == n + 1
           r == Run(opener, n)
           Numbered(p) == \E a, b \in Nat : a <= b + 1 /\ p = Run(a, b)
<1>1. opener \in Nat /\ n \in Nat /\ id \in Nat /\ opener <= n /\ oversized \in BOOLEAN
    BY DEF TypeOK, PartialInv
<1>2. Append(r, id) = Run(opener, id) /\ <<id>> = Run(id, id)
  <2>1. opener <= n + 1 /\ id <= id + 1
    BY <1>1
  <2> QED
    BY <1>1, <2>1, RunFacts, Zenon
<1>3. CASE UNCHANGED <<frag, partial, seen, opener, last, oversized>>
    BY <1>3 DEF PartialInv
<1>4. CASE ReadData
  <2>1. Len(seen') = id /\ (opener' = id \/ opener' = opener)
    BY <1>1, <1>4, ReadDataEffect DEF TypeOK, OpCodes, DataOps
  <2>2. opener' <= Len(seen')
    BY <1>1, <2>1
  <2>3. /\ ~oversized => Numbered(last.ids)
        /\ ~oversized => partial.ids = IF frag = "Continuation" THEN <<>> ELSE r
    BY DEF PartialInv
  <2> SUFFICES ASSUME ~oversized'
               PROVE  /\ partial'.ids = IF frag' = "Continuation" THEN <<>> ELSE Run(opener', Len(seen'))
                      /\ Numbered(last'.ids)
    BY <2>2 DEF PartialInv
  <2>4. CASE frag = "Continuation" /\ opener' = id
    <3>1. \/ \E op, len : Delivers(op, len, <<id>>) /\ UNCHANGED <<frag, partial, oversized>>
          \/ \E op \in DataOps : \E len : /\ frag' = op /\ partial' = [len |-> len, ids |-> <<id>>]
                                          /\ UNCHANGED <<last, oversized>>
      BY <1>4, <2>4, ReadDataEffect
    <3>2. CASE \E op, len : Delivers(op, len, <<id>>) /\ UNCHANGED <<frag, partial, oversized>>
      <4>1. last'.ids = Run(id, id) /\ id <= id + 1
        BY <1>1, <1>2, <3>2 DEF Delivers
      <4> QED
        BY <1>1, <2>3, <2>4, <3>2, <4>1
    <3>3. CASE \E op \in DataOps : \E len : /\ frag' = op /\ partial' = [len |-> len, ids |-> <<id>>]
                                            /\ UNCHANGED <<last, oversized>>
      BY <1>2, <2>1, <2>3, <2>4, <3>3 DEF DataOps
    <3> QED
      BY <3>1, <3>2, <3>3
  <2>5. CASE frag # "Continuation" /\ opener' = opener
    <3>1. \/ \E len : /\ partial' = [len |-> len, ids |-> Append(partial.ids, id)]
                      /\ UNCHANGED <<frag, last, oversized>>
          \/ \E op, len : /\ frag' = "Continuation" /\ partial' = NoPayload /\ UNCHANGED oversized
                          /\ Delivers(op, len, Append(partial.ids, id))
      BY <1>4, <2>5, ReadDataEffect
    <3>2. Append(partial.ids, id) = Run(opener, id)
      BY <1>2, <2>3, <2>5, <3>1
    <3>3. CASE \E len : /\ partial' = [len |-> len, ids |-> Append(partial.ids, id)]
                        /\ UNCHANGED <<frag, last, oversized>>
      BY <2>1, <2>3, <2>5, <3>2, <3>3
    <3>4. CASE \E op, len : /\ frag' = "Continuation" /\ partial' = NoPayload /\ UNCHANGED oversized
                            /\ Delivers(op, len, Append(partial.ids, id))
      <4>1. last'.ids = Run(opener, id) /\ opener <= id + 1
        BY <1>1, <3>2, <3>4 DEF Delivers
      <4> QED
        BY <1>1, <3>4, <4>1 DEF NoPayload
    <3> QED
      BY <3>1, <3>3, <3>4
  <2> QED
    BY <1>4, <2>4, <2>5, ReadDataEffect
<1> QED
    BY <1>3, <1>4, AssemblyStep

\* Nothing is collected at first.
LEMMA PartialInit == Init => PartialInv
<1>1. Run(1, 0) = <<>>
    BY DEF Run
<1> QED
    BY <1>1 DEF Init, PartialInv, NoPayload, NoMessage

\* The numbering is an invariant.
LEMMA PartialAlways == Spec => []PartialInv
<1>1. TypeOK /\ PartialInv /\ [Next]_vars => PartialInv'
    BY PartialStep
<1> QED
    BY <1>1, PartialInit, TypeCorrect, PTL DEF Spec

\* partial_payload always holds every fragment of the open message, in order,
\* and nothing else, whatever control frames, Pending reads and dropped calls of
\* next() come in between (poll_next), as long as no message was too long.
THEOREM PartialIsAlwaysComplete == Spec => []PartialIsComplete
<1>1. PartialInv => PartialIsComplete
    BY DEF PartialInv, PartialIsComplete, Run
<1> QED
    BY <1>1, PartialAlways, PTL

\* A delivered message is made of consecutive data frames unless a message was
\* too long: PayloadTooLong is the only way to a message with a hole in it
\* (poll_next, which returns the error and goes on with what it has).
THEOREM OnlyTooLongLeavesHoles == Spec => [](~oversized => DeliveredIsWhole)
<1>1. ASSUME PartialInv, ~oversized PROVE DeliveredIsWhole
  <2>1. PICK a \in Nat, b \in Nat : a <= b + 1 /\ last.ids = Run(a, b)
    BY <1>1 DEF PartialInv
  <2>2. \A i \in 1..(Len(Run(a, b)) - 1) : Run(a, b)[i + 1] = Run(a, b)[i] + 1
    BY <2>1, RunFacts, Zenon
  <2> QED
    BY <2>1, <2>2, Zenon DEF DeliveredIsWhole
<1> QED
    BY <1>1, PartialAlways, PTL
=============================================================================
