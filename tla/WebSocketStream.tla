--------------------------- MODULE WebSocketStream ---------------------------
(***************************************************************************)
(* WebSocketStream<T> of src/proto/stream.rs: the struct, the Stream and   *)
(* Sink implementations, the tasks that poll it and the transport it wraps.*)
(*                                                                         *)
(* Every poll_* method takes &mut self, so two polls never overlap; `call' *)
(* names the poll in progress.  poll_next and poll_close loop, and a step  *)
(* of the loop is an action here, so that the peer and the transport can   *)
(* move between two iterations, while no other task can.                   *)
(*                                                                         *)
(* A whole inbound frame stands for what FramedRead hands out; how bytes   *)
(* become a frame is left to the codec.  An outgoing frame takes two       *)
(* units of transport room, its header and its payload, so that a frame    *)
(* can be half written.                                                    *)
(***************************************************************************)
EXTENDS Integers, Sequences

CONSTANTS
    Tasks,           \* tasks that poll the stream; a task stands for its Waker
    NoTask,          \* no Waker
    Readers,         \* tasks that call next()
    Senders,         \* tasks that call feed(), send() and flush()
    Closers,         \* tasks that call close()
    PeerFrames,      \* frames the peer may send
    Messages,        \* messages the application may send, [op, len]
    FrameSize,       \* Config::frame_size
    FlushThreshold,  \* Config::flush_threshold, in units of transport room
    LimitValues,     \* values of Limits::max_payload_len
    IoRoom,          \* units the transport buffers before it is Pending
    BufferedIo,      \* whether the transport's poll_flush waits for the buffer
    Faults,          \* which of the events in FaultKinds may happen
    MaxIn, MaxOut    \* bounds: frames from the peer, frames before a send

FaultKinds == {"eof", "midframe", "reset", "cancel", "limits"}

ControlOps == {"Close", "Ping", "Pong"}
DataOps == {"Text", "Binary"}
OpCodes == ControlOps \cup DataOps \cup {"Continuation"}

\* An inbound frame.  `bad' is where the codec finds it invalid for a reason
\* not represented here: "head" (RSV, opcode, mask bit, length encoding),
\* "body" (UTF-8, close code) or "no".
InFrames == [op : OpCodes, fin : BOOLEAN, len : Nat, bad : {"no", "head", "body"}]
OutFrames == [op : OpCodes, fin : BOOLEAN]

ASSUME StreamAssumption ==
    /\ NoTask \notin Tasks
    /\ Readers \cup Senders \cup Closers \subseteq Tasks
    /\ PeerFrames \subseteq InFrames
    /\ Messages \subseteq [op : ControlOps \cup DataOps, len : Nat]
    /\ FrameSize \in Nat \ {0}      \* Config::frame_size asserts it
    /\ FlushThreshold \in Nat
    /\ LimitValues \subseteq Nat
    /\ IoRoom \in Nat \ {0}
    /\ BufferedIo \in BOOLEAN
    /\ Faults \subseteq FaultKinds
    /\ MaxIn \in Nat /\ MaxOut \in Nat

VARIABLES
    state,            \* StreamState
    frag,             \* fragmented_message_opcode of the decoder
    max_payload_len,  \* the decoder's limit
    partial,          \* partial_payload: its length and the data frames in it
    frames,           \* every frame ever queued, in order
    popped,           \* how many of them have left frame_queue
    bytes_written,    \* units written of the first frame in frame_queue
    flushing_waker,
    call,             \* the poll in progress: its method, its task, its place
    job,              \* the future each task awaits
    runnable,         \* tasks that are to be polled
    inbound, eof, has_errored,   \* what FramedRead will read, and its errors
    room, broken, shutdown,      \* the transport's write side
    read_waker, write_waker,     \* the one Waker the transport keeps per side
    arrived,          \* frames the peer has sent
    seen, opener,     \* opcodes of the data frames decoded; the frame that opened the message
    last,             \* the message delivered last
    ended,            \* how the stream became CloseAcknowledged
    oversized         \* whether PayloadTooLong was returned for a message

structVars == <<state, frag, max_payload_len, partial>>
queueVars == <<frames, popped, bytes_written, flushing_waker>>
taskVars == <<call, job, runnable>>
readVars == <<inbound, eof, has_errored, read_waker, arrived>>
writeVars == <<room, broken, shutdown, write_waker>>
ghostVars == <<seen, opener, last, ended, oversized>>
vars == <<structVars, queueVars, taskVars, readVars, writeVars, ghostVars>>

StreamStates == {"Active", "ClosedByPeer", "ClosedByUs", "CloseAcknowledged"}
Places == {"frame", "read", "flush", "shutdown"}
NoCall == [op |-> "none", task |-> NoTask, at |-> "frame"]
Calls == {NoCall} \cup [op : {"next", "close"}, task : Tasks, at : Places]
Jobs == {"none", "next", "ready", "start", "flush", "close"}
NoPayload == [len |-> 0, ids |-> <<>>]
NoMessage == [op |-> "none", len |-> 0, ids |-> <<>>, limit |-> 0]

\* from_raw_stream, over a fresh transport
Init ==
    /\ state = "Active"
    /\ frag = "Continuation"
    /\ max_payload_len \in LimitValues
    /\ partial = NoPayload
    /\ frames = <<>> /\ popped = 0 /\ bytes_written = 0
    /\ flushing_waker = NoTask
    /\ call = NoCall
    /\ job = [t \in Tasks |-> "none"]
    /\ runnable = {}
    /\ inbound = <<>> /\ eof = "no" /\ has_errored = FALSE
    /\ room = IoRoom /\ broken = FALSE /\ shutdown = FALSE
    /\ read_waker = NoTask /\ write_waker = NoTask
    /\ arrived = 0 /\ seen = <<>> /\ opener = 0
    /\ last = NoMessage
    /\ ended = "no" /\ oversized = FALSE

-----------------------------------------------------------------------------
(* The transport and the peer.                                             *)

\* Waking a task that awaits nothing does nothing.
Woken(ws) == runnable \cup {t \in ws : t \in Tasks /\ job[t] # "none"}

PeerSend(f) ==
    /\ eof = "no" /\ ~broken /\ arrived < MaxIn
    /\ arrived' = arrived + 1
    /\ inbound' = Append(inbound, f)
    /\ runnable' = Woken({read_waker})
    /\ read_waker' = NoTask
    /\ UNCHANGED <<structVars, queueVars, call, job, eof, has_errored, writeVars, ghostVars>>

\* The peer closes its side, at the end of a frame or inside one.
PeerEof(how) ==
    /\ how \in Faults
    /\ eof = "no" /\ ~broken
    /\ eof' = IF how = "eof" THEN "clean" ELSE "midframe"
    /\ runnable' = Woken({read_waker})
    /\ read_waker' = NoTask
    /\ UNCHANGED <<structVars, queueVars, call, job, inbound, has_errored, arrived, writeVars,
                   ghostVars>>

\* The peer, or the kernel, takes a unit out of the buffer of a transport that
\* has not failed.
Drain ==
    /\ room < IoRoom /\ ~broken
    /\ room' = room + 1
    /\ runnable' = Woken({write_waker})
    /\ write_waker' = NoTask
    /\ UNCHANGED <<structVars, queueVars, call, job, readVars, broken, shutdown, ghostVars>>

\* The connection fails: from now on reads and writes return an error.
Reset ==
    /\ "reset" \in Faults /\ ~broken
    /\ broken' = TRUE
    /\ runnable' = Woken({read_waker, write_waker})
    /\ read_waker' = NoTask /\ write_waker' = NoTask
    /\ UNCHANGED <<structVars, queueVars, call, job, inbound, eof, has_errored, arrived, room,
                   shutdown, ghostVars>>

-----------------------------------------------------------------------------
(* FrameQueue and queue_frame.                                             *)

UnitsPerFrame == 2

\* Mutant: the part of the first frame that is already written is forgotten.
Remaining_ForgetsWritten == UnitsPerFrame * (Len(frames) - popped)

\* FrameQueue::remaining
Remaining == UnitsPerFrame * (Len(frames) - popped) - bytes_written
HasRemaining == popped < Len(frames)

\* Mutant: queueing a close frame leaves the state alone.
StateAfterQueue_Unmoved(s, op) == s

\* queue_frame: the frames fs are queued; a frame with opcode op is queued
\* while the stream is in state s.
QueueFrames(fs) == frames' = frames \o fs
StateAfterQueue(s, op) == IF op = "Close" /\ s # "ClosedByPeer" THEN "ClosedByUs" ELSE s

Control(op) == <<[op |-> op, fin |-> TRUE]>>

\* Mutant: every frame of a fragmented message carries its opcode.
MessageFrames_NoContinuation(m) ==
    LET n == IF m.len <= FrameSize THEN 1 ELSE (m.len + FrameSize - 1) \div FrameSize
    IN  [i \in 1..n |-> [op |-> m.op, fin |-> i = n]]

\* Message::into_frames; a control message or a short one is a single frame.
MessageFrames(m) ==
    LET n == IF m.op \in ControlOps \/ m.len <= FrameSize
             THEN 1
             ELSE (m.len + FrameSize - 1) \div FrameSize
    IN  [i \in 1..n |-> [op |-> IF i = 1 THEN m.op ELSE "Continuation", fin |-> i = n]]

\* poll_flush(cx): write until the transport is Pending or the queue is empty,
\* then flush the transport.  r is what it returns.  A transport that fails may
\* do so at the first write of this poll, at a later one, after k units were
\* taken, or at its flush; one that takes zero bytes (WriteZero) has failed too.
IoFlushed(free) == ~BufferedIo \/ free = IoRoom

PollFlush(cx, r) ==
    LET most == IF room < Remaining THEN room ELSE Remaining
    IN  /\ \E k \in 0..most :
            LET advanced == bytes_written + k
            IN  /\ popped' = popped + advanced \div UnitsPerFrame
                /\ bytes_written' = advanced % UnitsPerFrame
                /\ room' = room - k
                /\ \/ /\ ~broken /\ k = most
                      /\ r = IF k = Remaining /\ IoFlushed(room - k) THEN "ready" ELSE "pending"
                   \/ broken /\ (r = "error" \/ (r = "ready" /\ ~HasRemaining))
        /\ flushing_waker' = IF r = "pending" THEN cx ELSE NoTask
        /\ write_waker' = IF r = "pending" THEN cx ELSE write_waker
        /\ UNCHANGED <<broken, shutdown>>

FlushResults == {"ready", "pending", "error"}

\* Mutants: a failed write leaves the state alone, as before 0.11.3; it is
\* taken for a close by the peer.
StateAfterFlush_Unmoved(r) == state
StateAfterFlush_ClosedByPeer(r) == IF r = "error" THEN "ClosedByPeer" ELSE state

StateAfterFlush(r) == IF r = "error" THEN "CloseAcknowledged" ELSE state
EndedAfterFlush(r) == IF r = "error" /\ ended = "no" THEN "error" ELSE ended

-----------------------------------------------------------------------------
(* The tasks.  A future is created, polled while its task is runnable and  *)
(* may be dropped between two polls.                                       *)

Begin(t, what) ==
    /\ job[t] = "none"
    /\ \/ what = "next" /\ t \in Readers
       \/ what = "ready" /\ t \in Senders /\ Len(frames) < MaxOut
       \/ what = "flush" /\ t \in Senders
       \/ what = "close" /\ t \in Closers
    /\ job' = [job EXCEPT ![t] = what]
    /\ runnable' = runnable \cup {t}
    /\ UNCHANGED <<structVars, queueVars, call, readVars, writeVars, ghostVars>>

Cancel(t) ==
    /\ "cancel" \in Faults
    /\ job[t] # "none" /\ call.task # t
    /\ job' = [job EXCEPT ![t] = "none"]
    /\ runnable' = runnable \ {t}
    /\ UNCHANGED <<structVars, queueVars, call, readVars, writeVars, ghostVars>>

\* limits_mut, between two polls
SetLimits(n) ==
    /\ "limits" \in Faults /\ call = NoCall
    /\ max_payload_len' = n
    /\ UNCHANGED <<state, frag, partial, queueVars, taskVars, readVars, writeVars, ghostVars>>

\* The executor polls t, which awaits `what'.
Polls(t, what) == call = NoCall /\ t \in runnable /\ job[t] = what

\* The poll of t returned Pending, or Ready and t goes on with `next'.
Park(t) == runnable' = runnable \ {t} /\ UNCHANGED job
Finish(t, next) ==
    /\ job' = [job EXCEPT ![t] = next]
    /\ runnable' = IF next = "none" THEN runnable \ {t} ELSE runnable

TaskFlush(t) ==
    /\ Polls(t, "flush")
    /\ \E r \in FlushResults :
        /\ PollFlush(t, r)
        /\ state' = StateAfterFlush(r) /\ ended' = EndedAfterFlush(r)
        /\ IF r = "pending" THEN Park(t) ELSE Finish(t, "none")
    /\ UNCHANGED <<frag, max_payload_len, partial, frames, call, readVars, seen, opener, last,
                   oversized>>

\* poll_ready
TaskReady(t) ==
    /\ Polls(t, "ready")
    /\ \/ /\ Remaining < FlushThreshold
          /\ Finish(t, "start")
          /\ UNCHANGED <<state, ended, popped, bytes_written, flushing_waker, writeVars>>
       \/ /\ Remaining >= FlushThreshold
          /\ \E r \in FlushResults :
              /\ PollFlush(t, r)
              /\ state' = StateAfterFlush(r) /\ ended' = EndedAfterFlush(r)
              /\ CASE r = "ready" -> Finish(t, "start")
                   [] r = "pending" -> Park(t)
                   [] r = "error" -> Finish(t, "none")
    /\ UNCHANGED <<frag, max_payload_len, partial, frames, call, readVars, seen, opener, last,
                   oversized>>

\* start_send; feed() ends here, send() goes on to flush.
TaskStartSend(t, m) ==
    /\ Polls(t, "start")
    /\ \/ /\ state # "Active"
          /\ Finish(t, "none")
          /\ UNCHANGED <<state, frames>>
       \/ /\ state = "Active"
          /\ QueueFrames(MessageFrames(m))
          /\ state' = StateAfterQueue(state, m.op)
          /\ \E next \in {"none", "flush"} : Finish(t, next)
    /\ UNCHANGED <<frag, max_payload_len, partial, popped, bytes_written, flushing_waker, call,
                   readVars, writeVars, ghostVars>>

TaskNext(t) ==
    /\ Polls(t, "next")
    /\ call' = [op |-> "next", task |-> t, at |-> "frame"]
    /\ Park(t)
    /\ UNCHANGED <<structVars, queueVars, readVars, writeVars, ghostVars>>

\* poll_close, up to its loop over poll_next
TaskClose(t) ==
    /\ Polls(t, "close")
    /\ IF state = "Active"
       THEN QueueFrames(Control("Close")) /\ state' = StateAfterQueue(state, "Close")
       ELSE UNCHANGED <<frames, state>>
    /\ call' = [op |-> "close", task |-> t, at |-> "frame"]
    /\ Park(t)
    /\ UNCHANGED <<frag, max_payload_len, partial, popped, bytes_written, flushing_waker,
                   readVars, writeVars, ghostVars>>

-----------------------------------------------------------------------------
(* poll_next_frame and poll_next.                                          *)

At(place) == call # NoCall /\ call.at = place

\* How the poll goes on: the loop continues, poll_next returns Pending, an
\* item, or None.  poll_close drops items and loops until None.
Loop(place) == call' = [call EXCEPT !.at = place] /\ UNCHANGED <<job, runnable>>
ReturnPending == call' = NoCall /\ UNCHANGED <<job, runnable>>
Done == call' = NoCall /\ Finish(call.task, "none")
ReturnItem == IF call.op = "next" THEN Done ELSE Loop("frame")
ReturnNone == IF call.op = "next" THEN Done ELSE Loop("flush")

FrameTerminated ==
    /\ At("frame") /\ state = "CloseAcknowledged"
    /\ ReturnNone
    /\ UNCHANGED <<structVars, queueVars, readVars, writeVars, ghostVars>>

\* Mutant: the stream ends without waiting for the flush.
FrameAcknowledge_NoFlush ==
    /\ At("frame") /\ state = "ClosedByPeer"
    /\ state' = "CloseAcknowledged" /\ ended' = "peer" /\ ReturnNone
    /\ UNCHANGED <<frag, max_payload_len, partial, queueVars, readVars, writeVars, seen, opener,
                   last, oversized>>

\* ClosedByPeer: the close frame has to be flushed before the stream ends.
FrameAcknowledge ==
    /\ At("frame") /\ state = "ClosedByPeer"
    /\ \E r \in FlushResults :
        /\ PollFlush(call.task, r)
        /\ CASE r = "ready" -> state' = "CloseAcknowledged" /\ ended' = "peer" /\ ReturnNone
             [] r = "pending" -> UNCHANGED <<state, ended>> /\ ReturnPending
             [] r = "error" -> state' = "CloseAcknowledged" /\ ended' = "error" /\ ReturnItem
    /\ UNCHANGED <<frag, max_payload_len, partial, frames, readVars, seen, opener, last,
                   oversized>>

\* Mutants: the reader's own waker is used for the flush, as before 0.11.1;
\* poll_next does not flush at all, as before 0.11.4.
FlushingWaker_Readers == call.task
FrameFlush_NoFlush ==
    /\ At("frame") /\ state \in {"Active", "ClosedByUs"}
    /\ Loop("read")
    /\ UNCHANGED <<structVars, queueVars, readVars, writeVars, ghostVars>>

\* Active or ClosedByUs: try to flush with the waker of the task that is
\* flushing, if there is one, then read.
FlushingWaker == IF flushing_waker = NoTask THEN call.task ELSE flushing_waker

FrameFlush ==
    /\ At("frame") /\ state \in {"Active", "ClosedByUs"}
    /\ IF HasRemaining
       THEN \E r \in FlushResults :
            /\ PollFlush(FlushingWaker, r)
            /\ state' = StateAfterFlush(r) /\ ended' = EndedAfterFlush(r)
            /\ IF r = "error" THEN ReturnItem ELSE Loop("read")
       ELSE Loop("read") /\ UNCHANGED <<state, ended, popped, bytes_written, flushing_waker,
                                        writeVars>>
    /\ UNCHANGED <<frag, max_payload_len, partial, frames, readVars, seen, opener, last,
                   oversized>>

ReadPending ==
    /\ At("read") /\ inbound = <<>> /\ eof = "no" /\ ~broken
    /\ read_waker' = call.task
    /\ ReturnPending
    /\ UNCHANGED <<structVars, queueVars, inbound, eof, has_errored, arrived, writeVars,
                   ghostVars>>

ReadEof ==
    /\ At("read") /\ inbound = <<>> /\ eof = "clean" /\ ~broken
    /\ ReturnNone
    /\ UNCHANGED <<structVars, queueVars, readVars, writeVars, ghostVars>>

\* The transport fails, or ends inside a frame (Decoder::decode_eof).
ReadIoError ==
    /\ At("read") /\ (broken \/ (inbound = <<>> /\ eof = "midframe"))
    /\ has_errored' = TRUE
    /\ state' = "CloseAcknowledged" /\ ended' = "error"
    /\ ReturnItem
    /\ UNCHANGED <<frag, max_payload_len, partial, queueVars, inbound, eof, read_waker, arrived,
                   writeVars, seen, opener, last, oversized>>

\* Mutants: a continuation frame needs no message to continue; a message may
\* start inside another one.
Rejected_LoneContinuation(f) ==
    \/ f.bad # "no"
    \/ f.op \in ControlOps /\ ~f.fin
    \/ f.op \in DataOps /\ frag # "Continuation"
    \/ f.len > max_payload_len
Rejected_Interleaved(f) ==
    \/ f.bad # "no"
    \/ f.op \in ControlOps /\ ~f.fin
    \/ f.op = "Continuation" /\ frag = "Continuation"
    \/ f.len > max_payload_len

\* What the decoder says of a whole frame, in the order of its checks.
Rejected(f) ==
    \/ f.bad = "head"
    \/ f.op \in ControlOps /\ ~f.fin
    \/ f.op = "Continuation" /\ frag = "Continuation"
    \/ f.op \in DataOps /\ frag # "Continuation"
    \/ f.len > max_payload_len
    \/ f.bad = "body"

\* Mutant: an invalid frame is reported and reading goes on.
StateAfterReadError_Unmoved(s) == s

\* The state after an error that is not an I/O error, read in state s.
StateAfterReadError(s) == IF s = "ClosedByUs" THEN "CloseAcknowledged" ELSE "ClosedByPeer"

ReadFrameError ==
    /\ At("read") /\ inbound # <<>> /\ Rejected(Head(inbound))
    /\ inbound' = Tail(inbound)
    /\ has_errored' = TRUE
    /\ state' = StateAfterReadError(state)
    /\ IF state = "ClosedByUs"
       THEN ended' = "error" /\ UNCHANGED frames
       ELSE QueueFrames(Control("Close")) /\ UNCHANGED ended
    /\ ReturnItem
    /\ UNCHANGED <<frag, max_payload_len, partial, popped, bytes_written, flushing_waker, eof,
                   read_waker, arrived, writeVars, seen, opener, last, oversized>>

\* Mutant: a ping is answered behind our close frame too.
AnswersPing_Always == state \in StreamStates

AnswersPing == state = "Active"

ReadControl ==
    /\ At("read") /\ inbound # <<>> /\ ~Rejected(Head(inbound))
    /\ LET f == Head(inbound) IN
        /\ f.op \in ControlOps
        /\ \/ /\ f.op = "Close" /\ state = "Active"
              /\ state' = StateAfterQueue("ClosedByPeer", "Close")
              /\ QueueFrames(Control("Close")) /\ UNCHANGED ended
           \/ /\ f.op = "Close" /\ state = "ClosedByUs"
              /\ state' = "CloseAcknowledged" /\ ended' = "us" /\ UNCHANGED frames
           \/ /\ f.op = "Ping" /\ AnswersPing
              /\ QueueFrames(Control("Pong")) /\ UNCHANGED <<state, ended>>
           \/ /\ f.op = "Pong" \/ (f.op = "Ping" /\ ~AnswersPing)
              /\ UNCHANGED <<state, ended, frames>>
    /\ inbound' = Tail(inbound)
    /\ ReturnItem
    /\ UNCHANGED <<frag, max_payload_len, partial, popped, bytes_written, flushing_waker, eof,
                   has_errored, read_waker, arrived, writeVars, seen, opener, last, oversized>>

\* Mutant: the opcode is read and not reset.
OpcodeTaken_Kept == frag

\* What take_message_opcode leaves behind.
OpcodeTaken == "Continuation"

\* A data frame: poll_next delivers it, or collects it and loops.
ReadData ==
    /\ At("read") /\ inbound # <<>> /\ ~Rejected(Head(inbound))
    /\ LET f == Head(inbound)
           id == Len(seen) + 1
           whole == partial.len + f.len
           deliver(op, len, ids) ==
               /\ last' = [op |-> op, len |-> len, ids |-> ids, limit |-> max_payload_len]
               /\ ReturnItem
       IN
        /\ f.op \notin ControlOps
        /\ seen' = Append(seen, f.op)
        /\ opener' = IF f.op = "Continuation" THEN opener ELSE id
        /\ \/ /\ f.op # "Continuation" /\ f.fin
              /\ deliver(f.op, f.len, <<id>>)
              /\ UNCHANGED <<frag, partial, oversized>>
           \/ /\ f.op # "Continuation" /\ ~f.fin
              /\ frag' = f.op
              /\ partial' = [len |-> f.len, ids |-> <<id>>]
              /\ Loop("frame")
              /\ UNCHANGED <<last, oversized>>
           \/ /\ f.op = "Continuation" /\ whole > max_payload_len
              /\ oversized' = TRUE
              /\ ReturnItem
              /\ UNCHANGED <<frag, partial, last>>
           \/ /\ f.op = "Continuation" /\ whole <= max_payload_len /\ ~f.fin
              /\ partial' = [len |-> whole, ids |-> Append(partial.ids, id)]
              /\ Loop("frame")
              /\ UNCHANGED <<frag, last, oversized>>
           \/ /\ f.op = "Continuation" /\ whole <= max_payload_len /\ f.fin
              /\ frag' = OpcodeTaken         \* take_message_opcode
              /\ partial' = NoPayload        \* mem::take
              /\ deliver(frag, whole, Append(partial.ids, id))
              /\ UNCHANGED oversized
    /\ inbound' = Tail(inbound)
    /\ UNCHANGED <<state, max_payload_len, queueVars, eof, has_errored, read_waker, arrived,
                   writeVars, ended>>

\* Mutant: the result of the flush is not waited for.
CloseFlush_NotAwaited ==
    /\ At("flush")
    /\ \E r \in FlushResults : PollFlush(call.task, r)
    /\ Loop("shutdown")
    /\ UNCHANGED <<structVars, frames, readVars, ghostVars>>

\* poll_close after its loop: flush, then shut the transport down.
CloseFlush ==
    /\ At("flush")
    /\ \E r \in FlushResults :
        /\ PollFlush(call.task, r)
        /\ state' = StateAfterFlush(r) /\ ended' = EndedAfterFlush(r)
        /\ CASE r = "ready" -> Loop("shutdown")
             [] r = "pending" -> ReturnPending
             [] r = "error" -> Done
    /\ UNCHANGED <<frag, max_payload_len, partial, frames, readVars, seen, opener, last,
                   oversized>>

CloseShutdown ==
    /\ At("shutdown")
    /\ \/ broken /\ Done /\ UNCHANGED <<shutdown, write_waker>>
       \/ ~broken /\ IoFlushed(room) /\ shutdown' = TRUE /\ Done /\ UNCHANGED write_waker
       \/ ~broken /\ ~IoFlushed(room) /\ write_waker' = call.task /\ ReturnPending
          /\ UNCHANGED shutdown
    /\ UNCHANGED <<structVars, queueVars, readVars, room, broken, ghostVars>>

-----------------------------------------------------------------------------
InCall ==
    \/ FrameTerminated \/ FrameAcknowledge \/ FrameFlush
    \/ ReadPending \/ ReadEof \/ ReadIoError
    \/ ReadFrameError \/ ReadControl \/ ReadData
    \/ CloseFlush \/ CloseShutdown

TaskPolled(t) ==
    \/ TaskFlush(t) \/ TaskReady(t) \/ TaskNext(t) \/ TaskClose(t)
    \/ \E m \in Messages : TaskStartSend(t, m)

Environment ==
    \/ \E f \in PeerFrames : PeerSend(f)
    \/ \E how \in {"eof", "midframe"} : PeerEof(how)
    \/ Drain \/ Reset
    \/ \E n \in LimitValues : SetLimits(n)
    \/ \E t \in Tasks : Cancel(t) \/ \E what \in Jobs : Begin(t, what)

Next == Environment \/ InCall \/ \E t \in Tasks : TaskPolled(t)

Spec == Init /\ [][Next]_vars

\* The executor finishes every poll it starts and polls every woken task; the
\* transport's buffer is drained as long as the connection stands.
FairSpec ==
    /\ Spec
    /\ WF_vars(InCall)
    /\ \A t \in Tasks : SF_vars(TaskPolled(t))
    /\ WF_vars(Drain)

\* and the peer closes its side in the end
ClosingSpec == FairSpec /\ WF_vars(\E how \in {"eof", "midframe"} : PeerEof(how))

-----------------------------------------------------------------------------
(* Properties.                                                             *)

\* Every variable has its type, frame_queue never holds more than was queued
\* and the first frame of it is never written whole without being popped.
TypeOK ==
    /\ state \in StreamStates
    /\ frag \in DataOps \cup {"Continuation"}
    /\ max_payload_len \in LimitValues
    /\ partial \in [len : Nat, ids : Seq(Nat)]
    /\ frames \in Seq(OutFrames)
    /\ popped \in 0..Len(frames)
    /\ bytes_written \in 0..(UnitsPerFrame - 1)
    /\ popped = Len(frames) => bytes_written = 0
    /\ flushing_waker \in Tasks \cup {NoTask}
    /\ call \in Calls
    /\ job \in [Tasks -> Jobs]
    /\ runnable \subseteq Tasks
    /\ inbound \in Seq(PeerFrames)
    /\ eof \in {"no", "clean", "midframe"}
    /\ has_errored \in BOOLEAN
    /\ room \in 0..IoRoom
    /\ broken \in BOOLEAN /\ shutdown \in BOOLEAN
    /\ read_waker \in Tasks \cup {NoTask} /\ write_waker \in Tasks \cup {NoTask}
    /\ arrived \in Nat /\ seen \in Seq(OpCodes) /\ opener \in Nat
    /\ last \in [op : OpCodes \cup {"none"}, len : Nat, ids : Seq(Nat), limit : Nat]
    /\ ended \in {"no", "peer", "us", "error"}
    /\ oversized \in BOOLEAN

\* queue_frame, start_send and the replies of poll_next_frame: once a close
\* frame is queued no frame is ever queued behind it, whichever of the three
\* places queued it and whatever the peer, the sender and the closer do next.
NothingAfterClose ==
    \A i \in 1..Len(frames) : frames[i].op = "Close" => i = Len(frames)

\* The frames written form legal messages: a continuation frame follows an
\* unfinished data frame and a text or binary frame never does, whatever
\* pongs and closes are queued in between (into_frames, start_send).
OutgoingWellFormed ==
    \A i \in 1..Len(frames) :
        LET before == {j \in 1..(i - 1) : frames[j].op \notin ControlOps}
            open == \E j \in before : ~frames[j].fin /\ \A k \in before : k <= j
        IN  /\ frames[i].op = "Continuation" => open
            /\ frames[i].op \in DataOps => ~open

Rank == [s \in StreamStates |->
           CASE s = "Active" -> 0
             [] s \in {"ClosedByPeer", "ClosedByUs"} -> 1
             [] s = "CloseAcknowledged" -> 2]

\* StreamState only moves forward: no poll, error or late frame reopens the
\* stream or turns one kind of close into the other.
StateMovesForward ==
    [][state' = state \/ Rank[state'] > Rank[state]]_vars

\* When the stream ends because the peer closed it or broke the protocol
\* (ClosedByPeer), our close frame is on the transport, and is the last thing
\* on it, before poll_next returns None.
AcknowledgedIsWritten ==
    ended = "peer" =>
        /\ ~HasRemaining
        /\ frames # <<>> /\ frames[Len(frames)].op = "Close"

\* poll_close shuts the transport down only when everything queued has been
\* written, and nothing can be queued on it afterwards.
ShutdownAfterFlush == shutdown => ~HasRemaining /\ state # "Active"

\* After the decoder has returned an error it is never asked for another
\* frame: the stream is in a state in which poll_next_frame does not read.
DecoderErrorIsFinal ==
    has_errored => state \in {"ClosedByPeer", "CloseAcknowledged"}

\* The inductive strengthening of five of the properties above: what the state
\* says about the queue, and what the place of the poll says about the state.
NoCloseYet == \A i \in 1..Len(frames) : frames[i].op # "Close"
CloseIsQueued == frames # <<>> /\ frames[Len(frames)].op = "Close"

CloseInv ==
    /\ NothingAfterClose
    /\ state = "Active" => NoCloseYet
    /\ state = "ClosedByPeer" => CloseIsQueued
    /\ ended # "no" => state = "CloseAcknowledged"
    /\ AcknowledgedIsWritten
    /\ At("read") => state \in {"Active", "ClosedByUs"}
    /\ call.op = "close" => state # "Active"
    /\ call.at \in {"flush", "shutdown"} => call.op = "close"
    /\ At("shutdown") => ~HasRemaining
    /\ ShutdownAfterFlush
    /\ DecoderErrorIsFinal

\* One end of a connection as its peer sees it.
End == INSTANCE Endpoint WITH
    end <- [state |-> state, queued |-> frames, written |-> popped, ended |-> ended],
    Sendable <- {MessageFrames(m) : m \in Messages} \cup {Control("Close")},
    Answers <- {[op |-> op, fin |-> TRUE] : op \in {"Close", "Pong"}}

\* The polls, tasks, wakers, partial writes and faults together implement the
\* closing protocol of one end: whatever is interleaved, frames are queued only
\* by a send in Active or as the one answer to what was read, a stream closed
\* by its peer ends when all is written, and no other change is visible.
ImplementsEndpoint == End!Spec

\* A delivered message has the opcode of the frame it begins with, all its other
\* frames are continuation frames, and it is not longer than the limit in force
\* when it was delivered, even if limits_mut moved the limit between its
\* fragments or a fragment was dropped as too long: no frame of one message ends
\* up in another, and no Text is delivered as Binary.
DeliveredIsLegal ==
    last # NoMessage =>
        /\ last.op \in DataOps /\ last.ids # <<>>
        /\ \A i \in 1..Len(last.ids) :
               seen[last.ids[i]] = IF i = 1 THEN last.op ELSE "Continuation"
        /\ last.len <= last.limit

\* partial_payload holds every fragment of the open message so far, in order,
\* and nothing of another message, unless PayloadTooLong was returned.
PartialIsComplete ==
    ~oversized =>
        partial.ids = IF frag = "Continuation"
                      THEN <<>>
                      ELSE [i \in 1..(Len(seen) - opener + 1) |-> opener + i - 1]

\* A delivered message is made of consecutive data frames.
DeliveredIsWhole ==
    \A i \in 1..(Len(last.ids) - 1) : last.ids[i + 1] = last.ids[i] + 1

\* A flush() whose poll_flush was Pending ends, although poll_next, polled by
\* another task, leaves a waker with the transport too.
FlushEnds == \A t \in Tasks : job[t] = "flush" ~> job[t] # "flush"

\* Frames that poll_next finds in frame_queue, such as the pong it queued for
\* an earlier ping, are written while its task stays in next(), whichever
\* waker its attempt to flush left with the transport.
QueuedIsWritten ==
    \A t \in Tasks :
        (HasRemaining /\ call.op = "next" /\ call.task = t) ~> (~HasRemaining \/ job[t] # "next")

\* close() ends once the peer has closed its side or the connection failed,
\* whatever frames are still to be written, read or replied to.
CloseEnds == \A t \in Tasks : job[t] = "close" ~> job[t] # "close"
=============================================================================
