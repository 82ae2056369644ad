----------------------------- MODULE FrameQueue -----------------------------
(***************************************************************************)
(* FrameQueue and EncodedFrame of src/proto/stream.rs, and the transport   *)
(* that poll_write_buf hands its chunks to.  A byte is its value and, in a *)
(* payload, the place in a message that it comes from.                     *)
(***************************************************************************)
EXTENDS Framing, SequencesExt, FiniteSetsExt

CONSTANT Slots      \* IoSlices that poll_write_buf offers to chunks_vectored

ASSUME QueueAssumption == Slots \in Nat \ {0}

VARIABLES
    queue,          \* EncodedFrames: the array of the header, the bytes of the payload
    bytes_written, pending_bytes,
    pushed,         \* all bytes of the frames pushed, in order
    wire            \* the bytes the transport took

queueVars == <<queue, bytes_written, pending_bytes, pushed, wire>>

NoPlace == <<0, 0>>
Byte(val, of) == [val |-> val, of |-> of]

\* EncodedFrame::len, and the bytes of a frame from offset a up to, not
\* including, offset b.
len(item) == header_len(item.header) + Len(item.payload)
Bytes(item) ==
    [i \in 1..header_len(item.header) |-> Byte(item.header[i], NoPlace)] \o item.payload
Slice(item, a, b) == SubSeq(Bytes(item), a + 1, b)
TotalLen(items) ==
    LET total[n \in 0..Len(items)] == IF n = 0 THEN 0 ELSE total[n - 1] + len(items[n])
    IN  total[Len(items)]

QueueInit ==
    /\ queue = <<>> /\ bytes_written = 0 /\ pending_bytes = 0
    /\ pushed = <<>> /\ wire = <<>>

\* FrameQueue::push, for each of some items
push(items) ==
    /\ queue' = queue \o items
    /\ pending_bytes' = pending_bytes + TotalLen(items)
    /\ pushed' = pushed \o FlattenSeq([i \in DOMAIN items |-> Bytes(items[i])])
    /\ UNCHANGED <<bytes_written, wire>>

\* chunk: the rest of the header of the first frame, or of its payload.
chunk ==
    IF queue = <<>> THEN <<>>
    ELSE LET item == Head(queue)
             head == header_len(item.header)
         IN  IF bytes_written >= head
             THEN Slice(item, bytes_written, len(item))
             ELSE Slice(item, bytes_written, head)

\* Mutant: what is written of the first frame's payload is offered again.
FrameSlices_WholePayload(item, first) ==
    LET head == header_len(item.header)
        header == IF first /\ bytes_written >= head THEN <<>>
                  ELSE <<Slice(item, IF first THEN bytes_written ELSE 0, head)>>
        payload == IF item.payload = <<>> THEN <<>> ELSE <<Slice(item, head, len(item))>>
    IN  header \o payload

\* The slices chunks_vectored makes of a frame: of the first frame, what is not
\* written yet.
FrameSlices(item, first) ==
    LET head == header_len(item.header)
        from == IF first /\ bytes_written > head THEN bytes_written ELSE head
        header == IF first /\ bytes_written >= head THEN <<>>
                  ELSE <<Slice(item, IF first THEN bytes_written ELSE 0, head)>>
        payload == IF item.payload = <<>> THEN <<>> ELSE <<Slice(item, from, len(item))>>
    IN  header \o payload

\* chunks_vectored with n slots: the first n slices.
chunks_vectored(n) ==
    LET slices == FlattenSeq([i \in 1..Len(queue) |-> FrameSlices(queue[i], i = 1)])
    IN  SubSeq(slices, 1, Min({n, Len(slices)}))

\* How many frames are popped when cnt bytes, counted from the start of the
\* first frame, are written, and how much of the next one that leaves.
Total(n) == TotalLen(SubSeq(queue, 1, n))
Popped(cnt) == Max({n \in 0..Len(queue) : Total(n) <= cnt})

\* Mutant: the part of the first frame written earlier is left out.
Advanced_ForgetsWritten(cnt) == cnt

Advanced(cnt) == cnt + bytes_written

\* Mutant: cnt is counted from the start of the frame before pending_bytes is
\* reduced by it.
advance_SwappedOrder(cnt) ==
    LET n == Popped(Advanced(cnt))
    IN  /\ pending_bytes' = pending_bytes - Advanced(cnt)
        /\ queue' = SubSeq(queue, n + 1, Len(queue))
        /\ bytes_written' = Advanced(cnt) - Total(n)

advance(cnt) ==
    LET n == Popped(Advanced(cnt))
    IN  /\ pending_bytes' = pending_bytes - cnt
        /\ queue' = SubSeq(queue, n + 1, Len(queue))
        /\ bytes_written' = Advanced(cnt) - Total(n)

\* poll_write_buf: the transport takes a part of what it is offered, at least
\* one byte, and the queue advances by as much.
Take(offered) ==
    /\ offered # <<>>
    /\ \E cnt \in 1..Len(offered) :
        /\ wire' = wire \o SubSeq(offered, 1, cnt)
        /\ advance(cnt)
    /\ UNCHANGED pushed

Write == pending_bytes > 0 /\ Take(chunk)
WriteVectored == pending_bytes > 0 /\ Take(FlattenSeq(chunks_vectored(Slots)))

-----------------------------------------------------------------------------
\* Whatever parts of the offered chunks the transport takes, with or without
\* vectored writes, the bytes on the wire are the bytes pushed, in order, none
\* lost and none written twice.
WireIsPrefix == wire = SubSeq(pushed, 1, Len(wire))

\* remaining() is exactly what is left to write: poll_flush stops neither early
\* nor late, and poll_ready compares the true amount with flush_threshold.
PendingIsExact == pending_bytes = Len(pushed) - Len(wire)

\* While something is pending both kinds of chunk offer at least one byte, and
\* it is the next one: an empty offer would make the transport take 0 bytes,
\* which poll_flush reports as WriteZero and closes the stream for.
OfferIsNext ==
    pending_bytes > 0 =>
        \A offered \in {chunk, FlattenSeq(chunks_vectored(Slots))} :
            offered # <<>> /\ offered[1] = pushed[Len(wire) + 1]
=============================================================================
