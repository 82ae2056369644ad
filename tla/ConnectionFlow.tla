--------------------------- MODULE ConnectionFlow ---------------------------
(***************************************************************************)
(* What flows between the two sides of a connection, the steps of the      *)
(* streams and all steps together; and how a connection ends: which close  *)
(* frames go over the wire, that the exchange of close frames loses        *)
(* nothing, and that between two ends of this crate it is not cut short.   *)
(***************************************************************************)
EXTENDS ConnectionProofs

-----------------------------------------------------------------------------
(* The steps of the streams.                                               *)

\* An open stream that leaves its queue alone.
LEMMA StreamKeeps ==
    ASSUME ProgressInv, NEW r \in Sides, NEW x \in Sides, x = Peer(r), Alone(x), Flow(r),
           added' = added, IsOpen(x), phase'[x] \in {"open", "closing"}, gone'[x] <=> gone[x],
           todo'[x] = todo[x], Sent(x)' = Sent(x), out[x] = <<>> => out'[x] = <<>>,
           ends'[x].queued = ends[x].queued
    PROVE  Flow(r)'
<1>1. ~Unsent(x) /\ ~Unsent(x)' /\ ~IsForeign(x) /\ ~IsForeign(x)' /\ phase[x] \notin Spent
    BY DEF IsOpen, Unsent, IsForeign, Spent
<1>2. phase[x] \in Returned /\ phase'[x] \in Returned
    BY DEF IsOpen, Returned
<1>3. phase[x] \in Replied
    BY DEF IsOpen, Replied
<1>4. ~gone[x]
    BY Parts DEF TypeOf, Leaving, IsOpen
<1>5. \A m : IsMessage(x, m) => IsMessage(x, m)'
    BY <1>1, <1>2, <1>3, SameMessage
<1> QED
    BY <1>1, <1>2, <1>4, <1>5, SenderKeeps

\* An open stream that reads nothing.
LEMMA OpenReads ==
    ASSUME NEW x \in Sides, Alone(x), Flow(x), IsOpen(x), phase'[x] \in {"open", "closing", "shut"},
           inbuf'[x] = inbuf[x], got'[x] = got[x], net'[Peer(x)] = net[Peer(x)]
    PROVE  Flow(x)'
<1>1. phase[x] \in Past /\ ~IsForeign(x) /\ ~IsForeign(x)' /\ phase'[x] \notin Unread
    BY DEF IsOpen, Past, IsForeign, Unread
<1> QED
    BY <1>1, ReaderKeeps

\* start_send keeps FlowInv,
LEMMA StartSendFlow ==
    ASSUME FlowInv, NEW x \in Sides, start_send(x)
    PROVE  FlowInv'
<1> DEFINE y == Peer(x)
<1>1. /\ ProgressInv /\ Domains /\ DOMAIN ends[x] = Fields /\ y \in Sides /\ x = Peer(y)
      /\ Flow(y) /\ Flow(x)
    BY Reader
<1>2. /\ Alone(x) /\ got'[x] = got[x] /\ KeepsNet(x) /\ KeepsWrites(x) /\ added' = added /\ Stays(x)
      /\ phase[x] = "open" /\ \E g : Queues(x, <<g>>)
    BY <1>1, StartSendEffect
<1>3. PICK fs : IsSeq(fs) /\ Queues(x, fs)
    BY <1>2, OneIsSeq
<1>4. Sent(x)' = Join(Sent(x), fs) /\ ends'[x].queued = Join(ends[x].queued, fs)
    BY <1>1, <1>2, <1>3, SentGrows DEF KeepsNet, KeepsWrites, Queues, Join
<1>5. Flow(x)'
    BY <1>1, <1>2, OpenReads DEF KeepsNet, Stays, IsOpen
<1>6. Flow(y)'
    BY <1>1, <1>2, <1>3, <1>4, SenderGrows DEF KeepsWrites, Stays
<1>7. ProgressInv'
    BY <1>1, StartSendProgress
<1> QED
    BY <1>5, <1>6, <1>7, BothFlow

\* poll_close,
LEMMA PollCloseFlow ==
    ASSUME FlowInv, NEW x \in Sides, poll_close(x)
    PROVE  FlowInv'
<1> DEFINE y == Peer(x)
           fs == <<DEFAULT_CLOSE>>
<1>1. /\ ProgressInv /\ Domains /\ DOMAIN ends[x] = Fields /\ y \in Sides /\ x = Peer(y)
      /\ Flow(y) /\ Flow(x)
    BY Reader
<1>2. /\ Alone(x) /\ got'[x] = got[x] /\ KeepsNet(x) /\ KeepsWrites(x) /\ added' = added
      /\ phase[x] = "open" /\ phase'[x] = "closing" /\ (gone'[x] <=> gone[x])
      /\ Queues(x, fs) \/ ends'[x] = ends[x]
    BY <1>1, PollCloseEffect
<1>3. IsSeq(fs)
    BY OneIsSeq
<1> HIDE DEF fs
<1>4. Flow(x)'
    BY <1>1, <1>2, OpenReads DEF KeepsNet, IsOpen
<1>5. CASE Queues(x, fs)
  <2>1. Sent(x)' = Join(Sent(x), fs) /\ ends'[x].queued = Join(ends[x].queued, fs)
    BY <1>1, <1>2, <1>3, <1>5, SentGrows DEF KeepsNet, KeepsWrites, Queues, Join
  <2> QED
    BY <1>1, <1>2, <1>3, <1>4, <2>1, SenderGrows, PollCloseProgress, BothFlow DEF KeepsWrites
<1>6. CASE ends'[x] = ends[x]
  <2>1. Sent(x)' = Sent(x)
    BY <1>2, <1>6, SentSame DEF KeepsNet, KeepsWrites
  <2>2. Flow(y)'
    BY <1>1, <1>2, <1>6, <2>1, StreamKeeps DEF KeepsWrites, IsOpen
  <2> QED
    BY <1>1, <1>4, <2>2, PollCloseProgress, BothFlow
<1> QED
    BY <1>2, <1>5, <1>6

\* and the write of a frame.
LEMMA WriteFrameFlow ==
    ASSUME FlowInv, NEW x \in Sides, WriteFrame(x)
    PROVE  FlowInv'
<1> DEFINE y == Peer(x)
<1>1. /\ ProgressInv /\ Domains /\ DOMAIN ends[x] = Fields /\ y \in Sides /\ x = Peer(y)
      /\ Flow(y) /\ Flow(x) /\ Progress(x)
    BY Reader
<1>2. /\ Alone(x) /\ got'[x] = got[x] /\ inbuf' = inbuf /\ todo' = todo /\ added' = added /\ Stays(x)
      /\ IsOpen(x) /\ ~Flushed(x)
      /\ ends'[x].queued = ends[x].queued /\ ends'[x].written = ends[x].written + 1
      /\ net'[x] = (net[x] \o out[x]) \o <<ends[x].queued[ends[x].written + 1]>>
      /\ out'[x] = <<>> /\ net'[y] = net[y]
    BY <1>1, WriteFrameEffect
<1>3. Flow(x)'
    BY <1>1, <1>2, OpenReads DEF Stays, IsOpen
<1>4. todo[x] = <<>>
    BY <1>1, <1>2 DEF Progress, IsOpen
<1>5. Sent(x)' = Sent(x)
    BY <1>1, <1>2, <1>4, SentFrame
<1>6. Flow(y)'
    BY <1>1, <1>2, <1>5, StreamKeeps DEF Stays, IsOpen
<1>7. ProgressInv'
    BY <1>1, WriteFrameProgress
<1> QED
    BY <1>3, <1>6, <1>7, BothFlow

\* An open stream is dropped.
LEMMA StreamLeaves ==
    ASSUME ProgressInv, NEW r \in Sides, NEW x \in Sides, x = Peer(r), Alone(x), Flow(r),
           NEW p \in {"closed", "shut"}, Leaves(x, p, out[x]), IsOpen(x),
           added' = added, net'[x] = net[x], todo'[x] = todo[x],
           ends'[x].queued = ends[x].queued, ends'[x].written = ends[x].written
    PROVE  Flow(r)'
<1>1. /\ ~Unsent(x) /\ (IsForeign(x)' <=> IsForeign(x)) /\ p \in Returned
      /\ phase[x] \notin Spent /\ phase[x] \in Replied
    BY DEF Unsent, IsForeign, Returned, Spent, Replied, Leaves, IsOpen
<1> QED
    BY <1>1, SenderLeaves

\* The error of a write keeps FlowInv,
LEMMA WriteFailsFlow ==
    ASSUME FlowInv, NEW x \in Sides, WriteFails(x)
    PROVE  FlowInv'
<1> DEFINE y == Peer(x)
<1>1. /\ ProgressInv /\ Domains /\ DOMAIN ends[x] = Fields /\ y \in Sides /\ x = Peer(y)
      /\ Flow(y) /\ Flow(x)
    BY Reader
<1>2. /\ Alone(x) /\ got'[x] = got[x] /\ KeepsNet(x) /\ todo'[x] = todo[x] /\ added' = added
      /\ IsOpen(x) /\ StreamFails(x)
      /\ Leaves(x, "closed", out[x]) \/ (Stays(x) /\ out'[x] = out[x])
    BY <1>1, WriteFailsEffect
<1>3. ends'[x].queued = ends[x].queued /\ ends'[x].written = ends[x].written
    BY <1>2 DEF StreamFails
<1>4. ProgressInv'
    BY <1>1, WriteFailsProgress
<1>5. CASE Leaves(x, "closed", out[x])
  <2>1. Flow(x)'
    BY <1>5, ReaderLeaves DEF Leaves, Unread, Past
  <2>2. Flow(y)'
    BY <1>1, <1>2, <1>3, <1>5, StreamLeaves DEF KeepsNet
  <2> QED
    BY <1>4, <2>1, <2>2, BothFlow
<1>6. CASE Stays(x) /\ out'[x] = out[x]
  <2>1. Flow(x)'
    BY <1>1, <1>2, <1>6, OpenReads DEF KeepsNet, Stays, IsOpen
  <2>2. Sent(x)' = Sent(x)
    BY <1>2, <1>3, <1>6, SentSame DEF KeepsNet
  <2>3. Flow(y)'
    BY <1>1, <1>2, <1>3, <1>6, <2>2, StreamKeeps DEF Stays, IsOpen
  <2> QED
    BY <1>4, <2>1, <2>3, BothFlow
<1> QED
    BY <1>2, <1>5, <1>6

\* the error of a read,
LEMMA ReadFailsFlow ==
    ASSUME FlowInv, NEW x \in Sides, ReadFails(x)
    PROVE  FlowInv'
<1> DEFINE y == Peer(x)
<1>1. /\ ProgressInv /\ Domains /\ DOMAIN ends[x] = Fields /\ y \in Sides /\ x = Peer(y)
      /\ Flow(y) /\ Flow(x)
    BY Reader
<1>2. /\ Alone(x) /\ got'[x] = got[x] /\ KeepsNet(x) /\ KeepsWrites(x) /\ added' = added /\ Stays(x)
      /\ IsOpen(x) /\ StreamFails(x)
    BY <1>1, ReadFailsEffect
<1>3. ends'[x].queued = ends[x].queued /\ ends'[x].written = ends[x].written
    BY <1>2 DEF StreamFails
<1>4. Flow(x)'
    BY <1>1, <1>2, OpenReads DEF KeepsNet, Stays, IsOpen
<1>5. Sent(x)' = Sent(x)
    BY <1>2, <1>3, SentSame DEF KeepsNet, KeepsWrites
<1>6. Flow(y)'
    BY <1>1, <1>2, <1>3, <1>5, StreamKeeps DEF KeepsWrites, Stays, IsOpen
<1>7. ProgressInv'
    BY <1>1, ReadFailsProgress
<1> QED
    BY <1>4, <1>6, <1>7, BothFlow

\* the acknowledgement,
LEMMA AcknowledgeFlow ==
    ASSUME FlowInv, NEW x \in Sides, Acknowledge(x)
    PROVE  FlowInv'
<1> DEFINE y == Peer(x)
<1>1. /\ ProgressInv /\ Domains /\ DOMAIN ends[x] = Fields /\ y \in Sides /\ x = Peer(y)
      /\ Flow(y) /\ Flow(x)
    BY Reader
<1>2. /\ Alone(x) /\ got'[x] = got[x] /\ KeepsNet(x) /\ KeepsWrites(x) /\ added' = added /\ Stays(x)
      /\ IsOpen(x) /\ ends'[x].queued = ends[x].queued /\ ends'[x].written = ends[x].written
    BY <1>1, AcknowledgeEffect
<1>4. Flow(x)'
    BY <1>1, <1>2, OpenReads DEF KeepsNet, Stays, IsOpen
<1>5. Sent(x)' = Sent(x)
    BY <1>2, SentSame DEF KeepsNet, KeepsWrites
<1>6. Flow(y)'
    BY <1>1, <1>2, <1>5, StreamKeeps DEF KeepsWrites, Stays, IsOpen
<1>7. ProgressInv'
    BY <1>1, AcknowledgeProgress
<1> QED
    BY <1>4, <1>6, <1>7, BothFlow

\* the shutdown,
LEMMA PollShutdownFlow ==
    ASSUME FlowInv, NEW x \in Sides, poll_shutdown(x)
    PROVE  FlowInv'
<1> DEFINE y == Peer(x)
<1>1. ProgressInv /\ Domains /\ y \in Sides /\ x = Peer(y) /\ Flow(y) /\ Flow(x)
    BY Reader
<1>2. /\ Alone(x) /\ KeepsStream(x) /\ KeepsNet(x) /\ todo'[x] = todo[x] /\ added' = added
      /\ phase[x] = "closing" /\ Leaves(x, "shut", out[x])
    BY <1>1, PollShutdownEffect
<1>3. Flow(x)'
    BY <1>1, <1>2, OpenReads DEF KeepsStream, KeepsNet, Leaves, IsOpen
<1>4. Flow(y)'
    BY <1>1, <1>2, StreamLeaves DEF KeepsStream, KeepsNet, IsOpen
<1>5. ProgressInv'
    BY <1>1, PollShutdownProgress
<1> QED
    BY <1>3, <1>4, <1>5, BothFlow

\* the drop of the stream,
LEMMA DropStreamFlow ==
    ASSUME FlowInv, NEW x \in Sides, DropStream(x)
    PROVE  FlowInv'
<1> DEFINE y == Peer(x)
<1>1. ProgressInv /\ Domains /\ y \in Sides /\ x = Peer(y) /\ Flow(y)
    BY Reader
<1>2. /\ Alone(x) /\ KeepsStream(x) /\ KeepsNet(x) /\ todo'[x] = todo[x] /\ added' = added
      /\ IsOpen(x) /\ Leaves(x, "closed", out[x])
    BY <1>1, DropStreamEffect
<1>3. Flow(x)'
    BY <1>2, ReaderLeaves DEF Leaves, Unread, Past
<1>4. Flow(y)'
    BY <1>1, <1>2, StreamLeaves DEF KeepsStream, KeepsNet
<1>5. ProgressInv'
    BY <1>1, DropStreamProgress
<1> QED
    BY <1>3, <1>4, <1>5, BothFlow

\* the frame of another implementation,
LEMMA ForeignFrameFlow ==
    ASSUME FlowInv, NEW x \in Sides, NEW f, ForeignFrame(x, f)
    PROVE  FlowInv'
<1> DEFINE y == Peer(x)
           fs == <<f>>
<1>1. /\ ProgressInv /\ Domains /\ DOMAIN ends[x] = Fields /\ y \in Sides /\ x = Peer(y) /\ Flow(y)
      /\ IsEnd(ends[x])
    BY Reader
<1>2. /\ Alone(x) /\ KeepsWrites(x) /\ added' = added /\ Stays(x)
      /\ phase[x] = "foreign open"
      /\ ends'[x].queued = Append(ends[x].queued, f)
      /\ ends'[x].written = ends[x].written + 1
      /\ net'[x] = Append(net[x], f)
    BY <1>1, ForeignFrameEffect
<1>3. ProgressInv'
    BY <1>1, ForeignFrameProgress
<1>4. IsEnd(ends'[x])
    BY <1>3 DEF ProgressInv, TypeOK, TypeOf
<1>5. Sent(x)' = Join(Sent(x), fs)
    BY <1>1, <1>2, <1>4, SentForeign DEF KeepsWrites, IsForeign
<1>6. ends'[x].queued = Join(ends[x].queued, fs) /\ IsSeq(fs)
    BY <1>1, <1>2, AppendFacts, OneIsSeq DEF IsEnd, Join
<1> HIDE DEF fs
<1>7. Flow(y)'
    BY <1>1, <1>2, <1>5, <1>6, SenderGrows DEF KeepsWrites, Stays
<1>8. Flow(x)'
    BY <1>2, ReaderLeaves DEF Stays, Unread, Past
<1> QED
    BY <1>3, <1>7, <1>8, BothFlow

\* and its read.
LEMMA ForeignReadFlow ==
    ASSUME FlowInv, NEW x \in Sides, ForeignRead(x)
    PROVE  FlowInv'
<1> DEFINE y == Peer(x)
<1>1. ProgressInv /\ Domains /\ y \in Sides /\ x = Peer(y) /\ Flow(y)
    BY Reader
<1>2. /\ Alone(x) /\ KeepsStream(x) /\ KeepsWrites(x) /\ added' = added /\ Stays(x)
      /\ phase[x] = "foreign open" /\ net'[x] = net[x]
    BY <1>1, ForeignReadEffect
<1>3. Flow(x)'
    BY <1>2, ReaderLeaves DEF Stays, Unread, Past
<1>4. Sent(x)' = Sent(x)
    BY <1>2, SentSame DEF KeepsStream, KeepsWrites
<1>5. (Unsent(x)' <=> Unsent(x)) /\ (IsForeign(x)' <=> IsForeign(x))
    BY <1>2 DEF Unsent, IsForeign, Stays
<1>6. \A m : IsMessage(x, m) => IsMessage(x, m)'
    BY <1>2, <1>5, SameMessage DEF Stays, KeepsWrites
<1>7. Flow(y)'
    BY <1>1, <1>2, <1>4, <1>5, <1>6, SenderKeeps DEF KeepsStream, KeepsWrites, Stays
<1>8. ProgressInv'
    BY <1>1, ForeignReadProgress
<1> QED
    BY <1>3, <1>7, <1>8, BothFlow

-----------------------------------------------------------------------------
(* poll_next_frame.                                                        *)

\* A frame is taken from the buffer, or from the transport when it is empty,
\* and handed out or left in the buffer.
Takes(g, i, n, g2, i2, n2) ==
    LET f == IF i = <<>> THEN Head(n) ELSE Head(i)
        rest == IF i = <<>> THEN <<>> ELSE Tail(i)
    IN  /\ i = <<>> => n # <<>>
        /\ n2 = IF i = <<>> THEN Tail(n) ELSE n
        /\ \/ g2 = g /\ i2 = <<f>> \o rest
           \/ g2 = Append(g, f) /\ i2 = rest

\* The frame that goes from the front of the input to what was got.
LEMMA TakeFrame ==
    ASSUME NEW g, NEW i, NEW n, NEW s, IsSeq(g), IsSeq(i), IsSeq(n), IsSeq(s),
           NEW g2, NEW i2, NEW n2, Takes(g, i, n, g2, i2, n2)
    PROVE  Join(g2, Join(i2, Join(n2, s))) = Join(g, Join(i, Join(n, s)))
<1> DEFINE f == IF i = <<>> THEN Head(n) ELSE Head(i)
           rest == IF i = <<>> THEN <<>> ELSE Tail(i)
<1>0. /\ i = <<>> => n # <<>>
      /\ n2 = IF i = <<>> THEN Tail(n) ELSE n
      /\ \/ g2 = g /\ i2 = <<f>> \o rest
         \/ g2 = Append(g, f) /\ i2 = rest
    BY DEF Takes
<1>1. IsSeq(Join(n, s))
    BY JoinFacts
<1>2. CASE i # <<>> /\ g2 = g
  <2>1. i2 = i /\ n2 = n
    BY <1>0, <1>2, HeadTail, AppendFacts
  <2> QED
    BY <1>2, <2>1
<1>3. CASE i # <<>> /\ g2 = Append(g, f) /\ i2 = rest
    BY <1>0, <1>1, <1>3, MoveHead
<1>4. CASE i = <<>> /\ g2 = g /\ i2 = <<f>> \o rest
  <2> DEFINE h == <<Head(n)>>
             t == Tail(n)
  <2>1. IsSeq(h) /\ IsSeq(t) /\ n = Join(h, t)
    BY <1>0, <1>4, HeadTail, OneIsSeq DEF Join
  <2>2. i2 = h /\ n2 = t
    BY <1>0, <1>4, <2>1, EmptyConcat
  <2> HIDE DEF h, t
  <2>3. Join(h, Join(t, s)) = Join(n, s)
    BY <2>1, JoinAssociative
  <2>4. Join(<<>>, Join(n, s)) = Join(n, s)
    BY <1>1, JoinEmpty
  <2> QED
    BY <1>4, <2>2, <2>3, <2>4
<1>5. CASE i = <<>> /\ g2 = Append(g, f) /\ i2 = rest
  <2>1. IsSeq(Tail(n)) /\ IsSeq(Join(Tail(n), s))
    BY <1>0, <1>5, HeadTail, JoinFacts
  <2>2. Join(<<>>, Join(Tail(n), s)) = Join(Tail(n), s) /\ Join(<<>>, Join(n, s)) = Join(n, s)
    BY <1>1, <2>1, JoinEmpty
  <2> QED
    BY <1>0, <1>5, <2>2, MoveHead
<1> QED
    BY <1>0, <1>2, <1>3, <1>4, <1>5

\* poll_next_frame keeps FlowInv.
LEMMA PollNextFrameFlow ==
    ASSUME FlowInv, NEW x \in Sides, poll_next_frame(x)
    PROVE  FlowInv'
<1> DEFINE y == Peer(x)
           f == Head(Arrived(x))
           code == ErrorCode(x, f)
           rest == IF inbuf[x] = <<>> THEN <<>> ELSE Tail(inbuf[x])
           closing == Frame("Close", code)
           pong == Frame("Pong", f.v)
<1>1. /\ ProgressInv /\ Domains /\ IsEnd(ends[x]) /\ y \in Sides /\ x = Peer(y)
      /\ Flow(y) /\ Flow(x)
    BY Reader
<1>2. /\ Alone(x) /\ KeepsWrites(x) /\ added' = added /\ Stays(x) /\ IsOpen(x)
      /\ Arrived(x) # <<>> /\ net'[x] = net[x]
      /\ net'[y] = IF inbuf[x] = <<>> THEN Tail(net[y]) ELSE net[y]
      /\ \/ got'[x] = got[x] /\ inbuf'[x] = <<f>> \o rest
         \/ got'[x] = Append(got[x], f) /\ inbuf'[x] = rest
      /\ \/ Closed(x, closing, "error") \/ Closed(x, f, "us") \/ ends'[x] = ends[x]
         \/ Queues(x, <<pong>>)
    BY <1>1, PollNextFrameEffect
<1>3. /\ inbuf[x] = <<>> => net[y] # <<>>
      /\ f = IF inbuf[x] = <<>> THEN Head(net[y]) ELSE Head(inbuf[x])
    BY <1>1, <1>2, HeadArrived
<1>4. ProgressInv'
    BY <1>1, PollNextFrameProgress
<1> HIDE DEF f, code, closing, pong
<1>5. Chain(x)' = Chain(x)
  <2> DEFINE s == Join(out[y], Join(todo[y], Rest(y)))
             g == got[x]
             i == inbuf[x]
             n == net[y]
             g2 == got'[x]
             i2 == inbuf'[x]
             n2 == net'[y]
  <2>1. IsSeq(g) /\ IsSeq(i) /\ IsSeq(n) /\ IsSeq(s)
    BY <1>1, ChainFacts, SentFacts
  <2>2. Chain(x) = Join(g, Join(i, Join(n, s)))
    BY DEF Chain, Sent
  <2>3. Chain(x)' = Join(g2, Join(i2, Join(n2, s)))
    BY <1>2 DEF Chain, Sent, Alone, Rest
  <2>4. /\ i = <<>> => n # <<>>
        /\ f = IF i = <<>> THEN Head(n) ELSE Head(i)
        /\ rest = IF i = <<>> THEN <<>> ELSE Tail(i)
        /\ n2 = IF i = <<>> THEN Tail(n) ELSE n
        /\ \/ g2 = g /\ i2 = <<f>> \o rest
           \/ g2 = Append(g, f) /\ i2 = rest
    BY <1>2, <1>3
  <2>6. Takes(g, i, n, g2, i2, n2)
    BY <2>4 DEF Takes
  <2> HIDE DEF s, g, i, n, g2, i2, n2
  <2>5. Join(g2, Join(i2, Join(n2, s))) = Join(g, Join(i, Join(n, s)))
    BY <2>1, <2>6, TakeFrame
  <2> QED
    BY <2>2, <2>3, <2>5
<1>6. Flow(x)'
  <2>1. phase[x] \in Past /\ phase'[x] \in Past /\ phase'[x] \notin Unread
    BY <1>2 DEF IsOpen, Past, Unread, Stays
  <2>2. /\ phase'[y] = phase[y] /\ out'[y] = out[y] /\ todo'[y] = todo[y] /\ ends'[y] = ends[y]
    BY <1>2 DEF Alone
  <2>3. (Unsent(y)' <=> Unsent(y)) /\ (IsForeign(y)' <=> IsForeign(y))
    BY <2>2 DEF Unsent, IsForeign
  <2>4. x = "client" => y = "server"
    BY DEF Peer
  <2> QED
    BY <1>1, <1>5, <2>1, <2>2, <2>3, <2>4 DEF Flow, Taken, Pending
<1>7. Flow(y)'
  <2>1. ASSUME NEW fs, IsSeq(fs), Queues(x, fs) PROVE Flow(y)'
    <3>1. Sent(x)' = Join(Sent(x), fs) /\ ends'[x].queued = Join(ends[x].queued, fs)
      BY <1>1, <1>2, <2>1, SentGrows DEF KeepsWrites, Queues, Join
    <3>2. phase[x] \in {"open", "closing"} /\ phase'[x] = phase[x]
      BY <1>2 DEF IsOpen, Stays
    <3> QED
      BY <1>1, <1>2, <2>1, <3>1, <3>2, SenderGrows DEF KeepsWrites
  <2>2. ASSUME ends'[x].queued = ends[x].queued, ends'[x].written = ends[x].written
        PROVE  Flow(y)'
    <3>1. Sent(x)' = Sent(x)
      BY <1>2, <2>2, SentSame DEF KeepsWrites
    <3> QED
      BY <1>1, <1>2, <2>2, <3>1, StreamKeeps DEF KeepsWrites, Stays, IsOpen
  <2>3. ASSUME NEW g, NEW w, Closed(x, g, w) PROVE Flow(y)'
    <3>1. \/ Queues(x, <<g>>)
          \/ ends'[x].queued = ends[x].queued /\ ends'[x].written = ends[x].written
      BY <2>3 DEF Closed, Queues
    <3> QED
      BY <2>1, <2>2, <3>1, OneIsSeq
  <2>4. IsSeq(<<pong>>)
    BY OneIsSeq
  <2> QED
    BY <1>2, <2>1, <2>2, <2>3, <2>4
<1> QED
    BY <1>4, <1>6, <1>7, BothFlow

-----------------------------------------------------------------------------
(* Reading the message.                                                    *)

\* The parts of what x reads.
LEMMA ReadParts ==
    ASSUME ProgressInv, NEW x \in Sides, NEW n \in 1..Len(net[Peer(x)]), got[x] = <<>>
    PROVE  LET y == Peer(x)
               units == ReadUnits(x, n)
               later == SubSeq(net[y], n + 1, Len(net[y]))
               tail == Join(out[y], Join(todo[y], Rest(y)))
           IN  /\ IsSeq(units) /\ IsSeq(later) /\ IsSeq(tail) /\ IsSeq(Join(later, tail))
               /\ Len(units) = Len(inbuf[x]) + n /\ Len(later) = Len(net[y]) - n
               /\ Chain(x) = Join(units, Join(later, tail))
               /\ Len(net[y]) \in Nat /\ Len(inbuf[x]) \in Nat /\ net[y] # <<>>
<1> DEFINE y == Peer(x)
           units == ReadUnits(x, n)
           later == SubSeq(net[y], n + 1, Len(net[y]))
           tail == Join(out[y], Join(todo[y], Rest(y)))
           first == SubSeq(net[y], 1, n)
           i == inbuf[x]
           b == net[y]
<1>0. y \in Sides
    BY Peers
<1>1. IsSeq(i) /\ IsSeq(b) /\ IsSeq(tail)
    BY <1>0, ChainFacts, SentFacts
<1>2. Chain(x) = Join(got[x], Join(i, Join(b, tail)))
    BY DEF Chain, Sent
<1>3. units = Join(i, first)
    BY DEF ReadUnits, Join
<1> HIDE DEF i, b, tail, units
<1>4. Len(b) \in Nat /\ Len(i) \in Nat /\ n \in 1..Len(b) /\ n \in 0..Len(b)
    BY <1>1, LengthFacts DEF b
<1>5. /\ n \in Nat /\ n + 1 \in Nat /\ 1 \in Nat /\ n <= Len(b) /\ Len(b) <= Len(b)
      /\ 1 >= 1 /\ n + 1 >= 1
    BY <1>4
<1>6. IsSeq(first) /\ Len(first) = (IF 1 <= n THEN n - 1 + 1 ELSE 0)
    BY <1>1, <1>5, SubSeqFacts DEF b
<1>7. IsSeq(later) /\ Len(later) = (IF n + 1 <= Len(b) THEN Len(b) - (n + 1) + 1 ELSE 0)
    BY <1>1, <1>4, <1>5, SubSeqFacts DEF b
<1>8. Join(Join(i, first), Join(later, tail)) = Join(i, Join(b, tail))
    BY <1>1, <1>4, MovePart DEF b
<1> HIDE DEF first, later
<1>9. Len(first) = n /\ Len(later) = Len(b) - n
    BY <1>4, <1>6, <1>7
<1>10. IsSeq(units) /\ Len(units) = Len(i) + n /\ IsSeq(Join(later, tail)) /\ IsSeq(Join(b, tail))
    BY <1>1, <1>3, <1>6, <1>7, <1>9, JoinFacts
<1>11. Join(got[x], Join(i, Join(b, tail))) = Join(i, Join(b, tail))
    BY <1>1, <1>10, JoinFacts, JoinEmpty
<1>12. b # <<>>
    BY <1>1, <1>4, LengthFacts
<1> QED
    BY <1>1, <1>2, <1>3, <1>4, <1>7, <1>8, <1>9, <1>10, <1>11, <1>12 DEF i, b, units, later, tail

\* A unit that has arrived rules out that the peer has said nothing.
LEMMA ReadNothing ==
    ASSUME ProgressInv, NEW x \in Sides, NEW n \in 1..Len(net[Peer(x)]), got[x] = <<>>
    PROVE  ~Nothing(x) /\ ~Unsent(Peer(x))
<1> DEFINE y == Peer(x)
<1>1. net[y] # <<>> /\ Progress(y) /\ y \in Sides
    BY ReadParts, Parts
<1>2. Len(Chain(x)) = Len(got[x]) + (Len(inbuf[x]) + Len(Sent(y))) /\ IsSeq(inbuf[x]) /\ IsSeq(got[x])
    BY ChainFacts
<1>3. /\ Len(Sent(y)) = Len(net[y]) + (Len(out[y]) + (Len(todo[y]) + Len(Rest(y))))
      /\ IsSeq(net[y]) /\ IsSeq(out[y]) /\ IsSeq(todo[y]) /\ IsSeq(Rest(y))
    BY <1>1, SentFacts
<1>4. /\ Len(inbuf[x]) \in Nat /\ Len(got[x]) \in Nat /\ Len(net[y]) \in Nat /\ Len(out[y]) \in Nat
      /\ Len(todo[y]) \in Nat /\ Len(Rest(y)) \in Nat /\ Len(net[y]) # 0
    BY <1>1, <1>2, <1>3, LengthFacts
<1> DEFINE a == Len(got[x])
           b == Len(inbuf[x])
           c == Len(net[y])
           d == Len(out[y])
           e == Len(todo[y])
           f == Len(Rest(y))
<1>5. Len(Chain(x)) = a + (b + (c + (d + (e + f))))
    BY <1>2, <1>3, Zenon
<1>6. /\ a \in Nat /\ b \in Nat /\ c \in Nat /\ d \in Nat /\ e \in Nat /\ f \in Nat /\ c # 0
    BY <1>4, Zenon
<1> HIDE DEF a, b, c, d, e, f
<1>7. Len(Chain(x)) # 0
    BY <1>5, <1>6
<1>8. Chain(x) # <<>>
    BY <1>7, EmptyIsSeq
<1> QED
    BY <1>1, <1>8 DEF Nothing, Progress

\* Two units at the start of what x reads are the message, and what is behind
\* them are the frames of the peer.
LEMMA ReadTakes ==
    ASSUME ProgressInv, NEW x \in Sides, NEW n \in 1..Len(net[Peer(x)]), Pending(x),
           phase[x] = "reading", ~Incomplete(ReadUnits(x, n))
    PROVE  LET y == Peer(x)
               units == ReadUnits(x, n)
               later == SubSeq(net[y], n + 1, Len(net[y]))
               tail == Join(out[y], Join(todo[y], Rest(y)))
           IN  /\ IsMessage(y, units[1].msg)
               /\ out[y] = <<>> /\ todo[y] = <<>> /\ ~Unsent(y) /\ got[x] = <<>>
               /\ Join(<<>>, Join(Advance(units), Join(later, tail))) = ends[y].queued
<1> DEFINE y == Peer(x)
           units == ReadUnits(x, n)
           later == SubSeq(net[y], n + 1, Len(net[y]))
           tail == Join(out[y], Join(todo[y], Rest(y)))
           more == Join(later, tail)
           q == ends[y].queued
           first == SubSeq(units, 1, 2)
           behind == SubSeq(units, 3, Len(units))
<1>1. y \in Sides /\ IsSeq(q) /\ Progress(y) /\ IsSeq(out[y]) /\ IsSeq(todo[y])
    BY Parts, SentFacts
<1>2. got[x] = <<>> /\ (Nothing(x) \/ Lost(x) \/ Whole(x))
    BY DEF Pending, Unread
<1>3. /\ IsSeq(units) /\ IsSeq(later) /\ IsSeq(tail) /\ IsSeq(more)
      /\ Len(units) = Len(inbuf[x]) + n
      /\ Chain(x) = Join(units, more)
      /\ Len(net[y]) \in Nat /\ Len(inbuf[x]) \in Nat
    BY <1>2, ReadParts
<1>4. ~Nothing(x) /\ ~Unsent(y)
    BY <1>2, ReadNothing
<1> HIDE DEF units, later, tail, more, q
<1>5. ~(Len(units) < 2) /\ Len(units) \in Nat
    BY <1>3, LengthFacts DEF Incomplete, units
<1>6. ~(Len(inbuf[x]) + Len(net[y]) < 2)
  <2> DEFINE a == Len(inbuf[x])
             b == Len(net[y])
  <2>1. a \in Nat /\ b \in Nat /\ n \in 1..b /\ ~(a + n < 2)
    BY <1>3, <1>5, Zenon
  <2> HIDE DEF a, b
  <2>2. ~(a + b < 2)
    BY <2>1
  <2> QED
    BY <2>2 DEF a, b
<1>7. Whole(x)
    BY <1>2, <1>4, <1>6 DEF Lost
<1>8. PICK m : IsMessage(y, m) /\ Chain(x) = Join(Units(m), q)
    BY <1>7 DEF Whole, q
<1>9. Join(first, behind) = units
  <2>1. 2 \in 0..Len(units)
    BY <1>5
  <2>2. SubSeq(units, 1, 2) \o SubSeq(units, 2 + 1, Len(units)) = units
    BY <1>3, <2>1, SplitAt
  <2> QED
    BY <2>2 DEF Join
<1>10. /\ IsSeq(first) /\ Len(first) = 2 /\ first[1] = units[1] /\ IsSeq(behind)
  <2>1. /\ 1 \in Nat /\ 2 \in Nat /\ 3 \in Nat /\ 1 >= 1 /\ 3 >= 1 /\ 2 <= Len(units)
        /\ Len(units) <= Len(units)
    BY <1>5
  <2>2. /\ IsSeq(first) /\ Len(first) = (IF 1 <= 2 THEN 2 - 1 + 1 ELSE 0)
        /\ \A k \in 1..Len(first) : first[k] = units[k + 1 - 1]
    BY <1>3, <2>1, SubSeqFacts
  <2>3. IsSeq(behind)
    BY <1>3, <1>5, <2>1, SubSeqFacts
  <2> HIDE DEF first
  <2>4. Len(first) = 2
    BY <2>2
  <2>5. first[1] = units[1]
    BY <2>2, <2>4
  <2> QED
    BY <2>2, <2>3, <2>4, <2>5
<1> HIDE DEF first, behind
<1> DEFINE u == Units(m)
<1>11. IsSeq(u) /\ Len(u) = 2 /\ u[1].msg = m
    BY UnitsFacts
<1> HIDE DEF u
<1>12. Join(first, Join(behind, more)) = Join(u, q)
  <2>1. Join(Join(first, behind), more) = Join(first, Join(behind, more))
    BY <1>3, <1>10, JoinAssociative
  <2> QED
    BY <1>3, <1>8, <1>9, <2>1 DEF u
<1>13. IsSeq(Join(behind, more))
    BY <1>3, <1>10, JoinFacts
<1>14. first = u /\ Join(behind, more) = q
    BY <1>1, <1>10, <1>11, <1>12, <1>13, JoinSplits DEF q
<1>15. units[1].msg = m
    BY <1>10, <1>11, <1>14
<1>16. Join(<<>>, Join(Advance(units), Join(later, tail))) = q
    BY <1>13, <1>14, JoinEmpty DEF Advance, behind, more
<1>17. out[y] = <<>> /\ todo[y] = <<>>
  <2>1. CASE ends[y].written = 0
    <3>1. Len(inbuf[x]) + Len(net[y]) + Len(out[y]) + Len(todo[y]) = 2
      BY <1>2, <1>7, <2>1, MessageLength
    <3>2. Len(out[y]) \in Nat /\ Len(todo[y]) \in Nat
      BY <1>1, LengthFacts
    <3>3. Len(out[y]) = 0 /\ Len(todo[y]) = 0
      <4> DEFINE a == Len(inbuf[x])
                 b == Len(net[y])
                 c == Len(out[y])
                 d == Len(todo[y])
      <4>1. /\ a \in Nat /\ b \in Nat /\ c \in Nat /\ d \in Nat
            /\ ~(a + b < 2) /\ a + b + c + d = 2
        BY <1>3, <1>6, <3>1, <3>2, Zenon
      <4> HIDE DEF a, b, c, d
      <4>2. c = 0 /\ d = 0
        BY <4>1
      <4> QED
        BY <4>2 DEF c, d
    <3> QED
      BY <1>1, <3>3, LengthFacts
  <2>2. CASE ends[y].written # 0
    <3>1. ends[y].written > 0
      <4>1. IsEnd(ends[y])
        BY <1>1, SentFacts
      <4> QED
        BY <2>2, <4>1, LengthFacts DEF IsEnd
    <3>2. ends[y] # Fresh
      BY <2>2 DEF Fresh
    <3> QED
      BY <1>1, <3>1, <3>2 DEF Progress
  <2> QED
    BY <2>1, <2>2
<1> QED
    BY <1>2, <1>4, <1>8, <1>15, <1>16, <1>17 DEF units, later, tail, q

\* What x reads moves what it has to read from the transport to its buffer.
LEMMA ReadGoesOn ==
    ASSUME ProgressInv, NEW x \in Sides, NEW n \in 1..Len(net[Peer(x)]), Alone(x), KeepsStream(x),
           Flow(x), phase[x] = "reading", phase'[x] = "reading", inbuf'[x] = ReadUnits(x, n),
           net'[Peer(x)] = SubSeq(net[Peer(x)], n + 1, Len(net[Peer(x)]))
    PROVE  Flow(x)'
<1> DEFINE y == Peer(x)
           units == ReadUnits(x, n)
           later == SubSeq(net[y], n + 1, Len(net[y]))
           tail == Join(out[y], Join(todo[y], Rest(y)))
<1>1. got[x] = <<>> /\ (Nothing(x) \/ Lost(x) \/ Whole(x))
    BY DEF Flow, Pending, Unread
<1>2. /\ IsSeq(units) /\ IsSeq(later) /\ IsSeq(tail) /\ IsSeq(Join(later, tail))
      /\ Len(units) = Len(inbuf[x]) + n /\ Len(later) = Len(net[y]) - n
      /\ Chain(x) = Join(units, Join(later, tail))
      /\ Len(net[y]) \in Nat /\ Len(inbuf[x]) \in Nat
    BY <1>1, ReadParts
<1>3. ~Nothing(x)
    BY <1>1, ReadNothing
<1>4. /\ y \in Sides /\ got'[x] = <<>> /\ (gone'[y] <=> gone[y]) /\ out'[y] = out[y]
      /\ todo'[y] = todo[y] /\ ends'[y] = ends[y]
    BY <1>1, Peers DEF Alone, KeepsStream
<1>5. Chain(x)' = Join(<<>>, Join(units, Join(later, tail)))
    BY <1>4 DEF Chain, Sent, Rest
<1> HIDE DEF units, later, tail
<1>6. IsSeq(Join(units, Join(later, tail)))
    BY <1>2, JoinFacts
<1>7. Chain(x)' = Chain(x)
    BY <1>2, <1>5, <1>6, JoinEmpty
<1>8. CASE Lost(x)
  <2> DEFINE a == Len(inbuf[x])
             b == Len(net[y])
             c == Len(inbuf'[x])
             d == Len(net'[y])
  <2>1. a \in Nat /\ b \in Nat /\ n \in 1..b /\ c = a + n /\ d = b - n /\ a + b < 2
    BY <1>2, <1>8, Zenon DEF units, later, Lost
  <2> HIDE DEF a, b, c, d
  <2>2. c + d < 2
    BY <2>1
  <2>3. Lost(x)'
    BY <1>4, <1>8, <2>2 DEF Lost, c, d
  <2> QED
    BY <1>4, <2>3 DEF Flow, Pending, Taken, Past
<1>9. CASE Whole(x)
  <2>1. PICK m : IsMessage(y, m) /\ Chain(x) = Join(Units(m), ends[y].queued)
    BY <1>9 DEF Whole
  <2>2. IsForeign(x)' <=> IsForeign(x)
    BY DEF IsForeign
  <2>3. IsMessage(y, m)'
    BY <2>1, <2>2, OtherMessage
  <2>4. Whole(x)'
    BY <1>4, <1>7, <2>1, <2>3 DEF Whole
  <2> QED
    BY <1>4, <2>4 DEF Flow, Pending, Taken, Past
<1> QED
    BY <1>1, <1>3, <1>8, <1>9

\* x takes the message from its buffer.
LEMMA ReadAccepts ==
    ASSUME ProgressInv, NEW x \in Sides, NEW n \in 1..Len(net[Peer(x)]), Alone(x), KeepsStream(x),
           Flow(x), phase[x] = "reading", phase'[x] = IF x = "client" THEN "open" ELSE "replying",
           Accepts(x, ReadUnits(x, n)),
           net'[Peer(x)] = SubSeq(net[Peer(x)], n + 1, Len(net[Peer(x)]))
    PROVE  Flow(x)'
<1> DEFINE y == Peer(x)
           units == ReadUnits(x, n)
           later == SubSeq(net[y], n + 1, Len(net[y]))
           tail == Join(out[y], Join(todo[y], Rest(y)))
           m == units[1].msg
<1>1. /\ IsMessage(y, m) /\ out[y] = <<>> /\ todo[y] = <<>> /\ ~Unsent(y) /\ got[x] = <<>>
      /\ Join(<<>>, Join(Advance(units), Join(later, tail))) = ends[y].queued
    BY ReadTakes DEF Flow, Accepts
<1>2. /\ y \in Sides /\ got'[x] = <<>> /\ out'[y] = out[y] /\ phase'[y] = phase[y]
      /\ todo'[y] = todo[y] /\ ends'[y] = ends[y]
    BY <1>1, Peers DEF Alone, KeepsStream
<1>3. Chain(x)' = Join(<<>>, Join(Advance(units), Join(later, tail)))
    BY <1>2 DEF Chain, Sent, Rest, Accepts
<1>4. ~Unsent(y)'
    BY <1>1, <1>2 DEF Unsent
<1>5. ASSUME x = "client", ~IsForeign("server")'
      PROVE  phase'["server"] \in Returned
  <2>1. y = "server" /\ ~IsForeign(y)
    BY <1>2, <1>5 DEF Peer, IsForeign
  <2>2. ~Fails(x, m)
    BY DEF Accepts
  <2>3. m # BAD_REQUEST
    BY <1>5, <2>2 DEF Fails, ResponseFails, BAD_REQUEST
  <2>4. todo[y] # <<>> \/ phase[y] \in Returned
    BY <1>1, <2>1, <2>3 DEF IsMessage
  <2> QED
    BY <1>1, <1>2, <2>1, <2>4
<1>6. Taken(x)'
  <2>1. Chain(x)' = ends'[y].queued
    BY <1>1, <1>2, <1>3
  <2> QED
    BY <1>1, <1>2, <1>4, <1>5, <2>1 DEF Taken
<1>7. phase'[x] \notin Unread
    BY DEF Unread
<1> QED
    BY <1>6, <1>7 DEF Flow, Pending

\* The read of a handshake keeps FlowInv.
LEMMA ReadFlow ==
    ASSUME FlowInv, HeadersInv, UNCHANGED connVars, NEW x \in Sides, NEW n, Read(x, n)
    PROVE  FlowInv'
<1> DEFINE y == Peer(x)
           units == ReadUnits(x, n)
<1>0. PICK bad, k : bad = BAD_REQUEST /\ k = digest(LastValue(units[1].msg, "sec-websocket-key"))
    OBVIOUS
<1>1. /\ ProgressInv /\ Domains /\ Progress(x) /\ y \in Sides /\ x = Peer(y) /\ Flow(y) /\ Flow(x)
    BY Reader
<1>2. /\ Alone(x) /\ KeepsStream(x) /\ added' = added
      /\ phase[x] = "reading" /\ n \in 1..Len(net[y])
      /\ net'[x] = net[x] /\ net'[y] = SubSeq(net[y], n + 1, Len(net[y]))
      /\ \/ GoesOn(x, units) \/ Refuses(x, units) \/ GivesUp(x, units) \/ Replies(x, units)
         \/ Opens(x, units)
    BY <1>1, ReadEffect
<1>3. ProgressInv'
    BY <1>1, ReadProgress
<1>4. ends'[x] = ends[x]
    BY <1>2 DEF KeepsStream
<1>5. CASE GoesOn(x, units)
  <2>1. phase'[x] = phase[x] /\ (gone'[x] <=> gone[x]) /\ todo'[x] = todo[x] /\ out'[x] = out[x] /\ inbuf'[x] = units
    BY <1>5 DEF GoesOn, Stays, KeepsWrites
  <2>2. Flow(x)'
    BY <1>1, <1>2, <2>1, ReadGoesOn
  <2>3. Sent(x)' = Sent(x)
    BY <1>2, <1>4, <2>1, SentSame
  <2>4. IsForeign(x)' <=> IsForeign(x)
    BY <2>1 DEF IsForeign
  <2>5. \A m : IsMessage(x, m) => IsMessage(x, m)'
    BY <1>2, <2>1, <2>4, SameMessage
  <2>6. Unsent(x)' <=> Unsent(x)
    BY <2>1 DEF Unsent
  <2>7. Flow(y)'
    BY <1>1, <1>2, <1>4, <2>1, <2>3, <2>4, <2>5, <2>6, SenderKeeps
  <2> QED
    BY <1>3, <2>2, <2>7, BothFlow
<1>6. CASE Refuses(x, units)
  <2>1. /\ x = "server" /\ phase'[x] = "refusing" /\ todo'[x] = Units(bad) /\ out'[x] = out[x]
    BY <1>0, <1>6 DEF Refuses
  <2>2. Flow(x)'
    BY <2>1, ReaderLeaves DEF Unread, Past
  <2>3. Flow(y)'
    BY <1>0, <1>1, <1>2, <1>4, <2>1, AnswerFlow
  <2> QED
    BY <1>3, <2>2, <2>3, BothFlow
<1>7. CASE GivesUp(x, units)
  <2>1. x = "client" /\ Leaves(x, "failed", out[x]) /\ todo'[x] = todo[x]
    BY <1>7 DEF GivesUp
  <2>2. Flow(x)'
    BY <2>1, ReaderLeaves DEF Unread, Past, Leaves
  <2>3. /\ ~Unsent(x) /\ (IsForeign(x)' <=> IsForeign(x)) /\ phase[x] \notin Returned
        /\ phase[x] \notin Spent
    BY <1>2, <2>1 DEF Unsent, IsForeign, Returned, Spent, Leaves
  <2>4. Flow(y)'
    BY <1>1, <1>2, <1>4, <2>1, <2>3, SenderLeaves
  <2> QED
    BY <1>3, <2>2, <2>4, BothFlow
<1>8. CASE Replies(x, units)
  <2>1. /\ x = "server" /\ phase'[x] = "replying" /\ todo'[x] = Units(SwitchingProtocols(k))
        /\ out'[x] = out[x] /\ Accepts(x, units)
    BY <1>0, <1>8 DEF Replies
  <2>2. Flow(x)'
    BY <1>1, <1>2, <2>1, ReadAccepts
  <2>3. PICK r : r = SwitchingProtocols(k)
    OBVIOUS
  <2>4. r = SwitchingProtocols(k)'
    BY <1>2, <2>3 DEF SwitchingProtocols, Added
  <2>5. ~IsForeign(y) => k = digest(<<"key", key>>)
    <3>1. IsMessage(y, units[1].msg)
      BY <1>1, <1>2, <2>1, ReadTakes DEF Flow, Accepts
    <3>2. y = "client"
      BY <2>1 DEF Peer
    <3>3. ~IsForeign(y) => units[1].msg = build_request
      BY <3>1, <3>2 DEF IsMessage
    <3> QED
      BY <1>0, <3>3, RequestHeaders
  <2>6. todo'[x] = Units(r) /\ todo'[x] # <<>>
    BY <2>1, <2>3, UnitsFacts
  <2>7. Flow(y)'
    BY <1>1, <1>2, <1>4, <2>1, <2>4, <2>5, <2>6, AnswerFlow
  <2> QED
    BY <1>3, <2>2, <2>7, BothFlow
<1>9. CASE Opens(x, units)
  <2>1. /\ x = "client" /\ phase'[x] = "open" /\ todo'[x] = todo[x] /\ out'[x] = out[x]
        /\ Accepts(x, units) /\ (gone'[x] <=> gone[x])
    BY <1>9 DEF Opens, KeepsWrites
  <2>2. Flow(x)'
    BY <1>1, <1>2, <2>1, ReadAccepts
  <2>3. Sent(x)' = Sent(x)
    BY <1>2, <1>4, <2>1, SentSame
  <2>4. /\ ~IsForeign(x)' /\ ~IsForeign(x) /\ ~Unsent(x)' /\ ~Unsent(x) /\ phase[x] \notin Spent
        /\ phase[x] \notin Returned
    BY <1>2, <2>1 DEF IsForeign, Unsent, Spent, Returned
  <2>5. \A m : IsMessage(x, m) => IsMessage(x, m)'
    BY <1>2, <2>1, <2>4 DEF IsMessage, build_request, Added, Alone
  <2>7. Flow(y)'
    BY <1>1, <1>2, <1>4, <2>1, <2>3, <2>4, <2>5, SenderKeeps
  <2> QED
    BY <1>3, <2>2, <2>7, BothFlow
<1> QED
    BY <1>2, <1>5, <1>6, <1>7, <1>8, <1>9

-----------------------------------------------------------------------------
(* All steps together.                                                     *)

\* No header has been added at first.
LEMMA HeadersInit == connInit => HeadersInv
BY FS_EmptySet DEF connInit, Init, Each, HeadersInv, HeadersOf

\* Only add_header adds a header.
LEMMA HeadersChange ==
    ASSUME [connNext]_allVars
    PROVE  added' = added \/ \E x \in Sides : \E name : add_header(x, name)
<1>1. CASE Next
  <2>1. CASE \E x \in Sides : Handshakes(x)
    BY <2>1 DEF Handshakes, Write, WriteError, ReadEof, Read
  <2>2. CASE \E x \in Sides : Spill(x) \/ ForeignLeave(x) \/ Cancel(x) \/ \E m \in ForeignMessages : ForeignSend(x, m)
    BY <2>2 DEF Spill, ForeignLeave, Cancel, ForeignSend
  <2>3. CASE connect \/ connect_on \/ accept \/ Flush
    BY <2>3 DEF connect, connect_on, accept, Flush
  <2> QED
    BY <1>1, <2>1, <2>2, <2>3 DEF Next, Sides
<1>2. CASE \E x \in Sides : start_send(x) \/ poll_close(x) \/ ReadFails(x) \/ DropStream(x)
    BY <1>2 DEF start_send, poll_close, ReadFails, DropStream, handVars
<1>3. CASE \E x \in Sides : Polls(x)
    BY <1>3 DEF Polls, WriteFrame, poll_next_frame, Acknowledge, poll_shutdown, WriteFails, handVars
<1>4. CASE \E x \in Sides : ForeignRead(x) \/ \E f \in ForeignFrames : ForeignFrame(x, f)
    BY <1>4 DEF ForeignRead, ForeignFrame, handVars
<1>5. CASE UNCHANGED allVars
    BY <1>5 DEF allVars, vars
<1> QED
    BY <1>1, <1>2, <1>3, <1>4, <1>5 DEF connNext

\* The added headers stay within the bound.
LEMMA HeadersStep ==
    ASSUME ProgressInv, HeadersInv, [connNext]_allVars
    PROVE  HeadersInv'
<1>1. CASE added' = added
    BY <1>1 DEF HeadersInv, HeadersOf
<1>2. ASSUME NEW x \in Sides, NEW name, add_header(x, name)
      PROVE  HeadersInv'
  <2>1. /\ DOMAIN added = Sides /\ name \notin DISALLOWED_HEADERS(x)
        /\ added' = [added EXCEPT ![x] = @ \cup {name}]
    BY <1>2 DEF add_header, ProgressInv, TypeOK, Domains
  <2>2. IsFiniteSet(added[x] \cup {name})
    BY FS_AddElement DEF HeadersInv, HeadersOf
  <2>3. added'[x] = added[x] \cup {name} /\ \A z \in Sides : z # x => added'[z] = added[z]
    BY <2>1
  <2>4. HeadersOf(x)'
    BY <2>1, <2>2, <2>3 DEF HeadersInv, HeadersOf
  <2>5. \A z \in Sides : z # x => HeadersOf(z)'
    BY <2>3 DEF HeadersInv, HeadersOf
  <2> QED
    BY <2>4, <2>5 DEF HeadersInv
<1> QED
    BY <1>1, <1>2, HeadersChange

\* Nothing flows at first.
LEMMA InitFlow == connInit => FlowInv
<1> SUFFICES ASSUME connInit PROVE FlowInv
    OBVIOUS
<1>1. ProgressInv
    BY InitProgress
<1>2. ASSUME NEW x \in Sides
      PROVE  /\ phase[x] \in {"new", "foreign"} /\ ends[x] = Fresh
             /\ todo[x] = <<>> /\ out[x] = <<>> /\ net[x] = <<>> /\ inbuf[x] = <<>> /\ got[x] = <<>>
    BY DEF connInit, Init, Each, Fresh, At!Opened
<1>3. ASSUME NEW x \in Sides
      PROVE  Flow(x)
  <2> DEFINE y == Peer(x)
  <2>1. y \in Sides
    BY Peers
  <2>2. Chain(x) = <<>>
    BY <1>2, <2>1, UnsentChain
  <2>3. Unsent(y) /\ ends[y].queued = <<>>
    BY <1>2, <2>1 DEF Unsent, Fresh
  <2> QED
    BY <1>2, <2>2, <2>3 DEF Flow, Pending, Taken, Nothing, Past
<1> QED
    BY <1>1, <1>3 DEF FlowInv

\* The steps of a handshake together,
LEMMA HandshakesFlow ==
    ASSUME FlowInv, HeadersInv, UNCHANGED connVars, NEW x \in Sides, Handshakes(x)
    PROVE  FlowInv'
BY WriteFlow, WriteErrorFlow, ReadEofFlow, ReadFlow DEF Handshakes

\* all steps of Handshake,
LEMMA NextFlow ==
    ASSUME FlowInv, HeadersInv, Next, UNCHANGED connVars
    PROVE  FlowInv'
<1> DEFINE c == "client"
           s == "server"
<1>0. c \in Sides /\ s \in Sides
    BY DEF Sides
<1>1. CASE \E name \in ClientAdds : add_header(c, name)
    BY <1>0, <1>1, AddHeaderFlow
<1>2. CASE \E name \in ServerAdds : add_header(s, name)
    BY <1>0, <1>2, AddHeaderFlow
<1>3. CASE connect \/ connect_on \/ Flush
    BY <1>0, <1>3, ConnectFlow, ConnectOnFlow, FlushFlow
<1>4. CASE accept
    BY <1>0, <1>4, AcceptFlow
<1>5. CASE \E x \in Sides : Handshakes(x) \/ Spill(x) \/ ForeignLeave(x) \/ Cancel(x)
    BY <1>5, HandshakesFlow, SpillFlow, ForeignLeaveFlow, CancelFlow
<1>6. CASE \E x \in Sides : \E m \in ForeignMessages : ForeignSend(x, m)
    BY <1>6, ForeignSendFlow
<1> QED
    BY <1>1, <1>2, <1>3, <1>4, <1>5, <1>6 DEF Next

\* the step that changes nothing,
LEMMA StutterFlow ==
    ASSUME FlowInv, UNCHANGED allVars
    PROVE  FlowInv'
<1>1. /\ phase' = phase /\ added' = added /\ todo' = todo /\ out' = out /\ net' = net /\ uri' = uri
      /\ key' = key /\ inbuf' = inbuf /\ gone' = gone /\ ends' = ends /\ got' = got
    BY DEF allVars, vars, connVars
<1>2. ProgressInv'
    BY StutterProgress DEF FlowInv
<1>3. ASSUME NEW x \in Sides
      PROVE  Flow(x)'
  <2>1. Alone(x) /\ Flow(x) /\ (IsForeign(x)' <=> IsForeign(x))
    <3>1. Alone(x)
      BY <1>1, <1>2 DEF Alone, ProgressInv, TypeOK
    <3>2. Flow(x)
      BY DEF FlowInv
    <3> QED
      BY <1>1, <3>1, <3>2 DEF IsForeign
  <2> QED
    BY <1>1, <2>1, ReaderKeeps
<1> QED
    BY <1>2, <1>3 DEF FlowInv

\* and every step of the connection.
LEMMA StepFlow ==
    ASSUME FlowInv, HeadersInv, [connNext]_allVars
    PROVE  FlowInv'
<1>1. CASE Next /\ UNCHANGED connVars
    BY <1>1, NextFlow
<1>2. CASE \E x \in Sides : start_send(x) \/ poll_close(x) \/ ReadFails(x) \/ DropStream(x)
    BY <1>2, StartSendFlow, PollCloseFlow, ReadFailsFlow, DropStreamFlow
<1>3. CASE \E x \in Sides : Polls(x)
    BY <1>3, WriteFrameFlow, PollNextFrameFlow, AcknowledgeFlow, PollShutdownFlow, WriteFailsFlow DEF Polls
<1>4. CASE \E x \in Sides : ForeignRead(x) \/ \E f \in ForeignFrames : ForeignFrame(x, f)
    BY <1>4, ForeignReadFlow, ForeignFrameFlow
<1>5. CASE UNCHANGED allVars
    BY <1>5, StutterFlow
<1> QED
    BY <1>1, <1>2, <1>3, <1>4, <1>5 DEF connNext

\* What an open stream has got, holds in its buffer and will find on the
\* transport is, in order, what its peer has queued, and what a handshake
\* has got, holds and will find is the one message and these frames.
THEOREM ConnectionFlows == connSpec => [](FlowInv /\ HeadersInv)
<1>1. connInit => FlowInv /\ HeadersInv
    BY InitFlow, HeadersInit
<1>2. FlowInv /\ HeadersInv /\ [connNext]_allVars => (FlowInv /\ HeadersInv)'
  <2>1. FlowInv => ProgressInv
    BY DEF FlowInv
  <2> QED
    BY <2>1, StepFlow, HeadersStep
<1> QED
    BY <1>1, <1>2, PTL DEF connSpec

\* In a state of the invariant, an open stream will read exactly the frames its
\* peer has written.
LEMMA FlowReaches ==
    ASSUME FlowInv, NEW x \in Sides, IsOpen(x)
    PROVE  got[x] \o Arrived(x) \o out[Peer(x)]
                = SubSeq(ends[Peer(x)].queued, 1, ends[Peer(x)].written)
<1> DEFINE y == Peer(x)
           g == got[x]
           i == inbuf[x]
           n == net[y]
           r == Rest(y)
           q == ends[y].queued
           w == SubSeq(ends[y].queued, 1, ends[y].written)
<1>1. ProgressInv /\ Flow(x) /\ y \in Sides
    BY Reader
<1>2. IsSeq(g) /\ IsSeq(i) /\ IsSeq(n) /\ IsSeq(r) /\ IsEnd(ends[y])
    BY <1>1, ChainFacts, SentFacts
<1>3. Join(w, r) = q /\ IsSeq(w)
    BY <1>2, RestFacts
<1>4. Chain(x) = q /\ out[y] = <<>> /\ todo[y] = <<>>
    BY <1>1 DEF Flow, Taken, IsOpen, Past
<1>5. Chain(x) = Join(g, Join(i, Join(n, Join(<<>>, Join(<<>>, r)))))
    BY <1>4 DEF Chain, Sent
<1>6. got[x] \o Arrived(x) \o out[Peer(x)] = Join(Join(g, Join(i, n)), <<>>)
    BY <1>4 DEF Arrived, Join
<1> HIDE DEF g, i, n, r, q, w
<1>7. IsSeq(Join(i, n)) /\ IsSeq(Join(g, Join(i, n))) /\ IsSeq(Join(n, r)) /\ IsSeq(Join(<<>>, r))
    BY <1>2, JoinFacts, EmptyIsSeq
<1>8. Join(<<>>, Join(<<>>, r)) = r
    BY <1>2, JoinEmpty
<1>9. Join(g, Join(i, Join(n, r))) = Join(Join(g, Join(i, n)), r)
    BY <1>2, JoinBehind
<1>10. Join(Join(g, Join(i, n)), <<>>) = Join(g, Join(i, n))
    BY <1>7, JoinEmpty
<1>11. Join(Join(g, Join(i, n)), r) = Join(w, r)
    BY <1>3, <1>4, <1>5, <1>8, <1>9
<1>12. Join(g, Join(i, n)) = w
    BY <1>2, <1>3, <1>7, <1>11, JoinCancelRight
<1> QED
    BY <1>6, <1>10, <1>12 DEF w

\* The frames that arrive in one read with the end of the HTTP message reach
\* the stream: what an open stream has got and will get is exactly what its
\* peer has queued, none lost, doubled or out of order, for whatever reads,
\* writes and flushes the transport has made of it. It is what the BytesMut
\* of the handshake is handed on to the Framed of the stream for
\* (client.rs, server.rs).
THEOREM LeftoverIsKept == connSpec => []LeftoverReachesStream
<1>1. FlowInv => LeftoverReachesStream
    BY FlowReaches DEF LeftoverReachesStream
<1> QED
    BY <1>1, ConnectionFlows, PTL

\* A client returns a stream only if its server, of this crate too, did: none is
\* open on a connection that accept refused, gave up or was cancelled on before
\* it had written its whole response 101.
THEOREM NoneIsHalfOpen == connSpec => []NoHalfOpen
<1>1. FlowInv => NoHalfOpen
    BY DEF FlowInv, Flow, Taken, NoHalfOpen, Past, Sides
<1> QED
    BY <1>1, ConnectionFlows, PTL

-----------------------------------------------------------------------------
(* A step, as the two streams see it.                                      *)

\* x's stream does nothing, but that it may write, or come to its end.
Idles(x) ==
    /\ ends'[x].state = ends[x].state /\ ends'[x].queued = ends[x].queued
    /\ ends'[x].ended = ends[x].ended /\ got'[x] = got[x]
    /\ inbuf'[x] = inbuf[x] \/ phase[x] = "reading"
    /\ phase'[x] = "shut" =>
        phase[x] = "shut" \/ (phase[x] = "closing" /\ ReadsNothing(x) /\ Flushed(x))

\* Another implementation sends a frame.
OtherSends(x) ==
    /\ IsForeign(x) /\ ends'[x].state = ends[x].state /\ ends'[x].ended = ends[x].ended
    /\ got'[x] = got[x] /\ inbuf'[x] = inbuf[x]

\* The application sends g, or closes with it.
Legal(f) ==
    f.op = "Close" /\ f.v # 0 =>
        \/ f.v \in 1000..1014 /\ f.v \notin {1004, 1005, 1006}
        \/ f.v \in 3000..4999

Adds(x, g) ==
    /\ ends[x].state = "Active" /\ Queues(x, <<g>>) /\ Legal(g)
    /\ ends'[x].state = IF g.op = "Close" THEN "ClosedByUs" ELSE "Active"
    /\ got'[x] = got[x] /\ inbuf'[x] = inbuf[x] /\ IsOpen(x) /\ phase'[x] # "shut"

Breaks(x) ==
    /\ StreamFails(x) /\ IsOpen(x) /\ Reset(Peer(x))
    /\ got'[x] = got[x] /\ inbuf'[x] = inbuf[x] /\ phase'[x] # "shut"

Confirms(x) ==
    /\ ends[x].state = "ClosedByPeer" /\ ends'[x].state = "CloseAcknowledged"
    /\ ends'[x].queued = ends[x].queued /\ ends'[x].ended = "peer"
    /\ got'[x] = got[x] /\ inbuf'[x] = inbuf[x] /\ IsOpen(x) /\ phase'[x] # "shut"

\* x takes the frame f from the transport, and rejects it, ...
Rejects(x, f) ==
    /\ ErrorCode(x, f) # 0 /\ got'[x] = got[x] /\ inbuf'[x] # <<>> /\ Head(inbuf'[x]) = f
    /\ Closed(x, Frame("Close", ErrorCode(x, f)), "error")

\* ... or it is the close frame of the peer, ...
Hears(x, f) ==
    ErrorCode(x, f) = 0 /\ f.op = "Close" /\ got'[x] = Append(got[x], f) /\ Closed(x, f, "us")

\* ... or another one, which may be answered.
Gets(x, f) ==
    /\ ErrorCode(x, f) = 0 /\ f.op # "Close" /\ got'[x] = Append(got[x], f)
    /\ \/ ends'[x] = ends[x]
       \/ /\ ends[x].state = "Active" /\ ends'[x].state = "Active"
          /\ Queues(x, <<Frame("Pong", f.v)>>)

Receives(x, f) ==
    /\ f = Head(Arrived(x)) /\ Arrived(x) # <<>> /\ IsOpen(x) /\ phase'[x] # "shut"
    /\ ends[x].state \in {"Active", "ClosedByUs"}
    /\ Rejects(x, f) \/ Hears(x, f) \/ Gets(x, f)

StreamStep(x) ==
    \/ Idles(x) \/ OtherSends(x) \/ (\E g : Adds(x, g)) \/ Breaks(x) \/ Confirms(x)
    \/ \E f : Receives(x, f)

\* What may happen to its phase meanwhile.
Moves(x) ==
    /\ IsForeign(x)' <=> IsForeign(x)
    /\ phase[x] \in Returned => phase'[x] \in Returned
    /\ gone[x] => phase'[x] = phase[x]

Steps(x) == Alone(x) /\ Moves(x) /\ StreamStep(x)

\* A step of the handshake that does not touch the stream.
LEMMA IdleSteps ==
    ASSUME ProgressInv, NEW x \in Sides, Alone(x), KeepsStream(x),
           inbuf'[x] = inbuf[x] \/ phase[x] = "reading",
           \/ Stays(x)
           \/ /\ phase[x] \notin Leaving \cup Returned \cup ForeignPhases
              /\ phase'[x] \notin ForeignPhases \cup {"shut"}
    PROVE  Steps(x)
<1>1. gone[x] <=> phase[x] \in Leaving
    BY Parts DEF TypeOf
<1>2. Moves(x)
    BY <1>1 DEF Moves, Stays, ForeignPhases, IsForeign
<1>3. Idles(x)
    BY DEF Idles, Stays, KeepsStream
<1> QED
    BY <1>2, <1>3 DEF Steps, StreamStep

\* The steps of both handshakes,
LEMMA HandshakesSteps ==
    ASSUME ProgressInv, UNCHANGED connVars, NEW x \in Sides, Handshakes(x)
    PROVE  Steps(x)
<1>0. Domains
    BY Parts
<1>1. CASE Write(x)
  <2>1. /\ Alone(x) /\ KeepsStream(x) /\ KeepsNet(x)
        /\ phase[x] \in {"writing", "replying", "refusing"}
        /\ phase'[x] \in {"failed", "flushing", "open"} \/ Stays(x)
    BY <1>0, <1>1, WriteEffect DEF Leaves, Stays
  <2> QED
    BY <2>1, IdleSteps DEF KeepsNet, Leaving, Returned, ForeignPhases
<1>2. CASE WriteError(x)
  <2>1. /\ Alone(x) /\ KeepsStream(x) /\ KeepsNet(x)
        /\ phase[x] \in {"writing", "flushing", "replying", "refusing"} /\ phase'[x] = "failed"
    BY <1>0, <1>2, WriteErrorEffect DEF Leaves
  <2> QED
    BY <2>1, IdleSteps DEF KeepsNet, Leaving, Returned, ForeignPhases
<1>3. CASE ReadEof(x)
  <2>1. /\ Alone(x) /\ KeepsStream(x) /\ KeepsNet(x)
        /\ phase[x] = "reading" /\ phase'[x] \in {"refusing", "failed"}
    BY <1>0, <1>3, ReadEofEffect DEF Leaves
  <2> QED
    BY <2>1, IdleSteps DEF KeepsNet, Leaving, Returned, ForeignPhases
<1>4. ASSUME NEW n, Read(x, n) PROVE Steps(x)
  <2>1. /\ Alone(x) /\ KeepsStream(x) /\ phase[x] = "reading"
        /\ phase'[x] \in {"reading", "refusing", "failed", "replying", "open"}
    BY <1>0, <1>4, ReadEffect DEF GoesOn, Refuses, GivesUp, Replies, Opens, Stays, Leaves
  <2> QED
    BY <2>1, IdleSteps DEF Leaving, Returned, ForeignPhases
<1> QED
    BY <1>1, <1>2, <1>3, <1>4 DEF Handshakes

\* and the other steps before a stream.
LEMMA OpeningSteps ==
    ASSUME ProgressInv, UNCHANGED connVars, NEW x \in Sides,
           \/ \E name : add_header(x, name)
           \/ x = "client" /\ (connect \/ connect_on \/ Flush)
           \/ x = "server" /\ accept
           \/ Spill(x) \/ ForeignLeave(x) \/ Cancel(x) \/ \E m : ForeignSend(x, m)
    PROVE  Steps(x)
<1>0. Domains
    BY Parts
<1>1. ASSUME NEW name, add_header(x, name) PROVE Steps(x)
    BY <1>0, <1>1, AddHeaderEffect, IdleSteps DEF KeepsNet
<1>2. CASE x = "client" /\ connect
  <2>1. /\ Alone(x) /\ KeepsStream(x) /\ KeepsNet(x)
        /\ phase[x] = "new" /\ phase'[x] \in {"unreachable", "connected", "undialled"}
    BY <1>0, <1>2, ConnectEffect
  <2> QED
    BY <2>1, IdleSteps DEF KeepsNet, Leaving, Returned, ForeignPhases
<1>3. CASE x = "client" /\ connect_on
  <2>1. /\ Alone(x) /\ KeepsStream(x) /\ KeepsNet(x)
        /\ phase[x] \in {"new", "connected"} /\ phase'[x] \in {"undialled", "writing"}
    BY <1>0, <1>3, ConnectOnEffect
  <2> QED
    BY <2>1, IdleSteps DEF KeepsNet, Leaving, Returned, ForeignPhases
<1>4. CASE x = "client" /\ Flush
  <2>1. /\ Alone(x) /\ KeepsStream(x) /\ inbuf' = inbuf
        /\ phase[x] = "flushing" /\ phase'[x] = "reading"
    BY <1>0, <1>4, FlushEffect
  <2> QED
    BY <2>1, IdleSteps DEF Leaving, Returned, ForeignPhases
<1>5. CASE x = "server" /\ accept
  <2>1. /\ Alone(x) /\ KeepsStream(x) /\ KeepsNet(x)
        /\ phase[x] = "new" /\ phase'[x] = "reading"
    BY <1>0, <1>5, AcceptEffect
  <2> QED
    BY <2>1, IdleSteps DEF KeepsNet, Leaving, Returned, ForeignPhases
<1>6. CASE Spill(x)
  <2>1. Alone(x) /\ KeepsStream(x) /\ inbuf' = inbuf /\ Stays(x)
    BY <1>0, <1>6, SpillEffect
  <2> QED
    BY <2>1, IdleSteps
<1>7. CASE Cancel(x)
  <2>1. /\ Alone(x) /\ KeepsStream(x) /\ KeepsNet(x) /\ phase'[x] = "cancelled"
        /\ phase[x] \in {"connected", "writing", "flushing", "reading", "replying", "refusing"}
    BY <1>0, <1>7, CancelEffect DEF Leaves
  <2> QED
    BY <2>1, IdleSteps DEF KeepsNet, Leaving, Returned, ForeignPhases
<1>8. ASSUME \/ ForeignLeave(x)
             \/ \E m : ForeignSend(x, m)
      PROVE  Steps(x)
  <2>1. /\ Alone(x) /\ KeepsStream(x) /\ inbuf'[x] = inbuf[x]
        /\ phase[x] \in {"foreign", "foreign open"} /\ phase'[x] \in {"foreign open", "foreign gone"}
    BY <1>0, <1>8, ForeignLeaveEffect, ForeignSendEffect DEF Leaves, KeepsNet
  <2>2. ~gone[x]
    BY <2>1, Parts DEF TypeOf, Leaving
  <2> QED
    BY <2>1, <2>2 DEF Steps, StreamStep, Idles, Moves, KeepsStream, Returned, IsForeign
<1> QED
    BY <1>1, <1>2, <1>3, <1>4, <1>5, <1>6, <1>7, <1>8

\* A step of a stream.
LEMMA OpenMoves ==
    ASSUME ProgressInv, NEW x \in Sides, IsOpen(x), phase'[x] \in Returned
    PROVE  Moves(x)
<1>1. gone[x] <=> phase[x] \in Leaving
    BY Parts DEF TypeOf
<1> QED
    BY <1>1 DEF IsOpen, Moves, IsForeign, Returned, Leaving

\* The steps of a stream that sends,
LEMMA SendingSteps ==
    ASSUME ProgressInv, NEW x \in Sides, start_send(x) \/ poll_close(x)
    PROVE  Steps(x)
<1>0. Domains /\ DOMAIN ends[x] = Fields
    BY Parts
<1>1. CASE start_send(x)
  <2>1. /\ Alone(x) /\ got'[x] = got[x] /\ inbuf'[x] = inbuf[x] /\ phase'[x] = "open"
        /\ phase[x] = "open" /\ ends[x].state = "Active"
    BY <1>0, <1>1, StartSendEffect DEF KeepsNet, Stays
  <2>2. PICK f \in Sends[x] :
            LET g == IF f.op = "Close" THEN f ELSE [f EXCEPT !.v = Len(ends[x].queued) + 1]
            IN  /\ Queues(x, <<g>>)
                /\ ends'[x].state = IF g.op = "Close" THEN "ClosedByUs" ELSE "Active"
    BY <1>0, <1>1, StartSendEffect
  <2> DEFINE g == IF f.op = "Close" THEN f ELSE [f EXCEPT !.v = Len(ends[x].queued) + 1]
  <2>3. /\ f = [op |-> f.op, v |-> f.v]
        /\ f.op = "Close" /\ f.v # 0 => try_from_u16(f.v) /\ ~is_reserved(f.v)
    BY ConnectionAssumption DEF Frame
  <2>4. f.op # "Close" => g.op # "Close"
    BY <2>3
  <2>5. Legal(g)
    BY <2>3, <2>4 DEF Legal, try_from_u16, is_reserved
  <2>6. Adds(x, g)
    BY <2>1, <2>2, <2>5 DEF Adds, IsOpen
  <2> QED
    BY <2>1, <2>6, OpenMoves DEF Steps, StreamStep, IsOpen, Returned
<1>2. CASE poll_close(x)
  <2>1. /\ Alone(x) /\ got'[x] = got[x] /\ inbuf'[x] = inbuf[x]
        /\ phase[x] = "open" /\ phase'[x] = "closing"
        /\ \/ /\ ends[x].state = "Active" /\ Queues(x, <<DEFAULT_CLOSE>>)
              /\ ends'[x].state = "ClosedByUs"
           \/ ends[x].state # "Active" /\ ends'[x] = ends[x]
    BY <1>0, <1>2, PollCloseEffect DEF KeepsNet
  <2>2. Legal(DEFAULT_CLOSE) /\ DEFAULT_CLOSE.op = "Close"
    BY DEF Legal, DEFAULT_CLOSE, Frame
  <2>3. Adds(x, DEFAULT_CLOSE) \/ Idles(x)
    BY <2>1, <2>2 DEF Adds, Idles, IsOpen
  <2> QED
    BY <2>1, <2>3, OpenMoves DEF Steps, StreamStep, IsOpen, Returned
<1> QED
    BY <1>1, <1>2

\* that writes,
LEMMA WritingSteps ==
    ASSUME ProgressInv, NEW x \in Sides, WriteFrame(x) \/ poll_shutdown(x) \/ DropStream(x)
    PROVE  Steps(x)
<1>0. Domains /\ DOMAIN ends[x] = Fields
    BY Parts
<1>1. CASE WriteFrame(x)
  <2>1. /\ Alone(x) /\ IsOpen(x) /\ phase'[x] = phase[x] /\ got'[x] = got[x] /\ inbuf' = inbuf
        /\ ends'[x].state = ends[x].state /\ ends'[x].queued = ends[x].queued
        /\ ends'[x].ended = ends[x].ended
    BY <1>0, <1>1, WriteFrameEffect DEF Stays
  <2> QED
    BY <2>1, OpenMoves DEF Steps, StreamStep, Idles, IsOpen, Returned
<1>2. CASE poll_shutdown(x) \/ DropStream(x)
  <2>1. /\ Alone(x) /\ IsOpen(x) /\ KeepsStream(x) /\ KeepsNet(x)
        /\ \/ phase'[x] = "closed"
           \/ phase'[x] = "shut" /\ phase[x] = "closing" /\ ReadsNothing(x) /\ Flushed(x)
    BY <1>0, <1>2, PollShutdownEffect, DropStreamEffect DEF Leaves, IsOpen
  <2> QED
    BY <2>1, OpenMoves DEF Steps, StreamStep, Idles, IsOpen, Returned, KeepsStream, KeepsNet
<1> QED
    BY <1>1, <1>2

\* that ends,
LEMMA EndingSteps ==
    ASSUME ProgressInv, NEW x \in Sides, WriteFails(x) \/ ReadFails(x) \/ Acknowledge(x)
    PROVE  Steps(x)
<1>0. Domains /\ DOMAIN ends[x] = Fields
    BY Parts
<1>1. CASE WriteFails(x) \/ ReadFails(x)
  <2>1. /\ Alone(x) /\ IsOpen(x) /\ KeepsNet(x) /\ got'[x] = got[x] /\ Reset(Peer(x)) /\ StreamFails(x)
        /\ phase'[x] = phase[x] \/ phase'[x] = "closed"
    BY <1>0, <1>1, WriteFailsEffect, ReadFailsEffect DEF Leaves, Stays
  <2> QED
    BY <2>1, OpenMoves DEF Steps, StreamStep, Breaks, IsOpen, Returned, KeepsNet
<1>2. CASE Acknowledge(x)
  <2>1. /\ Alone(x) /\ IsOpen(x) /\ KeepsNet(x) /\ got'[x] = got[x] /\ phase'[x] = phase[x]
        /\ ends[x].state = "ClosedByPeer"
        /\ ends'[x].state = "CloseAcknowledged" /\ ends'[x].queued = ends[x].queued
        /\ ends'[x].ended = "peer"
    BY <1>0, <1>2, AcknowledgeEffect DEF Stays
  <2> QED
    BY <2>1, OpenMoves DEF Steps, StreamStep, Confirms, IsOpen, Returned, KeepsNet
<1> QED
    BY <1>1, <1>2

\* that receives,
LEMMA ReceivingSteps ==
    ASSUME ProgressInv, NEW x \in Sides, poll_next_frame(x)
    PROVE  Steps(x)
<1> DEFINE f == Head(Arrived(x))
           code == ErrorCode(x, f)
           rest == IF inbuf[x] = <<>> THEN <<>> ELSE Tail(inbuf[x])
<1>0. Domains /\ IsEnd(ends[x]) /\ IsSeq(inbuf[x])
    BY Parts DEF TypeOf
<1>1. /\ Alone(x) /\ phase'[x] = phase[x] /\ IsOpen(x)
      /\ ends[x].state \in {"Active", "ClosedByUs"} /\ Arrived(x) # <<>>
      /\ \/ /\ code # 0 /\ got'[x] = got[x] /\ inbuf'[x] = <<f>> \o rest
            /\ Closed(x, Frame("Close", code), "error")
         \/ /\ code = 0 /\ f.op = "Close"
            /\ got'[x] = Append(got[x], f) /\ inbuf'[x] = rest
            /\ Closed(x, f, "us")
         \/ /\ code = 0 /\ f.op # "Close"
            /\ got'[x] = Append(got[x], f) /\ inbuf'[x] = rest
            /\ \/ ends'[x] = ends[x]
               \/ /\ ends[x].state = "Active" /\ ends'[x].state = "Active"
                  /\ Queues(x, <<Frame("Pong", f.v)>>)
    BY <1>0, PollNextFrameEffect DEF Stays
<1>2. IsSeq(rest)
    BY <1>0, EmptyIsSeq, HeadTail
<1> HIDE DEF rest, f
<1>3. <<f>> \o rest # <<>> /\ Head(<<f>> \o rest) = f
  <2> DEFINE s == <<f>> \o rest
  <2>1. IsSeq(<<f>>) /\ Len(<<f>>) = 1 /\ <<f>>[1] = f
    BY OneIsSeq
  <2>2. IsSeq(s) /\ Len(s) = 1 + Len(rest) /\ s[1] = <<f>>[1]
    BY <1>2, <2>1, ConcatFacts
  <2>3. Len(rest) \in Nat
    BY <1>2, LengthFacts
  <2> HIDE DEF s
  <2>4. s # <<>>
    BY <2>2, <2>3, LengthFacts
  <2>5. Head(s) = s[1]
    BY <2>2, <2>4, HeadTail
  <2> QED
    BY <2>1, <2>2, <2>4, <2>5 DEF s
<1>4. Rejects(x, f) \/ Hears(x, f) \/ Gets(x, f)
    BY <1>1, <1>3 DEF Rejects, Hears, Gets
<1>5. Receives(x, f)
    BY <1>1, <1>4 DEF Receives, IsOpen, f
<1> QED
    BY <1>1, <1>5, OpenMoves DEF Steps, StreamStep, IsOpen, Returned

\* and the steps of another implementation.
LEMMA ForeignSteps ==
    ASSUME ProgressInv, NEW x \in Sides, ForeignRead(x) \/ \E f : ForeignFrame(x, f)
    PROVE  Steps(x)
<1>0. Domains /\ DOMAIN ends[x] = Fields
    BY Parts
<1>1. /\ Alone(x) /\ phase'[x] = phase[x] /\ phase[x] = "foreign open" /\ got'[x] = got[x]
      /\ inbuf'[x] = inbuf[x] /\ ends'[x].state = ends[x].state /\ ends'[x].ended = ends[x].ended
    BY <1>0, ForeignReadEffect, ForeignFrameEffect DEF KeepsStream, Stays
<1> QED
    BY <1>1 DEF Steps, StreamStep, OtherSends, Moves, IsForeign, Returned

\* Every step is a step of one side.
LEMMA AnyStep ==
    ASSUME ProgressInv, [connNext]_allVars
    PROVE  UNCHANGED allVars \/ \E x \in Sides : Steps(x)
<1>1. CASE Next /\ UNCHANGED connVars
  <2>0. "client" \in Sides /\ "server" \in Sides
    BY DEF Sides
  <2>1. \E x \in Sides :
            \/ Handshakes(x)
            \/ \E name : add_header(x, name)
            \/ x = "client" /\ (connect \/ connect_on \/ Flush)
            \/ x = "server" /\ accept
            \/ Spill(x) \/ ForeignLeave(x) \/ Cancel(x) \/ \E m : ForeignSend(x, m)
    BY <1>1, <2>0, Zenon DEF Next
  <2> QED
    BY <1>1, <2>1, HandshakesSteps, OpeningSteps
<1>2. CASE \E x \in Sides : start_send(x) \/ poll_close(x) \/ ReadFails(x) \/ DropStream(x)
    BY <1>2, SendingSteps, EndingSteps, WritingSteps
<1>3. CASE \E x \in Sides : Polls(x)
    BY <1>3, WritingSteps, EndingSteps, ReceivingSteps DEF Polls
<1>4. CASE \E x \in Sides : ForeignRead(x) \/ \E f \in ForeignFrames : ForeignFrame(x, f)
    BY <1>4, ForeignSteps
<1> QED
    BY <1>1, <1>2, <1>3, <1>4 DEF connNext

-----------------------------------------------------------------------------
(* Close codes.                                                            *)

\* Which frames there are after one more.
LEMMA AppendRange ==
    ASSUME NEW s, NEW e, IsSeq(s)
    PROVE  /\ Range(s \o <<e>>) = Range(s) \cup {e} /\ Range(Append(s, e)) = Range(s) \cup {e}
           /\ Len(s \o <<e>>) = Len(s) + 1 /\ DOMAIN s = 1..Len(s) /\ Len(s) \in Nat
           /\ DOMAIN (s \o <<e>>) = 1..(Len(s) + 1)
           /\ \A i \in 1..Len(s) : (s \o <<e>>)[i] = s[i]
           /\ (s \o <<e>>)[Len(s) + 1] = e
           /\ Append(s, e) = s \o <<e>>
<1> DEFINE r == s \o <<e>>
           n == Len(s)
<1>1. IsSeq(<<e>>) /\ Len(<<e>>) = 1 /\ <<e>>[1] = e
    BY OneIsSeq
<1>2. /\ IsSeq(r) /\ Len(r) = n + Len(<<e>>) /\ \A i \in 1..n : r[i] = s[i]
      /\ \A i \in (n + 1)..(n + Len(<<e>>)) : r[i] = <<e>>[i - n]
    BY <1>1, ConcatFacts
<1>3. DOMAIN r = 1..Len(r) /\ n \in Nat /\ DOMAIN s = 1..n
    BY <1>2, LengthFacts
<1> HIDE DEF r
<1>4. r[n + 1] = e
  <2> HIDE DEF n
  <2>1. n + 1 \in (n + 1)..(n + Len(<<e>>)) /\ (n + 1) - n = 1
    BY <1>1, <1>3
  <2> QED
    BY <1>1, <1>2, <2>1
<1>5. Len(r) = n + 1
    BY <1>1, <1>2
<1>6. Range(r) = Range(s) \cup {e}
  <2> HIDE DEF n
  <2>1. DOMAIN r = DOMAIN s \cup {n + 1}
    BY <1>3, <1>5
  <2>2. \A i \in DOMAIN s : r[i] = s[i]
    BY <1>2, <1>3
  <2> QED
    BY <1>4, <2>1, <2>2 DEF Range
<1>7. Append(s, e) = r
    BY AppendFacts DEF r
<1> QED
    BY <1>2, <1>3, <1>4, <1>5, <1>6, <1>7 DEF r

CodesOf(x) ==
    ~IsForeign(x) => \A f \in Range(ends[x].queued) \cup Range(got[x]) : Legal(f)

\* A close frame that is accepted has a legal code, and so have the answers to
\* the ones that are not.
LEMMA AcceptedIsLegal ==
    ASSUME NEW x, NEW f
    PROVE  /\ ErrorCode(x, f) = 0 => Legal(f)
           /\ ErrorCode(x, f) # 0 => Legal(Frame("Close", ErrorCode(x, f)))
           /\ Legal(Frame("Pong", f.v))
           /\ Frame("Close", ErrorCode(x, f)).op = "Close" /\ Frame("Pong", f.v).op = "Pong"
<1>1. ErrorCode(x, f) \in {0, 1002, 1007, 1009}
    BY DEF ErrorCode
<1>2. ErrorCode(x, f) = 0 => Legal(f)
    BY DEF ErrorCode, Legal, try_from_u16, is_reserved
<1>3. \A c \in {1002, 1007, 1009} : Legal(Frame("Close", c))
    BY DEF Legal, Frame
<1>4. Legal(Frame("Pong", f.v))
    BY DEF Legal, Frame
<1> QED
    BY <1>1, <1>2, <1>3, <1>4 DEF Frame

\* A step of x keeps the codes of its frames legal,
LEMMA CodesStep ==
    ASSUME ProgressInv, NEW x \in Sides, Steps(x), CodesOf(x)
    PROVE  CodesOf(x)'
<1> DEFINE q == ends[x].queued
           g == got[x]
<1>0. IsSeq(q) /\ IsSeq(g) /\ (IsForeign(x)' <=> IsForeign(x))
    BY Parts DEF TypeOf, IsEnd, Steps, Moves
<1>1. CASE ends'[x].queued = q /\ got'[x] = g
    BY <1>0, <1>1 DEF CodesOf
<1>2. ASSUME NEW h, Legal(h), ends'[x].queued = q \o <<h>> \/ ends'[x].queued = q,
             NEW f, Legal(f), got'[x] = Append(g, f) \/ got'[x] = g
      PROVE  CodesOf(x)'
  <2>1. /\ Range(ends'[x].queued) \subseteq Range(q) \cup {h}
        /\ Range(got'[x]) \subseteq Range(g) \cup {f}
    <3>1. Range(q \o <<h>>) = Range(q) \cup {h}
      BY <1>0, AppendRange
    <3>2. Range(Append(g, f)) = Range(g) \cup {f}
      BY <1>0, AppendRange
    <3> QED
      BY <1>2, <3>1, <3>2, Zenon
  <2> QED
    BY <1>0, <1>2, <2>1 DEF CodesOf
<1>3. CASE Idles(x) \/ Breaks(x) \/ Confirms(x)
    BY <1>1, <1>3 DEF Idles, Breaks, Confirms, StreamFails
<1>4. CASE OtherSends(x)
    BY <1>0, <1>4 DEF OtherSends, CodesOf
<1>5. ASSUME NEW h, Adds(x, h) PROVE CodesOf(x)'
    BY <1>2, <1>5 DEF Adds, Queues
<1>6. ASSUME NEW f, Receives(x, f) PROVE CodesOf(x)'
  <2>1. CASE Rejects(x, f)
    <3>1. Legal(Frame("Close", ErrorCode(x, f)))
      BY <2>1, AcceptedIsLegal DEF Rejects
    <3> QED
      BY <1>2, <2>1, <3>1 DEF Rejects, Closed
  <2>2. CASE Hears(x, f)
    BY <1>2, <2>2, AcceptedIsLegal DEF Hears, Closed
  <2>3. CASE Gets(x, f)
    <3>1. Legal(f) /\ Legal(Frame("Pong", f.v))
      BY <2>3, AcceptedIsLegal DEF Gets
    <3> QED
      BY <1>2, <2>3, <3>1 DEF Gets, Queues
  <2> QED
    BY <1>6, <2>1, <2>2, <2>3 DEF Receives
<1> QED
    BY <1>3, <1>4, <1>5, <1>6 DEF Steps, StreamStep

\* and those of both.
LEMMA CodesAll ==
    ASSUME ProgressInv, [connNext]_allVars, \A x \in Sides : CodesOf(x)
    PROVE  (\A x \in Sides : CodesOf(x))'
<1>1. CASE UNCHANGED allVars
    BY <1>1 DEF allVars, vars, connVars, CodesOf, IsForeign
<1>2. ASSUME NEW x \in Sides, Steps(x) PROVE (\A z \in Sides : CodesOf(z))'
  <2>1. CodesOf(x)'
    BY <1>2, CodesStep
  <2>2. CodesOf(Peer(x))'
    BY <1>2, Peers DEF Steps, Alone, CodesOf, IsForeign
  <2> QED
    BY <2>1, <2>2, Peers
<1> QED
    BY <1>1, <1>2, AnyStep

\* Every close frame that an end of this crate sends or hands out has no code
\* or one that may go over the wire.
THEOREM CloseCodes == connSpec => []CloseCodesAreLegal
<1> DEFINE I == \A x \in Sides : CodesOf(x)
<1>1. connInit => I
  <2>1. Range(<<>>) = {}
    BY DEF Range
  <2> QED
    BY <2>1 DEF connInit, Init, Each, At!Opened, CodesOf
<1>2. ProgressInv /\ I /\ [connNext]_allVars => I'
    BY CodesAll
<1>3. I => CloseCodesAreLegal
    BY DEF CodesOf, CloseCodesAreLegal, Legal
<1> QED
    BY <1>1, <1>2, <1>3, ConnectionProgress, PTL DEF connSpec

-----------------------------------------------------------------------------
(* The exchange of close frames.  A side that is still Active has not      *)
(* queued a close frame, and nothing is queued behind one; a side that has *)
(* got one does not read any more, and then it has got everything.         *)

NotYet(x) == ends[x].state = "Active" /\ ~IsForeign(x) => ~Closes(ends[x].queued)
Sealed(x) ==
    ends[x].state \in {"ClosedByUs", "ClosedByPeer"} \/ ends[x].ended \in {"us", "peer"} =>
        Closes(ends[x].queued)
CloseIsLast(x) ==
    ~IsForeign(x) =>
        \A i \in DOMAIN ends[x].queued : ends[x].queued[i].op = "Close" => i = Len(ends[x].queued)
Heard(x) == Closes(got[x]) => ends[x].state \notin {"Active", "ClosedByUs"}
GotAll(x) ==
    /\ ends[x].state = "ClosedByPeer" \/ ends[x].ended \in {"us", "peer"}
    /\ ~IsForeign(Peer(x)) /\ ~Refused(x)
    => got[x] = ends[Peer(x)].queued /\ Closes(got[x])

CloseOf(x) == NotYet(x) /\ Sealed(x) /\ CloseIsLast(x) /\ Heard(x) /\ GotAll(x)
CloseInv == \A x \in Sides : CloseOf(x)

\* A close frame in a queue that grows.
LEMMA AppendCloses ==
    ASSUME NEW s, NEW e, IsSeq(s)
    PROVE  /\ Closes(s \o <<e>>) <=> Closes(s) \/ e.op = "Close"
           /\ Closes(Append(s, e)) <=> Closes(s) \/ e.op = "Close"
           /\ ~Closes(s) =>
                \A i \in DOMAIN (s \o <<e>>) : (s \o <<e>>)[i].op = "Close" => i = Len(s \o <<e>>)
<1> DEFINE r == s \o <<e>>
           n == Len(s)
<1>1. /\ Len(r) = n + 1 /\ DOMAIN s = 1..n /\ n \in Nat /\ DOMAIN r = 1..(n + 1)
      /\ \A i \in 1..n : r[i] = s[i]
      /\ r[n + 1] = e /\ Append(s, e) = r
    BY AppendRange
<1> HIDE DEF r, n
<1>2. \A i \in DOMAIN r : i \in DOMAIN s \/ i = n + 1
    BY <1>1
<1>3. \A i \in DOMAIN s : i \in DOMAIN r /\ r[i] = s[i]
    BY <1>1
<1>4. n + 1 \in DOMAIN r
    BY <1>1
<1>5. Closes(r) <=> Closes(s) \/ e.op = "Close"
    BY <1>1, <1>2, <1>3, <1>4 DEF Closes
<1>6. ~Closes(s) => \A i \in DOMAIN r : r[i].op = "Close" => i = Len(r)
    BY <1>1, <1>2, <1>3 DEF Closes
<1> QED
    BY <1>1, <1>5, <1>6 DEF r

\* The close frame of the peer is the last frame there is to get.
LEMMA HeardAll ==
    ASSUME FlowInv, NEW x \in Sides, IsOpen(x), Arrived(x) # <<>>, NEW f, f = Head(Arrived(x)),
           f.op = "Close", CloseIsLast(Peer(x)), ~IsForeign(Peer(x))
    PROVE  Append(got[x], f) = ends[Peer(x)].queued
<1> DEFINE y == Peer(x)
           g == got[x]
           a == Join(inbuf[x], net[y])
           t == Join(out[y], Join(todo[y], Rest(y)))
           r == Join(Tail(a), t)
           q == ends[y].queued
           s == Append(g, f)
<1>1. ProgressInv /\ Flow(x) /\ y \in Sides
    BY Reader
<1>2. IsSeq(g) /\ IsSeq(inbuf[x]) /\ IsSeq(net[y]) /\ IsSeq(t) /\ IsSeq(q)
    BY <1>1, ChainFacts, SentFacts
<1>3. a = Arrived(x) /\ IsSeq(a) /\ a # <<>>
    BY <1>2, JoinFacts DEF Join, Arrived
<1>4. Chain(x) = q
    BY <1>1 DEF Flow, Taken, IsOpen, Past
<1>5. Chain(x) = Join(g, Join(inbuf[x], Join(net[y], t)))
    BY DEF Chain, Sent
<1>6. Join(inbuf[x], Join(net[y], t)) = Join(a, t)
    BY <1>2, JoinAssociative
<1> HIDE DEF a, t, q
<1>7. IsSeq(Tail(a)) /\ a = Join(<<f>>, Tail(a))
    BY <1>3, HeadTail DEF Join
<1>8. IsSeq(<<f>>) /\ IsSeq(r)
    BY <1>2, <1>7, OneIsSeq, JoinFacts
<1>9. Join(a, t) = Join(<<f>>, r)
    BY <1>2, <1>7, <1>8, JoinAssociative
<1> HIDE DEF r
<1>10. s = Join(g, <<f>>) /\ IsSeq(s) /\ Len(s) = Len(g) + 1
    BY <1>2, AppendFacts DEF Join
<1>11. q = Join(s, r)
  <2>1. Join(Join(g, <<f>>), r) = Join(g, Join(<<f>>, r))
    BY <1>2, <1>8, JoinAssociative
  <2> QED
    BY <1>4, <1>5, <1>6, <1>9, <1>10, <2>1
<1>12. s[Len(g) + 1] = f /\ Len(g) \in Nat
    BY <1>2, AppendRange
<1> HIDE DEF s
<1> DEFINE n == Len(g) + 1
<1>13. /\ Len(q) = n + Len(r) /\ Len(r) \in Nat /\ n \in 1..Len(q) /\ q[n] = f
  <2>1. /\ Len(s \o r) = Len(s) + Len(r) /\ \A i \in 1..Len(s) : (s \o r)[i] = s[i]
    BY <1>8, <1>10, ConcatFacts
  <2>2. q = s \o r
    BY <1>11 DEF Join
  <2>3. Len(r) \in Nat
    BY <1>8, LengthFacts
  <2>4. n \in 1..Len(s)
    BY <1>10, <1>12
  <2>5. q[n] = f
    BY <1>12, <2>1, <2>2, <2>4
  <2>6. Len(q) = Len(s) + Len(r)
    BY <2>1, <2>2
  <2> QED
    BY <1>10, <1>12, <2>3, <2>5, <2>6
<1>14. n = Len(q)
  <2>1. DOMAIN q = 1..Len(q)
    BY <1>2, LengthFacts
  <2> QED
    BY <1>13, <2>1 DEF CloseIsLast, q
<1>15. Len(r) = 0
    BY <1>12, <1>13, <1>14
<1>16. r = <<>>
    BY <1>8, <1>15, LengthFacts
<1>17. q = s
    BY <1>10, <1>11, <1>16, JoinEmpty
<1> QED
    BY <1>17 DEF q, s

\* A frame that was refused stays refused.
LEMMA RefusedStays ==
    ASSUME ProgressInv, NEW x \in Sides, Steps(x), Refused(x)
    PROVE  Refused(x)'
<1>1. /\ phase[x] \in Returned /\ ends[x].state \notin {"Active", "ClosedByUs"}
      /\ inbuf[x] # <<>> /\ ErrorCode(x, Head(inbuf[x])) # 0
    BY DEF Refused, At!Reads
<1>2. ~IsForeign(x) /\ phase[x] # "reading" /\ phase'[x] \in Returned
    BY <1>1 DEF Returned, IsForeign, Steps, Moves
<1>3. inbuf'[x] = inbuf[x] /\ ends'[x].state \notin {"Active", "ClosedByUs"}
    BY <1>1, <1>2 DEF Steps, StreamStep, Idles, OtherSends, Adds, Breaks, Confirms, Receives, StreamFails
<1> QED
    BY <1>1, <1>2, <1>3 DEF Refused, At!Reads, ErrorCode

\* A step of x, as its peer sees it.
LEMMA PeerClose ==
    ASSUME ProgressInv, NEW x \in Sides, Steps(x), NEW y \in Sides, x = Peer(y), y = Peer(x),
           CloseOf(y), NotYet(x)
    PROVE  CloseOf(y)' /\ (Refused(y)' <=> Refused(y))
<1>1. /\ phase'[y] = phase[y] /\ inbuf'[y] = inbuf[y] /\ ends'[y] = ends[y] /\ got'[y] = got[y]
    BY DEF Steps, Alone
<1>2. (Refused(y)' <=> Refused(y)) /\ (IsForeign(y)' <=> IsForeign(y)) /\ (IsForeign(x)' <=> IsForeign(x))
  <2>1. Refused(y)' <=> Refused(y)
    <3>1. ErrorCode(y, Head(inbuf[y]))' = ErrorCode(y, Head(inbuf[y]))
      BY <1>1 DEF ErrorCode
    <3>2. At(y)!Reads' <=> At(y)!Reads
      BY <1>1 DEF At!Reads
    <3> QED
      BY <1>1, <3>1, <3>2, Zenon DEF Refused
  <2> QED
    BY <1>1, <2>1 DEF IsForeign, Steps, Moves
<1>3. NotYet(y)' /\ Sealed(y)' /\ CloseIsLast(y)' /\ Heard(y)'
    BY <1>1, <1>2 DEF CloseOf, NotYet, Sealed, CloseIsLast, Heard
<1>4. ASSUME ~IsForeign(x), Closes(ends[x].queued)
      PROVE  ends'[x].queued = ends[x].queued
  <2>1. ends[x].state # "Active"
    BY <1>4 DEF NotYet
  <2> QED
    BY <1>4, <2>1 DEF Steps, StreamStep, Idles, OtherSends, Adds, Breaks, Confirms, Receives, StreamFails, Rejects, Hears, Gets, Closed
<1>5. GotAll(y)'
    BY <1>1, <1>2, <1>4 DEF CloseOf, GotAll
<1> QED
    BY <1>2, <1>3, <1>5 DEF CloseOf

\* A step of x, as x sees it.
LEMMA OwnClose ==
    ASSUME FlowInv, NEW x \in Sides, Steps(x), CloseOf(x), CloseIsLast(Peer(x))
    PROVE  CloseOf(x)'
<1> DEFINE y == Peer(x)
           q == ends[x].queued
           g == got[x]
           e == ends[x]
<1>0. ProgressInv
    BY DEF FlowInv
<1>1. /\ IsSeq(q) /\ IsSeq(g) /\ (IsForeign(x)' <=> IsForeign(x)) /\ IsEnd(e) /\ Progress(x)
      /\ (IsForeign(y)' <=> IsForeign(y)) /\ ends'[y] = ends[y]
    BY <1>0, Parts DEF TypeOf, IsEnd, Steps, Moves, Alone, IsForeign
<1>2. NotYet(x) /\ Sealed(x) /\ CloseIsLast(x) /\ Heard(x) /\ GotAll(x)
    BY DEF CloseOf
<1>3. e.state # "CloseAcknowledged" => e.ended = "no"
    BY <1>1 DEF IsEnd
<1>4. Refused(x) => Refused(x)'
    BY <1>0, RefusedStays
<1>5. CASE Idles(x)
  <2>1. /\ ends'[x].state = e.state /\ ends'[x].queued = q /\ ends'[x].ended = e.ended /\ got'[x] = g
    BY <1>5 DEF Idles
  <2>2. NotYet(x)' /\ Sealed(x)' /\ CloseIsLast(x)' /\ Heard(x)'
    BY <1>1, <1>2, <2>1 DEF NotYet, Sealed, CloseIsLast, Heard
  <2>3. GotAll(x)'
    BY <1>1, <1>2, <1>4, <2>1 DEF GotAll
  <2> QED
    BY <2>2, <2>3 DEF CloseOf
<1>6. CASE OtherSends(x)
  <2>1. /\ IsForeign(x) /\ IsForeign(x)' /\ ends'[x].state = "Active" /\ ends'[x].ended = "no" /\ got'[x] = g
        /\ e.state = "Active"
    BY <1>1, <1>3, <1>6 DEF OtherSends, Progress
  <2> QED
    BY <1>2, <2>1 DEF CloseOf, NotYet, Sealed, CloseIsLast, Heard, GotAll
<1>7. ASSUME NEW h, Adds(x, h) PROVE CloseOf(x)'
  <2>1. /\ e.state = "Active" /\ ends'[x].queued = q \o <<h>> /\ ends'[x].ended = "no"
        /\ ends'[x].state = (IF h.op = "Close" THEN "ClosedByUs" ELSE "Active") /\ got'[x] = g
        /\ ~IsForeign(x)
    BY <1>3, <1>7 DEF Adds, Queues, IsOpen, IsForeign
  <2>2. ~Closes(q) /\ ~Closes(g)
    BY <1>2, <2>1 DEF NotYet, Heard
  <2>3. /\ Closes(q \o <<h>>) <=> h.op = "Close"
        /\ \A i \in DOMAIN (q \o <<h>>) : (q \o <<h>>)[i].op = "Close" => i = Len(q \o <<h>>)
    BY <1>1, <2>2, AppendCloses
  <2>4. NotYet(x)' /\ Sealed(x)' /\ Heard(x)' /\ GotAll(x)'
    BY <2>1, <2>2, <2>3 DEF NotYet, Sealed, Heard, GotAll
  <2>5. CloseIsLast(x)'
    BY <2>1, <2>3 DEF CloseIsLast
  <2> QED
    BY <2>4, <2>5 DEF CloseOf
<1>8. CASE Breaks(x)
  <2>1. /\ ends'[x].state = "CloseAcknowledged" /\ ends'[x].queued = q /\ got'[x] = g
        /\ ends'[x].ended \in {"us", "peer"} => ends'[x].ended = e.ended
    BY <1>8 DEF Breaks, StreamFails
  <2>2. NotYet(x)' /\ Sealed(x)' /\ CloseIsLast(x)' /\ Heard(x)'
    BY <1>1, <1>2, <2>1 DEF NotYet, Sealed, CloseIsLast, Heard
  <2>3. GotAll(x)'
    BY <1>1, <1>2, <1>4, <2>1 DEF GotAll
  <2> QED
    BY <2>2, <2>3 DEF CloseOf
<1>9. CASE Confirms(x)
  <2>1. /\ ends'[x].state = "CloseAcknowledged" /\ ends'[x].queued = q /\ got'[x] = g
        /\ e.state = "ClosedByPeer"
    BY <1>9 DEF Confirms
  <2>2. NotYet(x)' /\ Sealed(x)' /\ CloseIsLast(x)' /\ Heard(x)'
    BY <1>1, <1>2, <2>1 DEF NotYet, Sealed, CloseIsLast, Heard
  <2>3. GotAll(x)'
    BY <1>1, <1>2, <1>4, <2>1 DEF GotAll
  <2> QED
    BY <2>2, <2>3 DEF CloseOf
<1>10. ASSUME NEW f, Receives(x, f) PROVE CloseOf(x)'
  <2>0. /\ f = Head(Arrived(x)) /\ Arrived(x) # <<>> /\ IsOpen(x) /\ ~IsForeign(x)
        /\ e.state \in {"Active", "ClosedByUs"} /\ e.ended = "no" /\ ~Closes(g)
    BY <1>2, <1>3, <1>10 DEF Receives, IsOpen, IsForeign, Heard
  <2>1. ASSUME NEW h, h.op = "Close", NEW w, w \in {"us", "error"}, Closed(x, h, w)
        PROVE  /\ NotYet(x)' /\ Sealed(x)' /\ CloseIsLast(x)' /\ Heard(x)'
               /\ ends'[x].state \in {"ClosedByPeer", "CloseAcknowledged"}
               /\ ends'[x].ended \in {w, "no"} /\ (ends'[x].ended = "no" => ends'[x].state = "ClosedByPeer")
    <3>1. CASE e.state = "ClosedByUs"
      <4>1. /\ ends'[x].queued = q /\ ends'[x].state = "CloseAcknowledged" /\ ends'[x].ended = w
        BY <2>1, <3>1 DEF Closed
      <4>2. Closes(q)
        BY <1>2, <3>1 DEF Sealed
      <4> QED
        BY <1>1, <1>2, <2>1, <4>1, <4>2 DEF NotYet, Sealed, CloseIsLast, Heard
    <3>2. CASE e.state = "Active"
      <4>1. /\ ends'[x].queued = q \o <<h>> /\ ends'[x].state = "ClosedByPeer" /\ ends'[x].ended = "no"
        BY <2>0, <2>1, <3>2 DEF Closed
      <4>2. ~Closes(q)
        BY <1>2, <2>0, <3>2 DEF NotYet
      <4>3. /\ Closes(q \o <<h>>)
            /\ \A i \in DOMAIN (q \o <<h>>) : (q \o <<h>>)[i].op = "Close" => i = Len(q \o <<h>>)
        BY <1>1, <2>1, <4>2, AppendCloses
      <4>4. CloseIsLast(x)'
        BY <4>1, <4>3 DEF CloseIsLast
      <4>5. NotYet(x)' /\ Sealed(x)' /\ Heard(x)'
        BY <4>1, <4>3 DEF NotYet, Sealed, Heard
      <4> QED
        BY <4>1, <4>4, <4>5
    <3> QED
      BY <2>0, <3>1, <3>2
  <2>2. CASE Rejects(x, f)
    <3> DEFINE h == Frame("Close", ErrorCode(x, f))
    <3>1. h.op = "Close" /\ Closed(x, h, "error")
      BY <2>2, AcceptedIsLegal DEF Rejects
    <3> HIDE DEF h
    <3>2. /\ NotYet(x)' /\ Sealed(x)' /\ CloseIsLast(x)' /\ Heard(x)'
          /\ ends'[x].state \in {"ClosedByPeer", "CloseAcknowledged"}
      BY <2>1, <3>1
    <3>3. Refused(x)'
      <4>1. phase'[x] \in Returned
        BY <2>0 DEF Steps, Moves, IsOpen, Returned
      <4>2. inbuf'[x] # <<>> /\ ErrorCode(x, Head(inbuf'[x])) # 0
        BY <2>2 DEF Rejects
      <4> QED
        BY <3>2, <4>1, <4>2 DEF Refused, At!Reads, ErrorCode
    <3> QED
      BY <3>2, <3>3 DEF CloseOf, GotAll
  <2>3. CASE Hears(x, f)
    <3>1. f.op = "Close" /\ Closed(x, f, "us") /\ got'[x] = Append(g, f)
      BY <2>3 DEF Hears
    <3>2. NotYet(x)' /\ Sealed(x)' /\ CloseIsLast(x)' /\ Heard(x)'
      BY <2>1, <3>1
    <3>3. Closes(got'[x])
      BY <1>1, <3>1, AppendCloses
    <3>4. ~IsForeign(y) => got'[x] = ends'[y].queued
      BY <1>1, <2>0, <3>1, HeardAll
    <3>5. GotAll(x)'
      BY <1>1, <3>3, <3>4 DEF GotAll
    <3> QED
      BY <3>2, <3>5 DEF CloseOf
  <2>4. CASE Gets(x, f)
    <3>1. ~Closes(got'[x])
      <4>1. f.op # "Close" /\ got'[x] = Append(g, f)
        BY <2>4 DEF Gets
      <4>2. Closes(Append(g, f)) <=> Closes(g) \/ f.op = "Close"
        BY <1>1, AppendCloses, Zenon
      <4> QED
        BY <2>0, <4>1, <4>2, Zenon
    <3>2. CASE ends'[x] = e
      BY <1>1, <1>2, <2>0, <3>1, <3>2 DEF CloseOf, NotYet, Sealed, CloseIsLast, Heard, GotAll
    <3>3. CASE e.state = "Active" /\ ends'[x].state = "Active" /\ Queues(x, <<Frame("Pong", f.v)>>)
      <4> DEFINE h == Frame("Pong", f.v)
      <4>1. h.op # "Close" /\ ends'[x].queued = q \o <<h>> /\ ends'[x].ended = "no"
        BY <2>0, <3>3, AcceptedIsLegal DEF Queues
      <4> HIDE DEF h
      <4>2. ~Closes(q)
        BY <1>2, <2>0, <3>3 DEF NotYet
      <4>3. /\ ~Closes(q \o <<h>>)
            /\ \A i \in DOMAIN (q \o <<h>>) : (q \o <<h>>)[i].op = "Close" => i = Len(q \o <<h>>)
        BY <1>1, <4>1, <4>2, AppendCloses
      <4>4. CloseIsLast(x)'
        BY <4>1, <4>3 DEF CloseIsLast
      <4>5. NotYet(x)' /\ Sealed(x)' /\ Heard(x)' /\ GotAll(x)'
        BY <3>1, <3>3, <4>1, <4>3 DEF NotYet, Sealed, Heard, GotAll
      <4> QED
        BY <4>4, <4>5 DEF CloseOf
    <3> QED
      BY <2>4, <3>2, <3>3 DEF Gets
  <2> QED
    BY <1>10, <2>2, <2>3, <2>4 DEF Receives
<1> QED
    BY <1>5, <1>6, <1>7, <1>8, <1>9, <1>10 DEF Steps, StreamStep

\* No stream has closed at first.
LEMMA CloseInit == connInit => CloseInv
<1> SUFFICES ASSUME connInit PROVE CloseInv
    OBVIOUS
<1>1. ASSUME NEW x \in Sides
      PROVE  ends[x] = Fresh /\ got[x] = <<>>
    BY DEF connInit, Init, Each, Fresh, At!Opened
<1>2. ~Closes(<<>>) /\ DOMAIN <<>> = {} /\ Fresh.queued = <<>> /\ Fresh.state = "Active" /\ Fresh.ended = "no"
    BY DEF Closes, Fresh
<1> QED
    BY <1>1, <1>2 DEF CloseInv, CloseOf, NotYet, Sealed, CloseIsLast, Heard, GotAll

\* Every step keeps CloseInv.
LEMMA CloseStep ==
    ASSUME FlowInv, CloseInv, [connNext]_allVars
    PROVE  CloseInv'
<1>0. ProgressInv
    BY DEF FlowInv
<1>1. CASE UNCHANGED allVars
  <2>1. phase' = phase /\ ends' = ends /\ got' = got /\ inbuf' = inbuf
    BY <1>1 DEF allVars, vars, connVars
  <2>2. ASSUME NEW x \in Sides PROVE CloseOf(x)'
    <3>1. CloseOf(x)
      BY DEF CloseInv
    <3>2. ErrorCode(x, Head(inbuf[x]))' = ErrorCode(x, Head(inbuf[x]))
      BY <2>1 DEF ErrorCode
    <3>3. At(x)!Reads' <=> At(x)!Reads
      BY <2>1 DEF At!Reads
    <3>4. Refused(x)' <=> Refused(x)
      BY <2>1, <3>2, <3>3, Zenon DEF Refused
    <3>5. \A z : IsForeign(z)' <=> IsForeign(z)
      BY <2>1 DEF IsForeign
    <3> QED
      BY <2>1, <3>1, <3>4, <3>5 DEF CloseOf, NotYet, Sealed, CloseIsLast, Heard, GotAll
  <2> QED
    BY <2>2 DEF CloseInv
<1>2. ASSUME NEW x \in Sides, Steps(x) PROVE CloseInv'
  <2> DEFINE y == Peer(x)
  <2>1. y \in Sides /\ x = Peer(y) /\ CloseOf(x) /\ CloseOf(y) /\ \A z \in Sides : z = x \/ z = y
    BY Peers DEF CloseInv
  <2>2. CloseOf(x)'
    BY <1>2, <2>1, OwnClose DEF CloseOf
  <2>3. CloseOf(y)'
    BY <1>0, <1>2, <2>1, PeerClose DEF CloseOf
  <2> QED
    BY <2>1, <2>2, <2>3 DEF CloseInv
<1> QED
    BY <1>0, <1>1, <1>2, AnyStep

\* How a stream closes: it sends nothing behind its close frame, and a stream
\* that has heard the close frame of its peer has got all that came before.
THEOREM ConnectionCloses == connSpec => []CloseInv
BY CloseInit, CloseStep, ConnectionFlows, PTL DEF connSpec

\* A stream that ends with the exchange of close frames has handed out every
\* frame that an end of this crate on the other side ever queued.
THEOREM OrderlyClose == connSpec => []OrderlyCloseLosesNothing
<1>1. CloseInv => OrderlyCloseLosesNothing
    BY DEF CloseInv, CloseOf, GotAll, OrderlyCloseLosesNothing
<1> QED
    BY <1>1, ConnectionCloses, PTL

-----------------------------------------------------------------------------
(* A close that is not cut short.  Nobody has left before the shutdown, or *)
(* refused a frame: then there is no error, and a shutdown only after the  *)
(* exchange of close frames.                                               *)

Undisturbed(x) ==
    /\ ~IsForeign(Peer(x)) /\ (gone[Peer(x)] => phase[Peer(x)] = "shut")
    /\ \A y \in Sides : ~Refused(y)

CleanOf(x) ==
    Undisturbed(x) =>
        /\ ends[x].ended # "error"
        /\ phase[x] = "shut" => ends[x].ended \in {"us", "peer"}
CleanInv == \A x \in Sides : CleanOf(x)

\* A connection that is undisturbed was so before.
LEMMA WasUndisturbed ==
    ASSUME ProgressInv, ProgressInv', CloseInv, NEW x \in Sides, Steps(x), NEW z \in Sides,
           Undisturbed(z)'
    PROVE  Undisturbed(z)
<1> DEFINE y == Peer(x)
<1>1. y \in Sides /\ x = Peer(y) /\ y # x /\ (\A s \in Sides : s = x \/ s = y) /\ Peer(z) \in Sides
    BY Peers
<1>2. Refused(y)' <=> Refused(y)
    BY <1>1, PeerClose DEF CloseInv, CloseOf
<1>3. Refused(x) => Refused(x)'
    BY RefusedStays
<1>4. \A s \in Sides : ~Refused(s)
    BY <1>1, <1>2, <1>3 DEF Undisturbed
<1>5. \A s \in Sides : (IsForeign(s)' <=> IsForeign(s)) /\ (gone[s] => phase'[s] = phase[s])
    BY <1>1 DEF Steps, Moves, Alone, IsForeign
<1>6. \A s \in Sides : (gone'[s] <=> phase'[s] \in Leaving) /\ (gone[s] <=> phase[s] \in Leaving)
    BY DEF ProgressInv, TypeOK, TypeOf
<1>7. gone[Peer(z)] => phase[Peer(z)] = "shut"
    BY <1>1, <1>5, <1>6 DEF Undisturbed
<1> QED
    BY <1>1, <1>4, <1>5, <1>7 DEF Undisturbed

\* A peer that has shut its end down has got everything, and has sent its close
\* frame.
LEMMA ShutPeer ==
    ASSUME FlowInv, CloseInv, CleanInv, NEW x \in Sides, Undisturbed(x), IsOpen(x),
           NEW y \in Sides, y = Peer(x), x = Peer(y), gone[y]
    PROVE  phase[y] = "shut" /\ inbuf[y] = <<>> /\ net[x] = <<>> /\ Closes(ends[y].queued)
<1>1. phase[y] = "shut" /\ ~Refused(y)
    BY DEF Undisturbed
<1>2. ProgressInv /\ Flow(y) /\ ~IsForeign(x) /\ ~gone[x]
    BY Parts DEF FlowInv, IsOpen, IsForeign, TypeOf, Leaving
<1>3. Undisturbed(y)
    BY <1>2 DEF Undisturbed
<1>4. ends[y].ended \in {"us", "peer"}
    BY <1>1, <1>3 DEF CleanInv, CleanOf
<1>5. got[y] = ends[x].queued /\ Closes(ends[y].queued)
    BY <1>1, <1>2, <1>4 DEF CloseInv, CloseOf, GotAll, Sealed
<1>6. Chain(y) = ends[x].queued
    BY <1>1, <1>2 DEF Flow, Taken, Past
<1>7. /\ IsSeq(got[y]) /\ IsSeq(inbuf[y]) /\ IsSeq(Sent(x))
      /\ Len(Chain(y)) = Len(got[y]) + (Len(inbuf[y]) + Len(Sent(x)))
    BY <1>2, ChainFacts
<1>8. /\ IsSeq(net[x]) /\ IsSeq(Join(out[x], Join(todo[x], Rest(x))))
      /\ Sent(x) = Join(net[x], Join(out[x], Join(todo[x], Rest(x))))
    BY <1>2, SentFacts DEF Sent
<1> DEFINE a == Len(got[y])
           b == Len(inbuf[y])
           c == Len(net[x])
           d == Len(Join(out[x], Join(todo[x], Rest(x))))
<1>9. a \in Nat /\ b \in Nat /\ c \in Nat /\ d \in Nat
    BY <1>7, <1>8, LengthFacts
<1>10. Len(Sent(x)) = c + d
    BY <1>8, JoinFacts
<1>11. a = a + (b + (c + d))
    BY <1>5, <1>6, <1>7, <1>10, Zenon
<1> HIDE DEF a, b, c, d
<1>12. b = 0 /\ c = 0
    BY <1>9, <1>11
<1>13. inbuf[y] = <<>> /\ net[x] = <<>>
    BY <1>7, <1>8, <1>12, LengthFacts DEF b, c
<1> QED
    BY <1>1, <1>5, <1>13

\* A stream that still reads does not find the end of the input first.
LEMMA NoEof ==
    ASSUME FlowInv, CloseInv, CleanInv, NEW x \in Sides, Undisturbed(x), IsOpen(x), AtEof(x)
    PROVE  ~At(x)!Reads
<1> DEFINE y == Peer(x)
           q == ends[y].queued
           w == SubSeq(ends[y].queued, 1, ends[y].written)
<1>1. y \in Sides /\ x = Peer(y) /\ gone[y] /\ Arrived(x) = <<>> /\ out[y] = <<>>
    BY Peers DEF AtEof
<1>2. phase[y] = "shut" /\ Closes(q)
    BY <1>1, ShutPeer
<1>3. ProgressInv /\ IsEnd(ends[y]) /\ Progress(y) /\ IsSeq(got[x])
    BY <1>1, Reader, Parts DEF TypeOf
<1>4. ends[y].written = Len(q)
    BY <1>2, <1>3 DEF Progress, Flushed
<1>5. Rest(y) = <<>> /\ Join(w, Rest(y)) = q /\ IsSeq(w)
    BY <1>3, <1>4, RestFacts
<1>6. w = q
    BY <1>5, JoinEmpty
<1>7. (got[x] \o <<>>) \o <<>> = w
    BY <1>1, FlowReaches
<1>8. got[x] = w
    BY <1>3, <1>7, EmptyConcat
<1> QED
    BY <1>2, <1>6, <1>8 DEF CloseInv, CloseOf, Heard, At!Reads

\* A frame that is answered with an error is one that was refused.
LEMMA RejectsRefuses ==
    ASSUME NEW x \in Sides, Moves(x), NEW f, Receives(x, f), Rejects(x, f)
    PROVE  Refused(x)'
<1>1. phase'[x] \in Returned
    BY DEF Receives, Moves, IsOpen, Returned
<1>2. inbuf'[x] # <<>> /\ ErrorCode(x, Head(inbuf'[x])) # 0
    BY DEF Rejects
<1>3. ends'[x].state \in {"ClosedByPeer", "CloseAcknowledged"}
    BY DEF Rejects, Closed
<1> QED
    BY <1>1, <1>2, <1>3 DEF Refused, At!Reads, ErrorCode

\* A step of x keeps an undisturbed connection clean for x,
LEMMA OwnClean ==
    ASSUME FlowInv, ProgressInv', CloseInv, CleanInv, NEW x \in Sides, Steps(x)
    PROVE  CleanOf(x)'
<1> SUFFICES ASSUME Undisturbed(x)'
             PROVE  /\ ends'[x].ended # "error"
                    /\ phase'[x] = "shut" => ends'[x].ended \in {"us", "peer"}
    BY DEF CleanOf
<1> DEFINE y == Peer(x)
<1>0. ProgressInv
    BY DEF FlowInv
<1>1. y \in Sides /\ x = Peer(y) /\ IsEnd(ends[x]) /\ Moves(x)
    BY <1>0, Parts, Peers DEF Steps
<1>2. Undisturbed(x) /\ ~Refused(x)'
    BY <1>0, WasUndisturbed DEF Undisturbed
<1>3. ends[x].ended # "error" /\ (phase[x] = "shut" => ends[x].ended \in {"us", "peer"})
    BY <1>2 DEF CleanInv, CleanOf
<1>4. CASE Idles(x)
  <2>1. ends'[x].ended = ends[x].ended
    BY <1>4 DEF Idles
  <2>2. CASE phase'[x] = "shut" /\ phase[x] = "closing" /\ ReadsNothing(x)
    <3>1. ~(At(x)!Reads /\ AtEof(x))
      BY <1>2, <2>2, NoEof DEF IsOpen
    <3>2. ends[x].state = "CloseAcknowledged"
      BY <2>2, <3>1 DEF ReadsNothing
    <3> QED
      BY <1>1, <1>3, <2>1, <3>2 DEF IsEnd
  <2> QED
    BY <1>3, <1>4, <2>1, <2>2 DEF Idles
<1>5. CASE OtherSends(x)
    BY <1>1, <1>3, <1>5 DEF OtherSends, Moves, IsForeign
<1>6. ASSUME NEW h, Adds(x, h) PROVE ends'[x].ended # "error" /\ phase'[x] # "shut"
    BY <1>3, <1>6 DEF Adds, Queues
<1>7. ~Breaks(x)
  <2> SUFFICES ASSUME Breaks(x) PROVE FALSE
    OBVIOUS
  <2>1. IsOpen(x) /\ gone[y] /\ (phase[y] # "shut" \/ inbuf[y] # <<>> \/ net[x] # <<>>)
    BY <1>1 DEF Breaks, Reset
  <2> QED
    BY <1>1, <1>2, <2>1, ShutPeer
<1>8. CASE Confirms(x)
    BY <1>8 DEF Confirms
<1>9. ASSUME NEW f, Receives(x, f) PROVE ends'[x].ended # "error" /\ phase'[x] # "shut"
  <2>1. ~Rejects(x, f)
    BY <1>1, <1>2, <1>9, RejectsRefuses
  <2> QED
    BY <1>3, <1>9, <2>1 DEF Receives, Hears, Gets, Closed, Queues
<1> QED
    BY <1>4, <1>5, <1>6, <1>7, <1>8, <1>9 DEF Steps, StreamStep

\* and every step for both.
LEMMA CleanStep ==
    ASSUME FlowInv, CloseInv, CleanInv, [connNext]_allVars
    PROVE  CleanInv'
<1>0. ProgressInv /\ ProgressInv'
    BY StepProgress DEF FlowInv
<1>1. CASE UNCHANGED allVars
  <2>1. phase' = phase /\ ends' = ends /\ gone' = gone /\ inbuf' = inbuf
    BY <1>1 DEF allVars, vars, connVars
  <2>2. ASSUME NEW x \in Sides PROVE Refused(x)' <=> Refused(x)
    <3>1. ErrorCode(x, Head(inbuf[x]))' = ErrorCode(x, Head(inbuf[x]))
      BY <2>1 DEF ErrorCode
    <3>2. At(x)!Reads' <=> At(x)!Reads
      BY <2>1 DEF At!Reads
    <3> QED
      BY <2>1, <3>1, <3>2, Zenon DEF Refused
  <2>3. \A z : IsForeign(z)' <=> IsForeign(z)
    BY <2>1 DEF IsForeign
  <2> QED
    BY <2>1, <2>2, <2>3 DEF CleanInv, CleanOf, Undisturbed
<1>2. ASSUME NEW x \in Sides, Steps(x) PROVE CleanInv'
  <2> DEFINE y == Peer(x)
  <2>1. y \in Sides /\ \A z \in Sides : z = x \/ z = y
    BY Peers
  <2>2. CleanOf(x)'
    BY <1>0, <1>2, OwnClean
  <2>3. CleanOf(y)'
    <3>1. Undisturbed(y)' => Undisturbed(y)
      BY <1>0, <1>2, <2>1, WasUndisturbed
    <3>2. phase'[y] = phase[y] /\ ends'[y] = ends[y]
      BY <1>2 DEF Steps, Alone
    <3> QED
      BY <2>1, <3>1, <3>2 DEF CleanInv, CleanOf
  <2> QED
    BY <2>1, <2>2, <2>3 DEF CleanInv
<1> QED
    BY <1>0, <1>1, <1>2, AnyStep

\* A connection is clean at first.
LEMMA CleanInit == connInit => CleanInv
<1> SUFFICES ASSUME connInit PROVE CleanInv
    OBVIOUS
<1>1. ASSUME NEW x \in Sides
      PROVE  ends[x] = Fresh /\ phase[x] \in {"new", "foreign"}
    BY DEF connInit, Init, Each, Fresh, At!Opened
<1> QED
    BY <1>1 DEF CleanInv, CleanOf, Fresh

\* On a connection that nobody disturbs no stream fails, and one that has shut
\* its end down has sent its close frame and heard the other's.
THEOREM ConnectionIsClean == connSpec => []CleanInv
BY CleanInit, CleanStep, ConnectionCloses, ConnectionFlows, PTL DEF connSpec

\* Between two ends of this crate that both close, neither gets an error or an
\* end of input without a close frame.
THEOREM CleanClose == connSpec => []CloseIsClean
<1>1. ProgressInv /\ CleanInv => CloseIsClean
  <2> SUFFICES ASSUME ProgressInv, CleanInv, NEW x \in Sides,
                      phase[Peer(x)] \in {"reading", "open", "closing", "shut"},
                      \A y \in Sides : ~Refused(y)
               PROVE  /\ ends[x].ended # "error"
                      /\ phase[x] = "shut" => ends[x].ended \in {"us", "peer"}
    BY DEF CloseIsClean
  <2>1. gone[Peer(x)] => phase[Peer(x)] = "shut"
    BY Parts DEF TypeOf, Leaving
  <2>2. Undisturbed(x)
    BY <2>1 DEF Undisturbed, IsForeign
  <2> QED
    BY <2>2 DEF CleanInv, CleanOf
<1> QED
    BY <1>1, ConnectionIsClean, ConnectionProgress, PTL

-----------------------------------------------------------------------------
(* When the handshake fails.                                               *)

\* x may fail, or refuse the request: it refuses already, the peer has left, or
\* it does not accept what it reads.
Falters(x) ==
    \/ phase[x] = "refusing"
    \/ gone[Peer(x)] /\ phase[x] \in {"writing", "flushing", "reading", "replying"}
    \/ /\ phase[x] = "reading"
       /\ \E n \in 1..Len(net[Peer(x)]) : Fails(x, ReadUnits(x, n)[1].msg)

\* A step, as the handshake sees it.
HandStep(x) ==
    /\ Alone(x) /\ (added' = added \/ phase[x] = "new")
    /\ phase'[x] \in {"failed", "refusing"} => phase'[x] = phase[x] \/ Falters(x)
    /\ phase'[x] = "new" => phase[x] = "new"
    /\ phase'[x] = "unreachable" => phase[x] \in {"new", "unreachable"}
    /\ x = "server" /\ phase[x] = "new" =>
        phase'[x] = "new" \/ phase["client"] \notin {"new", "unreachable"}

\* The steps of both handshakes,
LEMMA HandshakesHandStep ==
    ASSUME ProgressInv, UNCHANGED connVars, NEW x \in Sides, Handshakes(x)
    PROVE  HandStep(x)
<1>0. Domains
    BY Parts
<1>1. CASE Write(x)
  <2>1. /\ Alone(x) /\ added' = added /\ phase[x] \in {"writing", "replying", "refusing"}
        /\ \/ phase[x] = "refusing" /\ phase'[x] = "failed"
           \/ phase'[x] = phase[x]
           \/ phase'[x] \in {"flushing", "open"}
    BY <1>0, <1>1, WriteEffect DEF Leaves
  <2> QED
    BY <2>1 DEF HandStep, Falters
<1>2. CASE WriteError(x)
  <2>1. /\ Alone(x) /\ added' = added /\ phase[x] \in {"writing", "flushing", "replying", "refusing"}
        /\ gone[Peer(x)] /\ phase'[x] = "failed"
    BY <1>0, <1>2, WriteErrorEffect DEF Leaves
  <2> QED
    BY <2>1 DEF HandStep, Falters
<1>3. CASE ReadEof(x)
  <2>1. /\ Alone(x) /\ added' = added /\ phase[x] = "reading" /\ gone[Peer(x)]
        /\ phase'[x] \in {"refusing", "failed"}
    BY <1>0, <1>3, ReadEofEffect DEF Leaves
  <2> QED
    BY <2>1 DEF HandStep, Falters
<1>4. ASSUME NEW n, Read(x, n) PROVE HandStep(x)
  <2> DEFINE bad == Fails(x, ReadUnits(x, n)[1].msg)
  <2>1. /\ Alone(x) /\ added' = added /\ phase[x] = "reading" /\ n \in 1..Len(net[Peer(x)])
        /\ \/ phase'[x] = phase[x] \/ phase'[x] \in {"replying", "open"}
           \/ bad /\ phase'[x] \in {"refusing", "failed"}
    BY <1>0, <1>4, ReadEffect DEF GoesOn, Refuses, GivesUp, Replies, Opens, Stays, Leaves
  <2>2. bad => Falters(x)
    BY <2>1 DEF Falters
  <2> HIDE DEF bad
  <2> QED
    BY <2>1, <2>2 DEF HandStep
<1> QED
    BY <1>1, <1>2, <1>3, <1>4 DEF Handshakes

\* the other steps before a stream,
LEMMA OpeningHandStep ==
    ASSUME ProgressInv, UNCHANGED connVars, NEW x \in Sides,
           \/ \E name : add_header(x, name)
           \/ x = "client" /\ (connect \/ connect_on \/ Flush)
           \/ x = "server" /\ accept
           \/ Spill(x) \/ ForeignLeave(x) \/ Cancel(x) \/ \E m : ForeignSend(x, m)
    PROVE  HandStep(x)
<1>0. Domains
    BY Parts
<1>1. ASSUME NEW name, add_header(x, name) PROVE HandStep(x)
    BY <1>0, <1>1, AddHeaderEffect DEF HandStep, Stays
<1>2. CASE x = "client" /\ connect
    BY <1>0, <1>2, ConnectEffect DEF HandStep
<1>3. CASE x = "client" /\ connect_on
    BY <1>0, <1>3, ConnectOnEffect DEF HandStep
<1>4. CASE x = "client" /\ Flush
    BY <1>0, <1>4, FlushEffect DEF HandStep
<1>5. CASE x = "server" /\ accept
    BY <1>0, <1>5, AcceptEffect DEF HandStep
<1>6. CASE Spill(x)
    BY <1>0, <1>6, SpillEffect DEF HandStep, Stays
<1>7. CASE Cancel(x)
    BY <1>0, <1>7, CancelEffect DEF HandStep, Leaves
<1>8. CASE ForeignLeave(x)
    BY <1>0, <1>8, ForeignLeaveEffect DEF HandStep, Leaves
<1>9. ASSUME NEW m, ForeignSend(x, m) PROVE HandStep(x)
    BY <1>0, <1>9, ForeignSendEffect DEF HandStep
<1> QED
    BY <1>1, <1>2, <1>3, <1>4, <1>5, <1>6, <1>7, <1>8, <1>9

\* the steps of a stream,
LEMMA StreamHandStep ==
    ASSUME ProgressInv, NEW x \in Sides,
           \/ start_send(x) \/ poll_close(x) \/ Polls(x) \/ ReadFails(x) \/ DropStream(x)
           \/ ForeignRead(x) \/ \E f : ForeignFrame(x, f)
    PROVE  HandStep(x)
<1>0. Domains /\ DOMAIN ends[x] = Fields /\ IsEnd(ends[x])
    BY Parts
<1> DEFINE Plain ==
        /\ Alone(x) /\ added' = added
        /\ \/ phase'[x] = phase[x] /\ phase[x] # "new"
           \/ IsOpen(x) /\ phase'[x] \in {"closing", "shut", "closed"}
<1>1. CASE start_send(x)
  <2>1. Plain
    BY <1>0, <1>1, StartSendEffect DEF Stays
  <2> QED
    BY <2>1 DEF HandStep, IsOpen
<1>2. CASE poll_close(x)
    BY <1>0, <1>2, PollCloseEffect DEF HandStep
<1>3. CASE WriteFrame(x)
  <2>1. Plain
    BY <1>0, <1>3, WriteFrameEffect DEF Stays, IsOpen
  <2> QED
    BY <2>1 DEF HandStep, IsOpen
<1>4. CASE poll_next_frame(x)
  <2>1. Plain
    BY <1>0, <1>4, PollNextFrameEffect DEF Stays, IsOpen
  <2> QED
    BY <2>1 DEF HandStep, IsOpen
<1>5. CASE Acknowledge(x)
  <2>1. Plain
    BY <1>0, <1>5, AcknowledgeEffect DEF Stays, IsOpen
  <2> QED
    BY <2>1 DEF HandStep, IsOpen
<1>6. CASE poll_shutdown(x) \/ DropStream(x)
  <2>1. Plain
    BY <1>0, <1>6, PollShutdownEffect, DropStreamEffect DEF Leaves, IsOpen
  <2> QED
    BY <2>1 DEF HandStep, IsOpen
<1>7. CASE WriteFails(x) \/ ReadFails(x)
  <2>1. Plain
    BY <1>0, <1>7, WriteFailsEffect, ReadFailsEffect DEF Leaves, Stays, IsOpen
  <2> QED
    BY <2>1 DEF HandStep, IsOpen
<1>8. CASE ForeignRead(x)
  <2>1. Plain
    BY <1>0, <1>8, ForeignReadEffect DEF Stays
  <2> QED
    BY <2>1 DEF HandStep, IsOpen
<1>9. ASSUME NEW f, ForeignFrame(x, f) PROVE HandStep(x)
  <2>1. Plain
    BY <1>0, <1>9, ForeignFrameEffect DEF Stays
  <2> QED
    BY <2>1 DEF HandStep, IsOpen
<1> QED
    BY <1>1, <1>2, <1>3, <1>4, <1>5, <1>6, <1>7, <1>8, <1>9 DEF Polls

\* and so every step of the connection.
LEMMA AnyHandStep ==
    ASSUME ProgressInv, [connNext]_allVars
    PROVE  UNCHANGED allVars \/ \E x \in Sides : HandStep(x)
<1>1. CASE Next /\ UNCHANGED connVars
  <2>0. "client" \in Sides /\ "server" \in Sides
    BY DEF Sides
  <2>1. \E x \in Sides :
            \/ Handshakes(x)
            \/ \E name : add_header(x, name)
            \/ x = "client" /\ (connect \/ connect_on \/ Flush)
            \/ x = "server" /\ accept
            \/ Spill(x) \/ ForeignLeave(x) \/ Cancel(x) \/ \E m : ForeignSend(x, m)
    BY <1>1, <2>0, Zenon DEF Next
  <2> QED
    BY <1>1, <2>1, HandshakesHandStep, OpeningHandStep
<1>2. CASE \E x \in Sides :
            \/ start_send(x) \/ poll_close(x) \/ Polls(x) \/ ReadFails(x) \/ DropStream(x)
            \/ \E f \in ForeignFrames : ForeignFrame(x, f)
            \/ ForeignRead(x)
    BY <1>2, StreamHandStep
<1> QED
    BY <1>1, <1>2 DEF connNext

\* What stays of a phase, whoever takes the step.
LEMMA PhasesStay ==
    ASSUME ProgressInv, [connNext]_allVars, NEW z \in Sides
    PROVE  /\ IsForeign(z)' <=> IsForeign(z)
           /\ phase[z] \in Returned => phase'[z] \in Returned
           /\ gone[z] => phase'[z] = phase[z]
<1>1. CASE UNCHANGED allVars
    BY <1>1 DEF allVars, vars, IsForeign
<1>2. ASSUME NEW x \in Sides, Steps(x) PROVE Moves(z)
  <2>1. z = x \/ z = Peer(x)
    BY Peers
  <2> QED
    BY <1>2, <2>1 DEF Steps, Moves, Alone, IsForeign
<1> QED
    BY <1>1, <1>2, AnyStep DEF Moves

-----------------------------------------------------------------------------
(* The order in which the two sides come and go.                           *)

\* A stream that was closed by its peer, or that has ended, has met it.
MetOf(x) ==
    ends[x].state \in {"ClosedByPeer", "CloseAcknowledged"} \/ phase[x] = "shut" =>
        gone[Peer(x)] \/ phase[Peer(x)] \in Returned \/ IsForeign(Peer(x))
MetInv == \A x \in Sides : MetOf(x)

\* Nobody accepts before somebody connects, and the client does not fail before
\* somebody accepts.
OrderInv ==
    /\ phase["client"] \in {"new", "unreachable"} => phase["server"] = "new" \/ IsForeign("server")
    /\ phase["server"] = "new" => phase["client"] # "failed"

\* A frame that has arrived was sent by a stream.
LEMMA ArrivedMet ==
    ASSUME FlowInv, NEW x \in Sides, IsOpen(x), Arrived(x) # <<>>
    PROVE  gone[Peer(x)] \/ phase[Peer(x)] \in Returned \/ IsForeign(Peer(x))
<1> DEFINE y == Peer(x)
<1>1. ProgressInv /\ Flow(x) /\ y \in Sides /\ Progress(y) /\ TypeOf(y)
    BY Reader, Parts
<1>2. Chain(x) = ends[y].queued
    BY <1>1 DEF Flow, Taken, IsOpen, Past
<1>3. ends[y] # Fresh
  <2> SUFFICES ASSUME ends[y] = Fresh PROVE FALSE
    OBVIOUS
  <2>1. Chain(x) = <<>>
    BY <1>2 DEF Fresh
  <2>2. /\ IsSeq(inbuf[x]) /\ IsSeq(Sent(y)) /\ IsSeq(got[x])
        /\ Len(Chain(x)) = Len(got[x]) + (Len(inbuf[x]) + Len(Sent(y)))
    BY <1>1, ChainFacts
  <2>3. /\ IsSeq(net[y]) /\ IsSeq(Join(out[y], Join(todo[y], Rest(y))))
        /\ Sent(y) = Join(net[y], Join(out[y], Join(todo[y], Rest(y))))
    BY <1>1, SentFacts DEF Sent
  <2> DEFINE a == Len(got[x])
             b == Len(inbuf[x])
             c == Len(net[y])
             d == Len(Join(out[y], Join(todo[y], Rest(y))))
  <2>4. a \in Nat /\ b \in Nat /\ c \in Nat /\ d \in Nat
    BY <2>2, <2>3, LengthFacts
  <2>5. Len(Sent(y)) = c + d
    BY <2>3, JoinFacts
  <2>6. 0 = a + (b + (c + d))
    BY <2>1, <2>2, <2>5, EmptyIsSeq, Zenon
  <2> HIDE DEF a, b, c, d
  <2>7. b = 0 /\ c = 0
    BY <2>4, <2>6
  <2>8. inbuf[x] = <<>> /\ net[y] = <<>>
    BY <2>2, <2>3, <2>7, LengthFacts DEF b, c
  <2> QED
    BY <2>8, EmptyConcat, EmptyIsSeq DEF Arrived
<1>4. phase[y] \in Returned \cup {"foreign open", "foreign gone"}
    BY <1>1, <1>3 DEF Progress
<1> QED
    BY <1>4 DEF IsForeign

\* A side that has met its peer has done so for good.
LEMMA MetStep ==
    ASSUME FlowInv, MetInv, [connNext]_allVars
    PROVE  MetInv'
<1>0. ProgressInv /\ ProgressInv'
    BY StepProgress DEF FlowInv
<1> DEFINE Met(z) == gone[z] \/ phase[z] \in Returned \/ IsForeign(z)
<1>1. ASSUME NEW z \in Sides PROVE Met(z) => Met(z)'
  <2>1. (gone'[z] <=> phase'[z] \in Leaving) /\ (gone[z] <=> phase[z] \in Leaving)
    BY <1>0 DEF ProgressInv, TypeOK, TypeOf
  <2> QED
    BY <1>0, <2>1, PhasesStay
<1>2. CASE UNCHANGED allVars
  <2>1. phase' = phase /\ ends' = ends /\ gone' = gone
    BY <1>2 DEF allVars, vars, connVars
  <2> QED
    BY <2>1 DEF MetInv, MetOf, IsForeign
<1>3. ASSUME NEW x \in Sides, Steps(x) PROVE MetInv'
  <2> DEFINE y == Peer(x)
  <2>1. y \in Sides /\ x = Peer(y) /\ \A z \in Sides : z = x \/ z = y
    BY Peers
  <2>2. MetOf(x) /\ MetOf(y)
    BY <2>1 DEF MetInv
  <2>3. MetOf(y)'
    <3>1. phase'[y] = phase[y] /\ ends'[y] = ends[y]
      BY <1>3 DEF Steps, Alone
    <3> QED
      BY <1>1, <2>1, <2>2, <3>1 DEF MetOf
  <2>4. ASSUME ends'[x].state \in {"ClosedByPeer", "CloseAcknowledged"} \/ phase'[x] = "shut"
        PROVE  Met(y)
    <3>1. CASE Idles(x)
      BY <2>2, <2>4, <3>1 DEF Idles, MetOf, ReadsNothing, AtEof
    <3>2. CASE OtherSends(x)
      BY <1>3, <2>2, <2>4, <3>2 DEF OtherSends, MetOf, Steps, Moves, IsForeign
    <3>3. ASSUME NEW h, Adds(x, h) PROVE Met(y)
      BY <2>4, <3>3 DEF Adds
    <3>4. CASE Breaks(x)
      BY <3>4 DEF Breaks, Reset
    <3>5. CASE Confirms(x)
      BY <2>2, <3>5 DEF Confirms, MetOf
    <3>6. ASSUME NEW f, Receives(x, f) PROVE Met(y)
      BY <3>6, ArrivedMet DEF Receives
    <3> QED
      BY <1>3, <3>1, <3>2, <3>3, <3>4, <3>5, <3>6 DEF Steps, StreamStep
  <2>5. MetOf(x)'
    BY <1>1, <2>1, <2>4 DEF MetOf
  <2> QED
    BY <2>1, <2>3, <2>5 DEF MetInv
<1> QED
    BY <1>0, <1>2, <1>3, AnyStep

\* None has met the other at first.
LEMMA MetInit == connInit => MetInv /\ OrderInv
<1> SUFFICES ASSUME connInit PROVE MetInv /\ OrderInv
    OBVIOUS
<1>1. ASSUME NEW x \in Sides
      PROVE  ends[x] = Fresh /\ phase[x] \in {"new", "foreign"}
    BY DEF connInit, Init, Each, Fresh, At!Opened
<1>2. MetInv
    BY <1>1 DEF MetInv, MetOf, Fresh
<1>3. OrderInv
    BY <1>1 DEF OrderInv, IsForeign, Sides
<1> QED
    BY <1>2, <1>3

\* The client begins, then the server answers.
LEMMA OrderStep ==
    ASSUME ProgressInv, OrderInv, [connNext]_allVars
    PROVE  OrderInv'
<1> DEFINE c == "client"
           s == "server"
<1>1. /\ c \in Sides /\ s \in Sides /\ Peer(c) = s /\ Peer(s) = c
    BY DEF Sides, Peer
<1>2. CASE UNCHANGED allVars
    BY <1>2 DEF allVars, vars, OrderInv, IsForeign
<1>3. ASSUME NEW x \in Sides, HandStep(x) PROVE OrderInv'
  <2>1. x = c \/ x = s
    BY DEF Sides
  <2>2. IsForeign(s) => IsForeign(s)'
    BY <1>1, PhasesStay
  <2>3. phase'[c] \in {"new", "unreachable"} => phase[c] \in {"new", "unreachable"}
    BY <1>1, <1>3, <2>1 DEF HandStep, Alone
  <2>4. phase[s] = "new" /\ phase[c] \in {"new", "unreachable"} => phase'[s] = "new"
    BY <1>1, <1>3, <2>1 DEF HandStep, Alone
  <2>5. phase'[s] = "new" => phase[s] = "new"
    BY <1>1, <1>3, <2>1 DEF HandStep, Alone
  <2>6. ASSUME phase[s] = "new", phase'[c] = "failed", phase[c] # "failed" PROVE FALSE
    <3>1. x = c /\ Falters(c)
      BY <1>1, <1>3, <2>1, <2>6 DEF HandStep, Alone
    <3>2. ~gone[s] /\ net[s] = <<>> /\ phase[c] # "refusing"
      <4>1. Unsent(s)
        BY <2>6 DEF Unsent
      <4>2. TypeOf(c) /\ TypeOf(s) /\ Progress(s)
        BY <1>1, Parts
      <4>3. phase[c] \in Phases(c)
        BY <4>2 DEF TypeOf
      <4>4. phase[c] # "refusing"
        BY <4>3 DEF Phases, Returned, ForeignPhases
      <4> QED
        BY <2>6, <4>1, <4>2, <4>4 DEF TypeOf, Leaving, Progress
    <3>3. 1..Len(net[s]) = {}
      BY <3>2
    <3> QED
      BY <1>1, <3>1, <3>2, <3>3 DEF Falters
  <2> QED
    BY <2>2, <2>3, <2>4, <2>5, <2>6 DEF OrderInv
<1> QED
    BY <1>2, <1>3, AnyHandStep

\* What x reads begins with the message.
LEMMA ReadFirst ==
    ASSUME ProgressInv, NEW x \in Sides, NEW n \in 1..Len(net[Peer(x)]), got[x] = <<>>, NEW m,
           NEW q, IsSeq(q), Chain(x) = Join(Units(m), q)
    PROVE  ReadUnits(x, n)[1].msg = m
<1> DEFINE y == Peer(x)
           units == ReadUnits(x, n)
           more == Join(SubSeq(net[y], n + 1, Len(net[y])), Join(out[y], Join(todo[y], Rest(y))))
           u == Units(m)
<1>1. /\ IsSeq(units) /\ IsSeq(more) /\ Len(units) = Len(inbuf[x]) + n /\ Chain(x) = Join(units, more)
      /\ Len(net[y]) \in Nat /\ Len(inbuf[x]) \in Nat
    BY ReadParts
<1>2. IsSeq(u) /\ Len(u) = 2 /\ u[1].msg = m
    BY UnitsFacts
<1> HIDE DEF units, more, u
<1>3. \A i \in 1..Len(units) : (units \o more)[i] = units[i]
    BY <1>1, ConcatFacts
<1>4. \A i \in 1..Len(u) : (u \o q)[i] = u[i]
    BY <1>2, ConcatFacts
<1>5. 1 \in 1..Len(units) /\ 1 \in 1..Len(u)
  <2> DEFINE a == Len(inbuf[x])
             b == Len(net[y])
             d == Len(units)
  <2>1. a \in Nat /\ b \in Nat /\ n \in 1..b /\ d = a + n
    BY <1>1, Zenon
  <2> HIDE DEF a, b, d
  <2>2. 1 \in 1..d
    BY <2>1
  <2> QED
    BY <1>2, <2>2 DEF d
<1>6. units \o more = u \o q
    BY <1>1 DEF Join, u
<1>7. units[1] = u[1]
    BY <1>3, <1>4, <1>5, <1>6
<1> QED
    BY <1>2, <1>7 DEF units

\* The two sides are of this crate, nobody has given up, and there are not more
\* headers than fit.
Agreeable ==
    /\ \A x \in Sides : ~IsForeign(x) /\ phase[x] \notin {"undialled", "cancelled", "closed"}
    /\ ~(Len(build_request.headers) > MaxRequestHeaders)
    /\ ~(Len(SwitchingProtocols(Missing).headers) > MaxResponseHeaders)
AgreeInv == Agreeable => \A x \in Sides : phase[x] \notin {"failed", "refusing"}

\* Then the decoders accept the messages.
LEMMA MessagePasses ==
    ASSUME ProgressInv, HeadersInv, Agreeable, NEW x \in Sides, NEW y \in Sides, y = Peer(x), ~Unsent(y),
           phase[y] \notin {"failed", "refusing"}, NEW m, IsMessage(y, m)
    PROVE  ~Fails(x, m)
<1>1. /\ ~IsForeign(x) /\ ~IsForeign(y) /\ phase[y] \notin {"cancelled", "closed"} /\ x = Peer(y)
    BY Peers DEF Agreeable
<1>2. CASE x = "server"
  <2>1. y = "client" /\ m = build_request
    BY <1>1, <1>2 DEF IsMessage, Peer
  <2>2. ~(Len(m.headers) > MaxRequestHeaders) /\ ~m.bad
    BY <2>1 DEF Agreeable, build_request
  <2>3. /\ LastValue(m, "upgrade") = <<"websocket">> /\ LastValue(m, "connection") = <<"Upgrade">>
        /\ LastValue(m, "sec-websocket-version") = <<"13">>
        /\ LastValue(m, "sec-websocket-key") = <<"key", key>>
    BY <2>1, RequestHeaders
  <2>4. <<"key", key>> # Missing
    BY DEF Missing
  <2>5. ~RequestFails(m)
    BY <2>2, <2>3, <2>4 DEF RequestFails
  <2> QED
    BY <1>2, <2>2, <2>5 DEF Fails
<1>3. CASE x = "client"
  <2>1. y = "server" /\ phase[y] \in Phases(y)
    BY <1>3, Parts DEF Peer, TypeOf
  <2>2. phase[y] \in {"replying", "open", "closing", "shut"}
    BY <1>1, <2>1 DEF Phases, Returned, ForeignPhases, Unsent, IsForeign
  <2>3. m = SwitchingProtocols(digest(<<"key", key>>))
    BY <1>1, <2>1, <2>2 DEF IsMessage
  <2>4. m.code = 101 /\ ~m.bad
    BY <2>3 DEF SwitchingProtocols
  <2>5. FirstValue(m, "sec-websocket-accept") = digest(<<"key", key>>)
    BY <2>3, ResponseHeaders
  <2>6. Len(m.headers) = Len(SwitchingProtocols(Missing).headers)
    BY <2>3, ResponseHeaders
  <2>7. ~ResponseFails(m)
    BY <2>4, <2>5, <2>6 DEF Agreeable, ResponseFails
  <2> QED
    BY <1>3, <2>4, <2>7 DEF Fails
<1> QED
    BY <1>2, <1>3 DEF Sides

\* Then no side has left before the other could answer, and none falters.
LEMMA NoneFalters ==
    ASSUME FlowInv, HeadersInv, MetInv, Agreeable, NEW x \in Sides,
           \A z \in Sides : phase[z] \notin {"failed", "refusing"}
    PROVE  ~Falters(x)
<1> DEFINE y == Peer(x)
<1>1. /\ y \in Sides /\ x = Peer(y) /\ ProgressInv /\ Flow(x) /\ IsEnd(ends[y])
      /\ (gone[y] <=> phase[y] \in Leaving) /\ (gone[x] <=> phase[x] \in Leaving)
    BY Reader, Parts DEF TypeOf
<1>2. ASSUME gone[y] PROVE phase[x] \notin {"writing", "flushing", "reading", "replying"}
  <2>1. phase[y] = "shut"
    BY <1>1, <1>2 DEF Leaving, Agreeable, IsForeign
  <2>2. gone[x] \/ phase[x] \in Returned \/ IsForeign(x)
    BY <1>1, <2>1 DEF MetInv, MetOf
  <2> QED
    BY <1>1, <2>2 DEF Leaving, Returned, IsForeign
<1>3. ASSUME phase[x] = "reading", NEW n \in 1..Len(net[y]) PROVE ~Fails(x, ReadUnits(x, n)[1].msg)
  <2>1. got[x] = <<>> /\ (Nothing(x) \/ Lost(x) \/ Whole(x))
    BY <1>1, <1>3 DEF Flow, Pending, Unread
  <2>2. ~Nothing(x) /\ ~Unsent(y)
    BY <1>1, <2>1, ReadNothing
  <2>3. ~Lost(x)
    BY <1>2, <1>3 DEF Lost
  <2>4. PICK m : IsMessage(y, m) /\ Chain(x) = Join(Units(m), ends[y].queued)
    BY <2>1, <2>2, <2>3 DEF Whole
  <2>5. ReadUnits(x, n)[1].msg = m
    BY <1>1, <2>1, <2>4, ReadFirst DEF IsEnd
  <2>6. ~Fails(x, m)
    BY <1>1, <2>2, <2>4, MessagePasses
  <2> QED
    BY <2>5, <2>6
<1> QED
    BY <1>2, <1>3 DEF Falters

\* Every step keeps the agreement.
LEMMA AgreeStep ==
    ASSUME FlowInv, HeadersInv, MetInv, OrderInv, AgreeInv, [connNext]_allVars
    PROVE  AgreeInv'
<1>0. ProgressInv
    BY DEF FlowInv
<1> SUFFICES ASSUME Agreeable', NEW z \in Sides, phase'[z] \in {"failed", "refusing"} PROVE FALSE
    BY DEF AgreeInv
<1>1. \A w \in Sides : ~IsForeign(w) /\ phase[w] \notin {"undialled", "cancelled", "closed"}
  <2> SUFFICES ASSUME NEW w \in Sides PROVE ~IsForeign(w) /\ phase[w] \notin {"undialled", "cancelled", "closed"}
    OBVIOUS
  <2>1. (IsForeign(w)' <=> IsForeign(w)) /\ (gone[w] => phase'[w] = phase[w])
    BY <1>0, PhasesStay
  <2>2. gone[w] <=> phase[w] \in Leaving
    BY <1>0, Parts DEF TypeOf
  <2> QED
    BY <2>1, <2>2 DEF Agreeable, Leaving
<1>2. ASSUME added' = added, uri' = uri, key' = key
      PROVE  \A w \in Sides : phase[w] \notin {"failed", "refusing"} /\ ~Falters(w)
  <2>1. build_request' = build_request
    BY <1>2 DEF build_request, Added
  <2>2. SwitchingProtocols(Missing)' = SwitchingProtocols(Missing)
    BY <1>2 DEF SwitchingProtocols, Added, Missing
  <2>3. Agreeable
    BY <1>1, <2>1, <2>2 DEF Agreeable
  <2>4. \A w \in Sides : phase[w] \notin {"failed", "refusing"}
    BY <2>3 DEF AgreeInv
  <2> QED
    BY <2>3, <2>4, NoneFalters
<1>3. CASE UNCHANGED allVars
    BY <1>2, <1>3 DEF allVars, vars
<1>4. ASSUME NEW x \in Sides, HandStep(x) PROVE FALSE
  <2> DEFINE y == Peer(x)
  <2>1. (z = x \/ z = y) /\ y \in Sides /\ phase'[y] = phase[y]
    BY <1>4, Peers DEF HandStep, Alone
  <2>2. CASE added' = added
    <3>1. phase[x] \notin {"failed", "refusing"} /\ ~Falters(x) /\ phase[y] \notin {"failed", "refusing"}
      BY <1>2, <1>4, <2>1, <2>2 DEF HandStep, Alone
    <3> QED
      BY <1>4, <2>1, <3>1 DEF HandStep
  <2>3. CASE phase[x] = "new"
    <3>1. ~Falters(x)
      BY <2>3 DEF Falters
    <3>2. phase'[x] \notin {"failed", "refusing"}
      BY <1>4, <2>3, <3>1 DEF HandStep
    <3>3. CASE x = "client"
      <4>1. y = "server" /\ phase[y] = "new"
        BY <1>1, <2>3, <3>3 DEF OrderInv, Peer, Sides
      <4> QED
        BY <2>1, <3>2, <4>1
    <3>4. CASE x = "server"
      <4>1. y = "client" /\ phase[y] # "failed"
        BY <2>3, <3>4 DEF OrderInv, Peer
      <4>2. phase[y] \in Phases(y)
        BY <1>0, <2>1, Parts DEF TypeOf
      <4>3. phase[y] # "refusing"
        BY <4>1, <4>2 DEF Phases, Returned, ForeignPhases
      <4> QED
        BY <2>1, <3>2, <4>1, <4>3
    <3> QED
      BY <3>3, <3>4 DEF Sides
  <2> QED
    BY <1>4, <2>2, <2>3 DEF HandStep
<1> QED
    BY <1>0, <1>3, <1>4, AnyHandStep

\* Client and server of this crate fail to agree only if one of them was
\* cancelled or there are too many headers.
THEOREM BothAgree == connSpec => []HandshakeSucceeds
<1> DEFINE I == MetInv /\ OrderInv /\ AgreeInv
<1>1. connInit => I
  <2>1. connInit => \A x \in Sides : phase[x] \in {"new", "foreign"}
    BY DEF connInit, Init
  <2> QED
    BY <2>1, MetInit DEF AgreeInv
<1>2. FlowInv /\ HeadersInv /\ I /\ [connNext]_allVars => I'
  <2>1. FlowInv => ProgressInv
    BY DEF FlowInv
  <2> QED
    BY <2>1, MetStep, OrderStep, AgreeStep
<1>3. I => HandshakeSucceeds
    BY DEF AgreeInv, Agreeable, HandshakeSucceeds
<1> QED
    BY <1>1, <1>2, <1>3, ConnectionFlows, PTL DEF connSpec
=============================================================================
