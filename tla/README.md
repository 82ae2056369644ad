# Verification of tokio-websockets

TLA+ models of [tokio-websockets](../src/README.md), an asynchronous WebSocket
(RFC 6455) implementation, TLC configurations that check them on small
instances, and TLAPS proofs about the message stream, the handshake, the
connection of two ends, the frame queue with encoder and decoder, `decode` and
the UTF-8 validator. Paths like
`proto/stream.rs` are relative to `src/src/`; `PROJECT.json` maps every
definition that models code to its lines.

Check everything with `tlc -config X.cfg M` for each run of `PROJECT.json` and
`tlapm` for `SequenceFacts`, `DecodingFacts`, `WebSocketStreamProofs`,
`ConnectionProofs`, `ConnectionFlow`, `WireProofs`, `CodecProofs` and
`Utf8ValidatorProofs`; the longest take about six minutes each.

## 1. The system

| component | source | state | operations | modelled in |
|---|---|---|---|---|
| message stream, close handshake | `proto/stream.rs` | `StreamState`, `partial_payload`, `frame_queue`, `flushing_waker` | `poll_next`, `poll_ready`, `start_send`, `poll_flush`, `poll_close`, `limits_mut` | `WebSocketStream`, `Endpoint`, `Connection` |
| outgoing frame queue | `proto/stream.rs` | queue, `bytes_written`, `pending_bytes` | `push`, `chunk`, `chunks_vectored`, `advance` | `FrameQueue`, `Wire` |
| frame encoder | `proto/types.rs`, `proto/stream.rs` | none | `into_frames`, `encode`, `queue_frame` | `Framing`, `Wire` |
| frame decoder | `proto/codec.rs` | `fragmented_message_opcode`, `payload_processed`, the buffer | `decode`, `take_message_opcode` | `Codec`, `Framing`, `Wire` |
| UTF-8 validator | `utf8.rs` | a partial codepoint | `feed` | `Utf8`, `Utf8Validator` |
| masking | `mask.rs` | the key, changed in place | `frame` and its variants | `Mask`, `Codec` |
| client handshake | `client.rs`, `upgrade/server_response.rs` | builder headers, key, read buffer | `add_header`, `connect`, `connect_on` | `Handshake`, `Connection` |
| server handshake | `server.rs`, `upgrade/client_request.rs` | builder headers, read buffer | `add_header`, `accept` | `Handshake`, `Connection` |
| messages, payloads, close codes | `proto/types.rs` | none | constructors, accessors, `CloseCode` | partly: `Framing`, `Connection` |
| SHA-1 digest | `sha.rs` | none | `digest` | `Handshake` (an injective value) |
| TLS, resolver, random numbers, errors | `tls.rs`, `resolver.rs`, `rand.rs`, `error.rs` | none | forwarding | not modelled |

How they interact. `connect_on` and `accept` run an HTTP decoder in a
`FramedRead`; `from_framed` replaces the decoder and keeps the buffer.
`WebSocketStream::poll_next` asks the `FramedRead` for frames, which calls
`decode` on the buffer; `decode` unmasks in place and feeds the validator.
Replies (pong, close) and messages are encoded and masked by `queue_frame` into
`frame_queue`; `poll_flush` writes the queue to the transport. `poll_close`
queues a close, polls `poll_next` until the stream ends, flushes and shuts the
transport down.

What is hard. There are no threads in the crate, but several tasks of the
application (typically a reader and a writer, after `split`) poll one stream and
share the one waker the transport keeps per direction. Every `poll_*` may return
`Pending` at its transport calls, be polled again by another task, or never
again because its future was dropped. The transport writes partially, fails,
ends in the middle of a frame. The peer closes while we close. `decode` is
re-entered in the middle of a text frame after it has already changed buffer
and key. `PROJECT.json` lists each such hazard at its line with the properties
that watch it.

## 2. Modules

### WebSocketStream

The struct, the tasks and the transport. `state`, `frag`
(`fragmented_message_opcode`), `max_payload_len`, `partial`, `flushing_waker`
are the fields; `frames` is every frame ever queued, of which `popped` have left
`frame_queue` and `bytes_written` units of the first remaining one are written.
A frame takes two units of the transport's room, so it can be half written.
`job[t]` is the future task `t` awaits, `runnable` the woken tasks,
`read_waker`/`write_waker` the single waker the transport keeps per direction.

`poll_flush` is the operator `PollFlush` (write until Pending or empty, then
flush the transport, set or clear `flushing_waker`; a broken transport may take
part of the queue in the same poll before the write that fails, with an error or
with 0 bytes), used by its five callers.
`poll_next` and `poll_close` loop; `call` records the poll in progress and its
place, and each iteration is an action (`FrameTerminated`, `FrameAcknowledge`,
`FrameFlush`, `ReadPending`, `ReadEof`, `ReadIoError`, `ReadFrameError`,
`ReadControl`, `ReadData`, `CloseFlush`, `CloseShutdown`), so that the peer and the transport may move in
between while other tasks cannot: `&mut self`. A whole inbound frame stands for
what `FramedRead` hands out; `Rejected` is what `decode` says of it, the reasons
not represented (RSV bits, mask bit, UTF-8, close code) being an attribute of the
frame. `Cancel` drops a future, `SetLimits` is `limits_mut`.

`seen` (the opcodes of the data frames decoded), `opener`, `last`, `ended`,
`oversized`, `arrived` are history used by properties and bounds only.

### Endpoint

What one end promises about its frames and about closing, without polls, tasks,
wakers or partial writes: the four states of `StreamState`, the frames queued,
how many of them are written, how the stream ended. The effect of each event is
a value (`Queued`, `CloseReceived`, `PingReceived`, `Rejected`, `Written`,
`Acknowledged`, `Failed`). It is used twice: `WebSocketStream` implements it
(`End`, `ImplementsEndpoint`: `written` is `popped`, `queued` is `frames`), and
`Connection` is made of two of them.

### Framing, FrameQueue, Wire, FrameChannel

`Framing` has the bytes of a header: `encode`, the conversions of `OpCode`, the
mask bit and the key, `header_len`, and the header as `decode` reads it, with
its checks. 125, the 256 values of a byte of a length and the width of `usize`
are constants, so that the limits of all three length fields are met with short
payloads. `FrameQueue` is the queue and the chunks it offers to a transport that
takes any part of them; its frames are arrays of 14 header bytes and a payload.
`Wire` puts a sender and a receiver around it: `start_send` cuts a message into
frames, `queue_frame` encodes them and masks them with `Mask`, `DecodeFrame` and
`DecodeError` are the decoder. `Collect` is what `poll_next` does with the frame:
it keeps the opcode of an open message (`frag`) and its length (`partial`), and
refuses a fragment that makes the message longer than the limit, with both left
as they are. A payload byte carries the place in a message it
comes from, and as its value the key byte it is XORed with, so that a wrong
key byte, a byte of another frame or a header taken for payload is visible.
`FrameChannel` is the specification: what is queued arrives, once, in order.

### Codec, Utf8, Mask

`Codec` is `decode` over a buffer that fills piece by piece. It
represents the masking of a payload byte by the set of key bytes it is XORed
with (`residue`), so that unmasking twice or with the wrong key byte is visible,
and the content of text by byte classes. `Assemble` is what `poll_next` does with a
frame, as far as `decode` depends on it: the opcode of the open message is taken
with its last fragment, unless that fragment is refused as too long. `Utf8` contains the Unicode table of
well-formed sequences as the reference, `simdutf8` defined by it (external), and
`Validator::feed` translated. `Mask` computes which key byte each payload byte
meets for any address, length and block width; `Codec` unmasks with it, at any
of the given addresses each time a piece of a frame arrives.

### Handshake and Connection

`Handshake` has both sides, indexed by `"client"` and `"server"`. An HTTP message
takes two units on the wire so that it arrives in parts and together with the
frames behind it. `out` is what is written and not yet on its way: a TCP stream
sends it in time, a transport that `HoldsBack` (a `BufWriter`, TLS) may keep it
until it is flushed and loses it when it is dropped. `Init` may make one side
another implementation, which sends any message of `ForeignMessages`. Headers
are lists: the server keeps the last of a repeated name, the client looks at the
first.

`Connection` extends it with what comes next: when `connect_on` or `accept`
returns, the side's `Endpoint` takes over the buffer and the transport
(`from_framed`). `start_send`, `poll_close` (its first poll), `WriteFrame`
(`poll_flush`), `poll_next_frame`, `Acknowledge` and `poll_shutdown` (the end of
`poll_close`) are the operations, `WriteFails` and `ReadFails` their errors,
`DropStream` is a stream that is dropped. The phase of a dropped handshake is
`"cancelled"`, that of a dropped or failed stream `"closed"`. The transport takes `NetRoom` frames,
then writes are Pending. A side that leaves without a shutdown or with something
unread resets the connection, as TCP does. Another implementation sends any of
`ForeignFrames`, illegal close codes among them; `ErrorCode` is what the decoder
says to a frame, with the tables of `CloseCode`. A rejected frame stays in the
buffer.

## 3. Runs

Deadlock is not checked: the applications may stop polling, a failed connection
ends, and the bounds stop the peers.

| run | question | bounds |
|---|---|---|
| `stream_close` | are the frames written legal, nothing behind a close, a close acknowledged only when written, the state monotone? | a reader and a sender that closes, futures dropped; 2 frames from the peer, sends while fewer than 2 frames queued, room for 1.5 frames |
| `stream_assembly` | are fragments collected completely, limits respected, nothing read after an error, does `close()` end? | one task that reads and closes; 3 frames of 8 kinds, 2 limits moved between polls, end of file and reset at any time |
| `stream_wakers` | does a pending flush end, are pongs written, with reader and writer in two tasks? | 2 pings, threshold never reached |
| `wire` | is the byte stream preserved by partial and vectored writes, do the frames queued arrive unchanged, is only what is too long rejected? | 2 messages out of 8, with lengths 0 to 23 around the limits 2 and 3 of the length fields and beyond four digits, a frame size of 22, limits 21, 22 and 30 (22 lets every fragment of a message through that is too long as a whole), both roles, 3 slots, 2 alignments, with and without SIMD blocks |
| `utf8_validator` | does `feed` agree with whole-text validation? | 14 byte classes, texts of up to 5 bytes, pieces of up to 2 |
| `codec` | is what `decode` hands out plain and valid, what it rejects invalid? | 3 frames of 23 kinds, arriving in every way; payloads up to 10 bytes, length fields from 3 and 5, words of 4 bytes and blocks of 8 or none, two addresses off their boundaries |
| `connection` | do the sides agree, does the handshake end, do early frames survive, does an orderly close lose nothing, end without error, end at all? | every kind of URI, header limits 5 and 4 in place of 64 and 25, either side another implementation with 5 kinds of frames; sends while fewer than 2 frames are queued, frames too long for the peer in both directions, room for 1 frame, futures and streams dropped |

`stream_close` also checks the refinement `ImplementsEndpoint`, `wire` the
refinement `ImplementsChannel`. Frames are sent in `connection` for the plain
`ws` URI and no added headers only (`HasTraffic`): nothing behind the handshake
depends on them. A digit of a length has two values in `wire` (`Base` = 2). With
`UsizeBytes` = 8 the cast of a length to `usize` loses nothing; the mutant
`as_usize_32Bit` shows what is lost, and that the properties see it, when
`usize` has half as many digits as the length. No run does without the mutant: the
lengths of `wire` fit the `usize` of both ends.

`CloseReturns` names the one case in which `close()` does not return although
the peer is there and both applications go on polling: both ends reject a frame
of the other at the same time (each sends frames beyond the other's limit).
A stream that has rejected a frame only writes; if the transport is full in both
directions neither gets its close frame out. Without the exception TLC shows
exactly this, after 22 states. `OrderlyCloseLosesNothing` and `CloseIsClean` hold
without any assumption on scheduling: simultaneous closes, a close behind
queued messages, pings that cross a close.

The word of `fallback_frame` (8 bytes) and the SIMD blocks (16 to 64 bytes) are
scaled down with the payloads; what matters is that each is a multiple of the
four bytes of the key, which `WordAssumption` and `CodecAssumption` state.

The bounds are chosen so that the interesting cases happen: a frame half
written, a message in fragments behind a pong, a close from both sides, a
codepoint cut twice, a fragment too many for the limit, a header list one too
long. A longer connection repeats
them: the stream's behaviour depends on the frames only through the state, the
open message and the queue, and the proofs remove the bounds for every safety
property. Each property of a passing run is shown to be broken by a mutant, a
definition beside the translated one (`..._NoFlush` and the like) with a
plausible mistake.

### Disagreements between code and documentation

Five runs are expected to end in a violation.

* `stream_full_messages`: after `PayloadTooLong` for a continuation frame the
  stream stays open and drops the fragment only; a later fragment completes a
  message with a hole. If it is a text, what `Message::new` gets is not what the
  validator has seen, and need not be valid UTF-8.
* `stream_close_takes_waker`: in `ClosedByPeer` the reader flushes with its own
  waker and replaces the writer's, which the comment a few lines below wants to
  avoid; a pending `flush()` then hangs.
* `stream_stale_waker`: `flushing_waker` may belong to a task that is no longer
  flushing (`poll_ready` went on, or a future was dropped); the reader leaves
  that waker with the transport instead of its own.
* `codec_empty_end`: an empty final fragment skips the validator, so a text that
  ends inside a codepoint is delivered as valid, and its bytes are carried over
  into the next message.
* `handshake_unflushed`: `accept` does not flush its response, the mirror image
  of a bug the changelog lists as fixed for `connect_on`.

`Validator::feed` does the opposite of its doc comment in one case. The comment
(`utf8.rs:62-65`) says that it "returns `Ok` if the input is valid UTF-8, if
`is_complete` is true, even if the input has incomplete codepoints". The code
returns `Err(InvalidUtf8)` for an incomplete codepoint exactly if `is_complete` is
true (`utf8.rs:113`, and `basic::from_utf8` on the rest), and `Ok` if it is false. The
code is what `decode` relies on, so `SameAsWhole` of the run `utf8_validator` and the
theorem `AlwaysSameAsWhole` state what the code does; the comment has the two
values of the flag exchanged.

One more needs no run: the documentation of `server::DISALLOWED_HEADERS`
(`server.rs:24`) lists `host`, the constant below it does not, so `add_header` of
the server accepts it; no client of the crate minds.

The passing runs keep away from these cases on purpose, and only by their
constants: `stream_wakers` has no peer close and a threshold never reached,
`codec` has no empty last fragment, the transport of `connection` holds nothing
back.

### Fairness

`FairSpec` of `WebSocketStream`: a poll that was started runs to its end
(`WF InCall`: polls do not block); a woken task is polled
(`SF TaskPolled(t)`, strong because polls of other tasks disable it over and
over while they hold the stream: the executor's queue is fair); the transport
drains while it stands (`WF Drain`). `ClosingSpec` adds that the peer closes its
side in the end, without which `close()` may rightly wait. `FairSpec` of
`Handshake`: both handshakes are run, a transport that does not hold back sends
what was written (`WF Spill`), and another implementation does not keep a
connection open for ever in silence. `connFairSpec` of `Connection` adds that an
application polls its stream until it has ended (`WF Polls(x)`), and then closes
it: a task that awaits `next()` or `close()` does just that. Here the peer's
answer to a close is not assumed, it follows from the peer being this code, or
leaving. Sending messages and dropping futures are
never fair, nor is spilling the buffer of a transport that holds back.

## 4. Proofs

`WebSocketStreamProofs` proves, for all tasks, messages, frames, limits, sizes
and every value of the bounds:

* `TypeCorrect`: `Spec => []TypeOK`;
* `CloseInvariant`: `Spec => []CloseInv`, and from it `NothingQueuedAfterClose`,
  `AcknowledgedOnlyWhenWritten`, `ShutdownOnlyAfterFlush`,
  `NoReadAfterDecoderError`;
* `StateOnlyMovesForward`: `Spec => StateMovesForward`.

It also proves `StreamImplementsEndpoint`: `Spec => ImplementsEndpoint`, that every step of `WebSocketStream` is a step of `Endpoint` or leaves it alone.
The initial states agree; a step is cut by what it does to the queue. A flush,
from whichever of its five callers, is `Write` or `Fail` (`FlushIsStep`,
`FailureIsStep`), a message is `Send` (`SendIsStep`: the frames of a message hold
a close exactly if it is one), replies are `Read` (`CloseAnswerIsStep`,
`PongIsStep`, `AcknowledgedIsStep`, `AnsweredIsStep`), and `FrameAcknowledge` is
`Acknowledge`. `CloseInv` is needed for the replies: that a poll at its read is in
`Active` or `ClosedByUs` is what the abstract `Read` asks for.

The only assumption is `StreamAssumption` on the constants, which TLC evaluates
in every run. None of the four safety properties is inductive alone. A frame may
be queued in `Active` and by the two replies, so "nothing after a close" needs
"no close is queued in `Active`"; a reply is queued by a poll that is past its
test of the state, so the invariant relates the place of the poll to the state
("at the read, the state is `Active` or `ClosedByUs`"); an acknowledged close is
written because in `ClosedByPeer` a close is the last frame queued and
`poll_flush` returned Ready with an empty queue; a shutdown comes after the loop
of `poll_close`, which never runs in `Active`. `CloseInv` is the conjunction.
The step is proved once per kind of action: `QuietStep` for actions that queue
nothing, `QueueStep` for those that do, with `PollFlushEffect` and
`MessageFramesClose` for what a flush does to the queue and what frames a
message has.

And it proves what is said about whole messages:

* `OutgoingIsWellFormed`: `Spec => []OutgoingWellFormed`. Alone it is not
  inductive: it must also hold that no message is open at the end of the queue
  (`OutgoingInv`), which is so because `start_send` queues all frames of a message
  in one call. `FramesStep` lists what a step can queue, `ControlQueued` and
  `MessageQueued` say what each does to a well-formed queue.
* `DeliveredIsAlwaysLegal`: `[]DeliveredIsLegal`. A delivered message has the opcode
  of its first frame, the others are continuations, holes or not. The invariant
  (`LegalInv`) says the same of the open message with the decoder's
  `fragmented_message_opcode` as its opcode (`Spells`); it is kept because `decode`
  rejects a data frame that opens a message in another one.
* `PartialIsAlwaysComplete`: `[]PartialIsComplete`. The invariant (`PartialInv`)
  numbers the fragments from the one that opened the message to the last one seen.
  From it follows also
  `OnlyTooLongLeavesHoles`: the case of the run `stream_full_messages` is the only
  one in which a delivered message has a hole.

### The connection

`SequenceFacts`, `ConnectionProofs` and `ConnectionFlow` prove every safety
property of the run `connection`, for every set
of headers and URIs, all limits, all frames either side may send and both kinds
of transport (`HoldsBack` or not), and without the bounds on the traffic:
`LeftoverReachesStream`, `NoHalfOpen`, `HandshakeSucceeds`,
`OrderlyCloseLosesNothing`, `CloseIsClean`, `CloseCodesAreLegal`. The assumptions
are `HandshakeAssumption` and `ConnectionAssumption` on the constants, which the
runs evaluate. The invariants below were first checked by TLC in the instance of
the run `connection`, with a transport that holds back and one that does not.

`SequenceFacts` has facts about sequences whose elements need no common type: what
is on a transport is HTTP first and frames then. Putting together, cutting off,
what can be cancelled, and what does not change when the border between two
sequences is moved (`MoveHead`, `MovePart`, `MoveAll`). `FlattenSeq` and the parts
of a sequence follow; the other proofs use them too.

`ConnectionProofs`: `ConnectionProgress`, `connSpec => []ProgressInv`. Types, and
what a phase says of the buffers: a side that has not begun has nothing on its
way, only a handshake that still writes has something to write, only a stream
that was returned has frames. What each action does is stated once (`...Effect`),
and the two layers above use these lemmas in place of the actions. The module
also has the steps of the handshake for the next layer.

`ConnectionFlow`, first part: `ConnectionFlows`, `connSpec => [](FlowInv /\ HeadersInv)`. Let
the chain of a side be what it has got, has in its buffer and will get: the
transport, what its peer has written and not flushed, what it still has to write
of its message, and its queue. While a side waits for the message of its peer
(`Pending`), the chain is this message and then all frames the peer has queued,
or nothing was sent, or the peer left with part of its message. When it has taken
the message (`Taken`), the chain is exactly the frames the peer has queued. Almost
every step moves a border inside the chain. The difficult ones are the end of a
handshake, which takes the message and leaves the rest in the buffer
(`ReadAccepts`), and a peer that drops what it has not flushed (`SenderLoses`).
`LeftoverIsKept` is the second part; `NoneIsHalfOpen` needs that what a client
takes for a response 101 was sent by a server past its reading, and so what the
headers of a message say (`HeadersInv`: an added header never has a name the
handshake uses, `RequestHeaders`, `ResponseHeaders`).

`ConnectionFlow`, second part: every step is one of six kinds as the streams see it
(`AnyStep`). `CloseCodes` needs only that. `CloseInv` says of the exchange of close
frames: an end that is `Active` has queued none, nothing is queued behind one, an
end that has got one reads nothing more, and has then got all its peer has queued
(this is where the chain is needed: behind the close frame nothing is in the
chain). `OrderlyClose` follows. `CleanInv`: as long as the peer has not left without
a shutdown and no frame was refused, a stream has no error, and has shut its
transport down only after both close frames; an end of input without a close
frame cannot come first because a peer that has shut down has queued a close
frame, which is still in the chain. `CleanClose` follows. `BothAgree` needs who
comes first (`OrderInv`: nobody accepts before somebody connects), that whoever has
ended has met its peer (`MetInv`), and that what arrives first is the message of
the peer, which the decoder accepts if it has room for the headers
(`ReadFirst`, `MessagePasses`).

Two places of the model were made more precise for these proofs. The arms of the
`CASE` in `poll_next_frame` overlapped in the formula, although TLC took the first
that held, as the code does; they exclude each other now. And
`ConnectionAssumption` says that the frames an application sends are frames.

### From a message to bytes and back

`WireProofs` proves every property of the run `wire`, for all messages, frame
sizes, limits, both roles, any number of slices, every address and block width,
both widths of `usize` and every way the transport takes and delivers the bytes.
The assumptions are `WordAssumption`, `FramingAssumption`, `QueueAssumption` and
`WireAssumption`; the last one says that the length of a message is a `usize`, and
what the constructors of control messages guarantee.

* `WireIsAlwaysPrefix`, `PendingIsAlwaysExact`, `OfferIsAlwaysNext` rest on
  `QueueInv`: the bytes pushed are the bytes on the wire and then what is left of
  the queue, that is, its bytes without the first `bytes_written`. The work is in
  `advance`, which pops as many whole frames as were written, and in
  `chunks_vectored`, whose slices together begin what is left.
* `ChannelInvariant`: `Spec => []ChannelInv`. Beside `QueueInv` it says that the
  frames sent are orderly (a continuation only in an open message), that their payloads follow each other
  in their message (`Placed`) and their bytes are what was pushed (`SentInv`), and
  that the frames received are the first ones of them and the bytes consumed theirs
  (`ReceivedInv`). `OpenInv` says what the decoder knows of an open message: when the
  frames received leave one open, `frag` is its opcode; the converse, and that
  `partial` is its length, hold as long as no message was longer than the limit,
  since `PayloadTooLong` leaves both as they were. So what is behind the consumed bytes starts with the bytes
  of the next frame, whole or cut. For such a buffer `decode` is the inverse of
  `encode` and the mask: it reads the same opcode, flag and length from the shortest
  of the three fields, finds the payload at the same place and undoes the mask
  (`DecodesHead`, `DecodesLength`, `DecodesFrame` and the lemmas behind them).
  `OnlyTooLongIsRejected` and the refinement `WireImplementsChannel` follow.

`DecodingFacts` proves what `mask::frame` computes (`MaskRepeats`): a prefix up to a
boundary, blocks and a suffix, prefix and suffix again cut at words, together
repeat the key over the payload, since words and blocks are multiples of four,
and leave it rotated by the length of the payload.

### The text

`DecodingFacts` also has what `Validator::feed` computes. `ValidUpTo` is a recursive
function; `ScanExists` shows that there is such a function for every text, and
`ScanFacts` what it satisfies. The central fact is `RestConcat`: what is left of
`a \o b` behind its last whole codepoint is what is left of `Rest(a) \o b`, so that a
validator need only remember `Rest(a)`. From it and the cases of the code follows
`FeedFacts`: if `feed` has `Rest(t)` in store, it says of a piece `x` what `from_utf8`
says of `t \o x`, and stores the rest of that.

`Utf8ValidatorProofs` proves the three properties of the run `utf8_validator` for
texts and pieces of any bytes and any length.

`CodecProofs` proves the four properties of the run `codec`, for all sets of frames,
limits, lengths, addresses and block widths, and for both roles, from
`CodecAssumption` and `WordAssumption`.

* `SourceInvariant`: while `decode` has returned no error, the first frame in the
  buffer is unmasked up to `payload_processed` and masked behind it, and the key in
  the buffer is the key of the header rotated by as many bytes. `PieceFacts` is the
  step: unmasking from there with this key, at whatever address, makes a longer
  piece plain and leaves the key for the next. `PayloadIsAlwaysPlain` and
  `ProcessedIsAlwaysInBuffer` follow, for valid and invalid frames alike.
* `TextInvariant`: the validator has seen exactly the open text message up to
  `payload_processed` (`Seen`), this is not malformed, and the partial codepoint is
  its rest. It needs `SourceInvariant`, since the validator sees the unmasked bytes.
  `TextIsAlwaysValid` and `Utf8ErrorIsAlwaysReal` assume `NoEmptyEnd`, that the
  peer ends no fragmented message with an empty frame. Without this the first is
  false, as the run `codec_empty_end` shows; the frames of the run `codec` satisfy
  it. So an empty last fragment is the only way for an invalid text to pass
  `decode`. It is not the only way to an invalid `Message`: `poll_next` may have
  dropped a fragment of the text that `decode` has seen (`stream_full_messages`).

The invariants `ChannelInv`, `SourceInv` and `TextInv` were first checked by TLC in the
instances of the runs.

Induction over the length of a text, a queue or a message does not use the
library's induction rules, whose parameter is an operator; `Induction` and
`DownInduction` derive what is needed for a set of numbers from its least element.

### Only model-checked

The liveness properties (`CloseEnds`, `FlushEnds`, `QueuedIsWritten`, `ConnectEnds`,
`AcceptEnds`, `CloseReturns`): liveness under fairness is beyond the prover. Every
other property of a passing run is a theorem.

## 5. Not modelled

TLS, DNS, random numbers, the inside of SHA-1 and base64 (libraries; the digest is
an injective value), the parser of HTTP (a message is parsable or not), constructors
and accessors of messages, the texts of errors and of close reasons, allocation.
The queue of pongs has no limit in the code; the model only bounds what the
peer sends. Timers do not occur in the crate: an application that wants a
timeout drops a future, which is modelled. `get_mut` and `into_inner` hand the
transport out and leave it to the caller.

## 6. Plan

Modelling is complete as far as the crate keeps state, and every safety property
of a passing run is proved. What is left would join the layers: that `Codec` and the
decoder in `Wire` are one, with text and control frames on the same wire, and
that `Connection` with frames as its units is what two `Wire`s and two streams
implement.
