# A TLA+ verification of lumberjack-protocol

The repository implements the Lumberjack v2 protocol: a `Client` that ships
batches of events over TCP (or TLS) and waits until they are acknowledged, and a
`Server` that hands the batches of many connections to one application through a
bounded channel and acknowledges them when the application is done. These modules
model both sides with every await, error path and timeout, check them with TLC on
small instances and prove with TLAPS, for all of them, everything the passing runs check but
liveness, the refinements of `Delivery` and `FramePipe` included: the server's bookkeeping, what `send` and `recv` promise
together, each side against a peer that does what it likes, the codec on bytes, and the
port scan.

Paths such as `client.rs:177` are under `src/src/`. The design document is
`src/docs/superpowers/specs/2026-04-09-lumberjack-rs-design.md`.

## The system

| Part | State | Operations | Talks to |
|---|---|---|---|
| `Client` (`client.rs`) | `Framed` with its write buffer, settings | `connect`, `send` (which may be cancelled), `close`, drop | the stream |
| port scan (`connect_with_port_range`) | loop counter, random offset | one scan | the kernel's port table |
| connection handler (`run_connection`, one task per connection) | `window`, `events`, `last_seq`, `ack_rx` | read a window, collect, dispatch, wait with keepalives, acknowledge | the stream, the mpsc channel, one oneshot per batch |
| `Batch` | events, `last_seq`, the oneshot sender | `ack`, drop, `into_events` | the handler that made it |
| accept loop and `Server` | listener, shutdown oneshot, gauge, channel receiver | accept, stop, `recv`, drop | the handlers, the application |
| `Frame`, `LumberjackCodec` | none | encode, decode under a limit | used by both sides |

A batch travels: `send` writes `Window(n)` and the events (as `J` frames or inside
one `C` frame) and reads frames until an `Ack(seq)` with `seq >= n`; the handler
collects `n` events, sends a `Batch` through the channel and waits for the oneshot
inside it, writing `Ack(0)` at every keepalive interval; the application receives
the `Batch` and acks or drops it; the handler writes `Ack(last_seq)`.

What is hard about it: the two ends write into bounded pipes; a call may be cut
short by a timeout, an error or a dropped future, and leaves bytes behind; the
acknowledgement races the keepalive; the Server may be dropped while connections
are being accepted and batches are in the channel; and sequence numbers restart
at 1 in every batch, so an `Ack` does not say which batch it is for.
`PROJECT.json` lists each such place under `hazards`, with the properties that
watch it.

What makes each part correct: `send` says Ok only for what was delivered and
resolved; the handler delivers what is on the wire, whole batches, once; every way
of getting rid of a `Batch` releases its handler exactly once; the gauge counts the
live tasks; `recv` returns `None` only at the very end; the port scan tries every
port before giving up and stays in its range; nothing waits forever that need not.

## The modules

| Module | What it is |
|---|---|
| `Frames` | the frame values, their encoded lengths, the size limits of `decode_with_limit` |
| `Transport` | external: per-connection FIFO pipes of bounded capacity, ends that close, links that fail |
| `Client` | `ClientBuilder::connect` and `Client` |
| `Connection` | `run_connection`, `Batch` and the oneshot |
| `Server` | the accept loop, the gauge, `Server`; the server's inductive invariant `ServerInv` |
| `Lumberjack` | clients and server composed; end-to-end properties, fairness |
| `AnyPeer` | the server with peers that write any frames |
| `AnyServer` | the client with a server that answers anything, or nothing |
| `Delivery` | abstract: what `send` and `recv` promise together; `Lumberjack` implements it |
| `TimedKeepalive` | `Lumberjack` on a clock: `ack_timeout` against the keepalive interval |
| `TimedClient` | `AnyServer` on a clock: `write_timeout` and `ack_timeout` |
| `FrameCodec` | `encode`, `decode_with_limit` and `zlib_decompress` on bytes |
| `FramedStream` | one direction of a `Framed<S, LumberjackCodec>` over a byte stream |
| `FramePipe` | abstract: the FIFO of whole frames that `FramedStream` implements and `Transport` assumes |
| `PortScan` | `connect_with_port_range` |
| `MC...` | instances for TLC |
| `ServerProofs`, `ClientProofs` | what each side's steps preserve |
| `WireProofs` | the server's bookkeeping, and what is on the wire between the two program counters of a connection |
| `DeliveryProofs` | the end-to-end theorems: the refinement of `Delivery`, what is delivered after an error, and the keepalive on a clock |
| `AnyPeerProofs` | the server against any peer: its bookkeeping, and what `recv` makes of the wire |
| `TimedClientProofs` | the client against any server, on a clock |
| `FramedStreamProofs` | the codec, the stream of bytes and the refinement of `FramePipe` |
| `PortScanProofs` | the port scan |

`Client`, `Connection` and `Server` each own their variables and say nothing of the
others'; `Lumberjack`, `AnyPeer` and `AnyServer` put them together by interleaving,
with `UNCHANGED` for the other side. The two timed modules reuse the actions of the
module they extend and add a clock. `FrameCodec` and `FramedStream` stand below the
rest: they justify that the other modules speak of frames and not of bytes. `map` in
`PROJECT.json` gives the source lines of every definition. Operators commented "Mutant
of ..." are wrong versions of the definition that follows them, used to show that the properties can fail.

### Correspondence

*Frames.* A payload is opaque to the protocol; an event is a record with its size
and, as a ghost, the send and position it came from. A `C` frame holds its inner
frames; a tail that does not decode is a frame of type `X` carrying the error
`framed.next()` or `decode_with_limit` would give (a compressed frame inside a
compressed frame is refused like any frame that is not `J`). A `J` payload is
limited by its size, a `C` payload by its compressed and its inflated length;
`Deflated` is a parameter, since zlib may shrink data or lengthen it slightly. The
errors of `connect` (`InvalidConfig`, `NoLocalPortAvailable`) appear in `PortScan`.

*Client.* `cpc` is the await the current call is at. `Send` is the synchronous
prefix of `send`; `Feed` one `framed.feed`, which first drains a buffer that has
reached the boundary (`drain`); `WriteOut` moves one frame to the socket; `Receive`,
`ReceiveEnd` and `AckTimeout` are the ack loop. `Cancel` drops the future of a `send` at
one of its three suspension points and keeps the Client; no error is returned then, and the
history records `"Cancelled"`. The uncompressed path decodes every
frame again before feeding it, under the client's default limit, and fails there
with the Window already fed: `FeedOn`. `Return` keeps the write buffer, as the code
does. `Drop` (the Client goes, or the future of `connect` or `close`, which own the
stream) loses it and may leave a torn frame. `sent` and `outcome` record the
calls. An application in `Cancelling` may cancel a `send`; one in `Reusing` sends again
after an error or a cancelled `send`; the others give the Client up then, after any error
but `Serialization`, which leaves nothing behind.

*Connection.* One value of `spc` per suspension point. `ReadWindow` includes the
test at the head of the collection loop (`Window(0)` is complete at once). `Collect`
is one turn of the loop with the whole inner loop over a compressed frame, whose
faults are reported for the first bad frame. `KeepaliveDue` needs an empty oneshot
because `select!` is `biased`; while `Ack(0)` is written the oneshot is not polled.
`Finish` drops the stream and the sender; the `ActiveGuard` goes later (`TaskEnd`). The
error of a failed TLS handshake is an `Io` error like the others; `result` keeps it apart
as `"Handshake"`, because only it needs no broken stream to explain it.
The branch for a oneshot whose sender is gone (`server.rs:185`) cannot be reached,
since every drop of a `Batch` sends, and is not modelled: the mutant `AckForgotten`
therefore leaks the sender, which leaves the oneshot open.

*Server.* `Shutdown` and `CloseReceiver` are the two stages of dropping a `Server`
(first the shutdown oneshot in `Drop`, then the fields, `rx` first); an accept that
was being polled may still win once (`"stopping"`). A connection that failed in the
backlog may still be handed out by `accept` (`InBacklog`), to a task whose first read or
handshake then fails. `DropQueued` drops the batches in
the channel, which acknowledges them; they are recorded in `lost`, what `recv`
returned in `got`.

*PortScan.* `Begin` is what `connect` does first: the range check, the lookup, which may fail
or bring no address, and the random offset. `Try` is one turn of the loop: the socket may not
be had (`?` ends the scan), `bind` or `connect` may refuse the port (`Refused`, the scan goes on), or
`connect` succeeds or fails for another reason. Bound to port 0 the socket has a port of
the kernel's choice (`BoundTo`), which `connect` may refuse like any other. The tables of
the kernel (`busy`, `taken`) do not change during a scan.

*FrameCodec.* Bytes are numbers, u32 is four of them, big endian. `DecodeWithLimit`
returns the item and the buffer it leaves, so that what a call consumes on each of its
returns is visible: nothing on `Ok(None)` and on a bad header, the whole frame on
success, and on a payload that does not inflate. `Zip` and `Unzip` stand for flate2;
`Unzip` gives the bytes that come out and whether the reads then end or fail, so a
payload that is cut off (which flate2 takes for a shorter one), one that is corrupt
from the start and one that fails half-way are all instances.

*FramedStream.* `Bytes` and `Decode` are the two methods of the codec (`Foreign` adds
byte strings that no frame of this crate encodes to); the actions
around them are how tokio-util calls them: a piece is read only after the codec said
`Ok(None)`, `decode_eof` makes left-over bytes an I/O error, nobody reads on after an
error. `stream`, `starts` and `begins` are history: every byte that was written to the
stream, and where in it each item that was returned and each frame that was fed begins.
The mapping to `FramePipe` counts a frame as having crossed (`HasCrossed`) when the bytes
in the stream are enough to decode or to refuse it: a frame above the limit is refused
from its header alone.

*Delivery.* The mapping: submitted and reported are `sent` and `outcome`; delivered is
what `recv` returned, what was dropped with the Server and what is in the channel;
released is how many of those are in neither the channel nor the application's hands.

*Time.* In the timed modules a timeout or a keepalive happens exactly when its timer
is full, timers start again where the code creates a new `timeout` or `sleep`, and a
`Tick` is possible only when the runtime has nothing to do and nothing is due: work
and transmission are taken to be short against the timeouts. `timeout` polls what it
wraps first, so data that is there wins over a deadline. What the runtime has to do is
written in terms of the state (`ClientReady`, `HandlerReady`, `ServerReady`), one case
for each await. Elsewhere a timeout may fire at any moment.

*Transport.* Assumed: bytes arrive in order; a writer waits while the pipe is full;
what is written to a closed end is lost or fails; a reader gets what is in the pipe
before the end of the stream; closing a receiver of the mpsc channel drops all it
holds. The links in `Flaky` may fail at any moment, which also covers the reset the
kernel sends when a stream is closed with unread data.

## The runs

| Run | Instance | Shows |
|---|---|---|
| `plain` | one uncompressed client, two sends of up to three events, pipes of one frame, payloads above either limit, flaky link, timeouts, cancelled sends, keepalive, accept errors, shutdown, with fairness | `ImplementsDelivery`, `CloseTerminates`, `HandlerEndsAsExpected`, `NoMutualBlocking`, `QuiescentWhenIdle`, `NoneIsFinal`, `TypeOK` |
| `packed` | the same, compressed, over TLS, pipes of two frames | `AckedIsDelivered`, `HandlerEndsAsExpected`, `SendTerminates`, `ConnectionReclaimed` |
| `two_clients` | two clients (one compressed, whose sends may be cancelled), one channel slot, on a clock: `ack_timeout` of four ticks, keepalive of two | `ImplementsDelivery`, `NoLostAck`, `GaugeExact`, `KeepaliveProtects` |
| `reuse` | `plain` without fairness, pipes of two frames, with an application that keeps sending after errors and cancelled sends | `DeliveredInOrderOnce`, `OneOutstanding`, `NoLostAck` |
| `stale_ack` | the same application | violates `AckedIsDelivered` |
| `dropped_server` | one client, one send, no faults | violates `OkMeansReceived` |
| `live` | two clients, pipes of one frame, one channel slot, no timeouts, no cancelled sends | `SendTerminates`, `ConnectionReclaimed`, `ListenerStops` |
| `any_peer` | any four of fifteen frames | `NoLostAck`, `AckCoversWindow`, `DeliversTheWire` |
| `any_server` | two sends, up to three of five answers, on a clock: both timeouts of two ticks | `OkAtFirstCoveringAck`, `WritesBatches`, `TimeoutsBoundSend`, `WritePhaseBounded` |
| `framing` | two of seven frames and five malformed byte strings, every cut, a writer dropped at any byte | `ImplementsPipe`, `EveryFrameArrives`, `CutIndependent`, `BufferBounded`, `FramesArriveInOrder` |
| `ports` | all ranges, offsets, busy and taken ports with a 5-value u16, lookups and sockets that fail | `GivesUpOnlyWhenExhausted`, `LocalPortInPositiveRange` |
| `port_zero` | the same | violates `LocalPortInRange` |

Bounds. `MaxSends = 2` is the first number at which something of an earlier batch can
meet a later one; batches of two events are the first that can be on the wire in
part. `PipeCap` is 2 frames, less than an uncompressed batch of two events, or 1, less
than any batch, so that writers block; with `PipeCap = 1` three events are the first of which one can be
with the handler, one in the pipe and one in the write buffer of a client that is closing, which is where a
`close` depends on a handler that reads on (`CloseTerminates`); `Boundary` of 1 or 2 makes `feed` drain inside a
batch; `ChannelCap = 1` makes the channel full with one batch. `U32 = 8` is above every number in the instances. Four frames let a peer write
two batches, or one from three frames, and one frame more. With `U16 = 5` the ranges
include one port, the last port, all ports, and port 0. The ratio of `ack_timeout` and
keepalive is that of the defaults (30 s and 15 s). The frames of `framing` are at and
one byte above the limit of 3, before and after deflating, with numbers that use all
four bytes; two frames are the first to meet in one buffer, and the stream holds 12
bytes, less than two `J` frames. TLC's integers end at 2^31, so no byte string makes a
larger length.

Deadlock is checked in every run; the only states without another step are those where
everything has ended, which have a stuttering disjunct of their own (`Terminated`,
`Quiet`, `Over`, `Returned`) or, on a clock, where only time goes on.

Fairness (`live`, `packed`, `plain`). The runtime polls a task that can go on: weak fairness for each
client call, each handler, the accept loop, the drop of a Server. The channel's
semaphore is first come, first served: strong fairness for `Dispatch`. The application
calls `recv` and resolves each batch it holds eventually. Nothing is assumed about
sending, cancelling, closing, timeouts or links. `any_server` assumes only that the client's own
task runs and that time goes on. `framing` assumes that both halves are
polled, that is, that bytes which can move do; nothing makes a writer write or close.

### What the violations show

`stale_ack`: `send` times out waiting for an Ack; the application sends again on the
same Client; the late Ack of the first batch has `seq >= n` and the second `send`
returns Ok while the server has not read the batch. The design says that the client
is unusable after a timeout and that the next call returns an error (lines 308, 309);
the code does not make it so. Run `reuse` shows that the server side stays right even
then: batches are neither mixed nor repeated, only the client's report is wrong. A `send`
whose future was dropped leaves the same Ack behind.

`dropped_server`: the batches still in the channel are dropped with the receiver, and
`Drop for Batch` acknowledges them. The client is told Ok for events nobody received.
The design gives this fallback to a `Batch` that the user drops (line 212).

`port_zero`: with port 0 in `local_port_range` the scan binds port 0 and the kernel
chooses, so the connection leaves from a port outside the range, one that is neither bound
nor refused by `connect`.

Two properties hold only in the form in which they are stated, and what they leave out
is worth knowing. `KeepaliveProtects` speaks of a batch that is in the channel or with
the application: a handler that waits for room in the channel sends no keepalives, so
that with another connection's batch in the channel and a slow application `send`
fails with `AckTimeout` although the server is alive, and the batch is delivered later
all the same (the design, line 238, wants the keepalive to prevent that).
`WritePhaseBounded` counts one `write_timeout` for each frame and one for the flush:
each `feed` has a timeout of its own, where the design (line 308) has one timeout wrap
the phase.

## The proofs

Every invariant, every action property and both refinements of the passing runs are
theorems, for every value of the constants; only the liveness properties are left to TLC. What is assumed of them is in the `ASSUME`s of the modules that declare them, and TLC
evaluates each on the instances:

| Assumption | Says |
|---|---|
| `U32Assumption` | a u32 with at least one value |
| `TransportAssumption`, `ConnectionAssumption`, `ServerAssumption` | finitely many connections, positive capacities |
| `ClientAssumption`, `BuilderAssumption` | batches shorter than 2^32 events; the settings are settings of connections |
| `PeerAssumption`, `AnswersAssumption` | what the other side writes are frames; what fails to decode fails with an error of the decoder |
| `TimedClientAssumption`, `TimedAssumption` | timeouts and keepalive intervals of at least one tick |
| `FramedAssumption`, `FramesAssumption` | numbers and payload lengths of 32 bits, payloads of bytes, a zlib that gives back what it was given, and foreign bytes that the protocol refuses |
| `PortAssumption` | a u16 with at least one value |

`Refused` in `FramesAssumption` says which foreign bytes are meant and why each is
refused (another version, an unknown type, a length above the limit, a payload that does not inflate or
inflates too far), in terms of the bytes and not of the decoder.

| About | Theorems |
|---|---|
| the server's bookkeeping (`Lumberjack`) | `[]TypeOK`, `[]OneOutstanding`, `[]NoLostAck`, `[]GaugeExact`, `[]NoneIsFinal` |
| the server against any peer (`AnyPeer`) | `[]NoLostAck`, `[]GaugeExact`, `[]OneOutstanding`, `[]AckCoversWindow`, `[]DeliversTheWire` |
| the client against any server (`TimedClient`) | `[]OkAtFirstCoveringAck`, `[]WritesBatches`, `[]WritePhaseBounded` |
| the wire (`Lumberjack`) | `[]WireInv`, `[]NoMutualBlocking`, `[]QuiescentWhenIdle`, `[]HandlerEndsAsExpected` |
| end to end (`Lumberjack`), whatever the applications do | `[]DeliveredInOrderOnce` |
| end to end (`Lumberjack`), when `Reusing = {}` | `[]AckedIsDelivered`, `ImplementsDelivery` |
| the keepalive (`TimedKeepalive`), when `Keepalive` and `Interval < AckLen` | `KeepaliveProtects` |
| the codec and the stream (`FramedStream`) | `[]CutIndependent`, `[]BufferBounded`, `[]FramesArriveInOrder`, `ImplementsPipe` |
| the port scan (`PortScan`) | `[]GivesUpOnlyWhenExhausted`, `[]LocalPortInPositiveRange` |

`Reusing = {}` says that every application gives a Client up after an error, as the
design asks, or after a cancelled `send`. Without it `AckedIsDelivered` and with it the refinement are false, which
is what run `stale_ack` shows. `Interval < AckLen` is the relation of the two defaults; with an interval of
`ack_timeout` or more, or without keepalives, the application's delay alone makes `send` time out.

*Bookkeeping.* None of these is inductive alone. `ServerInv` joins them with two facts.
`LinkPhase`: a connection that has not been accepted has no task; without it an
`Accept` could restart a task whose batch is still out, and the gauge would count it
twice. `CollectRoom`: a handler that collects misses an event, which gives the inner
loop its room. `OneOutstanding` and `NoLostAck` need each other: that a
handler which dispatches has no other batch out is `NoLostAck` read from the other
side, and that resolving a batch fills an empty oneshot is `OneOutstanding`.
`ServerProofs` has one lemma per action of the handler
and the server, and `EnvironmentPreserves`: whoever leaves the server's variables
alone, keeps the types of the pipes and never takes a link back before `accept` keeps
`ServerInv`. `ClientProofs` shows that every step of a client is such a step
(`Sound`); it needs `ClientShape`, that a client has no link before `connect`, that a
call in progress was recorded, and that `feed` has a frame to feed.
`WireProofs` and `AnyPeerProofs` put them together.

*The Ack covers the window.* `Covers` follows `last_seq` from the collection, where
strictly increasing numbers are at least as many as the events
(`server.rs:142`, `:157`), into the batch, through channel, application and oneshot, and back into
the Ack. It holds of any peer, because it speaks of what the handler accepted.

*What `recv` makes of the wire.* `DeliversTheWire` says that the frames a peer wrote can be
cut into consecutive batches, one for each that `recv` returned. `WireInv` of `AnyPeerProofs` keeps
the cut as a witness (`Traced`) and says what lies behind it (`Ahead`): the frames of the
batch in the channel, or, when there is none, the part of a batch that is being collected (`Partial`);
and that the pipe holds the rest of what was written (`Piped`). `Holds` speaks of
positions: frame `i` holds what follows `from[i]` others, event `k` came in the J
frame `items[k]`. So one turn of the collection loop, with a J frame or with any number of
inner frames of a compressed one, extends both functions (`LaidFurther`), and the full window is a batch (`PartialFull`);
what a compressed frame holds beyond the window is left out, which
is where `Filled` may exceed the number of events. Numbers that increase inside a frame (`SeqsIncrease`)
and from one frame to the next (`last_seq`) increase over the batch. When the
Server is dropped `recv` returns no more, and the cut stays as it is.

*The client against any server.* `AnyServerInv` has three parts. `Counted`: as many
results as calls, less the one under way. `Reads`: what the call under way has read so far are
Acks below its `n`, and no call before it has read more than its result tells. `Batched`:
what the server has read, what is in the pipe, in the write buffer and still to be fed,
one after the other (`Row`), can be cut into the batches of the calls (`CutInto`). Most steps move frames
inside the row, which leaves it as it is; `send` appends a batch, a call that
serializes nothing appends nothing, and a call that fails leaves its batch a prefix and was the last, for
the application gives the Client up. `TimedInv` adds `Paced`: every frame fed so far
took at most one `write_timeout`, and the await under way what its timer shows. It needs that time
passes only when no timeout is due. `ClientReady` says when an await can return in terms of the state, not with
`ENABLED`, so that the clock is within the prover's reach.

*The wire.* `WireInv` adds, for each connection, what its frames can be. For every client:
`Calls` (which results are recorded at which await) and `Streams` (which ends are
closed and which pipes are therefore empty). For a `Healthy` one, whose application has not gone on
after an error: `Traffic`, that the connection is `AtRest`, or the current batch
is in exactly one of five phases, `Unread`, `Partly` read, `HandedOver` to the
application, `Answered`, or `Ended`. In each phase pipe, write buffer and frames to feed are consecutive
frames of the current batch from where the handler is (`Aligned`), only the end of a
client that is gone may be torn, and the way back holds nothing but `Ack(0)` and at last one Ack.
`History` says that the results given are true (`Answers`), that what is out is the
current batch (`OutIsCurrent`), and that what was delivered is in order.
All the phases are needed at once: that an Ack read by `send` is for
its own batch is that the earlier ones left nothing on the wire, which is `AtRest`
before the call, which is `Answered` before the last. `WireProofs` has a lemma for each
step of client, link, handler and server, and lemmas that no step disturbs the
connection of another (`ClientElsewhere`, `HandlerElsewhere`).

*The promises.* `DeliveryProofs` reads `NoMutualBlocking`, `QuiescentWhenIdle` and
`AckedIsDelivered` off `WireInv`. `HandlerEndsAsExpected` needs `EndsInv` on top: an
error, once explained, stays explained. The refinement goes connection by
connection: `SameStory` is that nothing `Delivery` sees of it changes, one
lemma each (`StorySubmits`, `StoryDelivers`, `StoryReleases`, `StorySucceeds`,
`StoryFails`) says what a changed variable makes the abstract step, and `EveryStory` gives
each step of `Next` its abstract step or none.

*Whole batches, in order, once.* A call that fails leaves the frames it has written or
buffered on the wire, and the next call puts its own behind them. `WireInv` says nothing of such a
connection beyond `Calls` and `Streams`; `OrderInv` adds `Tidy`, for every client. Its
`Row` is everything the handler has not read, in the pipe, in the write buffer and still to be fed.
Every frame in it is from a call of `send` (`Genuine`), and what stands behind a
frame (`Follows`) is the next frame of the same batch or a Window or torn frame, at which
the batch before has ended; from one such frame to the next the calls only get later
(`Consecutive`). The whole row has to fit behind what the handler read last (`Context`) and
behind the calls whose batches it has delivered or is about to (`Past`). So a handler in the middle of
a batch reads the next event of that batch, or fails at the Window of another with
`UnexpectedFrame`, and one that has read a batch to its end can only meet a later call. The order of
the calls is needed for the batch that is not read to its end as well: a handler that has returned reads no more
(`CanRead`), and one that has not must not meet frames of a call it is past.

*The keepalive.* `PaceInv` needs `WireInv` beside it. A handler that waits for the application sleeps for
one interval at most. A client that waits for such a handler was heard from no longer
ago than that sleep began (`gap <= sleep`), or the sleep is the first since the hand-over
(`since <= sleep`), or something is on its way: a keepalive to be written or in the
pipe, or the end of the link. `NextHeard` is that no step of anyone takes the client out of these
three cases. Time passes, and a timeout fires, only when `Ready` is false, and then nothing is on its way
(`IdleWait`): so a client that times out after `AckLen` ticks, more than the sleep can last, is in the
first sleep, and its batch has been out for an interval at most.

*The codec.* Three facts about `decode_with_limit` carry the rest. `PendingIs`: when it returns
`Ok(None)` it leaves the buffer as it was, which is shorter than the largest frame. `Stable`: what it returns otherwise
is decided (`Decides`), the same item and the same number of bytes whatever lies
behind them. `RoundTrip`: the bytes of a frame decode to the frame, or to the error its size or, for foreign bytes,
`Refused` gives it, and all of them are taken. None needs an induction: every call looks at one frame.
The invariant of the stream grows in three parts. `Base`: buffer and wire are the rest of
the stream from where the reader is; with `PendingIs` this gives `BufferBounded`. `CutInv` adds that each item lies where
`starts` says (`Itemized`): `Stable` carries an item from the buffer it was found in to the whole stream, and on when the stream
grows. `OrderInv` adds that the frames lie in the bytes that were written, at positions
that add up (`Written`), and that the reader is at the beginning of the next one
(`Matched`); `RoundTrip` at that position says which item it returns and where the next frame begins.

*The stream is a FIFO of frames.* `PipeInv` adds that what was returned had crossed. A frame
that lies in the stream to its end decodes (`WholeDecodes`), so when a frame has crossed, those before it have
(`CrossedBefore`), and with the least-number principle the frames that have crossed are
the first `Crossed` ones (`FirstOnes`, `CrossedIs`): the mapping is a number and not an induction over the bytes.
By `Stable` a frame that has crossed stays crossed (`StaysCrossed`), so writing bytes out only raises that
number, which is a `Move` or nothing (`WriteOutMoves`); `Feed` is `Put`; a `Yield` is `Take`, because the
reader is at the beginning of the next frame and that frame has crossed (`YieldTakes`); dropping
the writer is `Close`, with a torn frame exactly when some bytes of the next frame are in the stream and the frame before it was not refused
(`CloseCloses`); the end of the stream is `End` or takes that torn frame (`EofEnds`).

*The port scan.* `ScanInv`: the ports tried so far are `PortAt(0)`, `PortAt(1)`, ..., each was
refused, and the scan has not failed without a reason. That the walk with wrap-around reaches every port of the range, for every offset and
also where the sum passes the end of u16, is arithmetic on remainders (`WrapAround`, `PortOfStep`).

Only model-checked:

- all liveness (`SendTerminates`, `ConnectionReclaimed`, `CloseTerminates`, `ListenerStops`,
  `EveryFrameArrives`, `TimeoutsBoundSend`): leads-to under fairness is beyond this prover. The safety
  half of two of them is proved: `FramesArriveInOrder` (a reader that waits with nothing under
  way has had every frame) and `WritePhaseBounded`.

## Not modelled

zlib's algorithm (a parameter); the build without the `compression` feature, where
encoding a `C` frame panics; memory, and with it what `Vec::with_capacity(window)`
reserves; `channel_capacity(0)`, which panics in `bind`; batches of 2^32 events and
more. The setters of the builders only store what the constants of the modules stand
for. `tls.rs` reads PEM files and calls rustls; it has no state. The wording of errors,
logging, tests, examples, benchmarks and the Go harness are left out. The design for a
bandwidth throttle describes code that is not in the repository. With these exceptions
every operation of the crate that changes state is an action of a module.

## Plan

Done: all modules above, their runs, the two refinements, and the proofs of everything
the passing runs check but liveness. Worth doing when the code changes: the bandwidth throttle of
the design, once it is written; and a Client
that refuses to be used after a timeout, which would let `Reusing` go from the theorems.
