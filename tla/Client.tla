------------------------------- MODULE Client -------------------------------
(***************************************************************************)
(* `Client` of src/src/client.rs.  One Client value per connection.        *)
(*                                                                         *)
(* `send` is one async fn: it feeds a Window frame and the batch into the  *)
(* write buffer of `Framed`, flushes the buffer, and then reads frames     *)
(* until an Ack covers the batch.  Every `.await` where it can stop is a   *)
(* value of cpc:                                                           *)
(*   "feed"   `framed.feed` with room in the write buffer                  *)
(*   "drain"  `framed.feed` waiting for the buffer to be written out       *)
(*   "flush"  `framed.flush`                                               *)
(*   "wait"   `framed.next` in the ack loop                                *)
(* A call that returns, or is cancelled, appends its result to `outcome`.  *)
(***************************************************************************)
EXTENDS Transport

CONSTANTS
    Batches,        \* the batches an application may send, as sequences of payload sizes
    MaxSends,       \* bound: calls of send on one Client
    ClientMax,      \* DEFAULT_MAX_FRAME_SIZE, the limit of Frame::decode in send
    Boundary,       \* frames in the write buffer from which feed drains it first
    Compressing,    \* the clients built with compression_level > 0
    WriteTimeouts,  \* the clients built with a write_timeout
    AckTimeouts,    \* the clients built with an ack_timeout
    Cancelling,     \* the clients whose application may drop the future of a send
    Reusing         \* the clients whose application sends again after an error or a cancelled send

ASSUME ClientAssumption ==
    /\ Batches \subseteq Seq(Nat)
    /\ \A sizes \in Batches : Len(sizes) < U32
    /\ MaxSends \in Nat /\ ClientMax \in Nat /\ Boundary \in Nat \ {0}

ASSUME BuilderAssumption ==
    Compressing \cup WriteTimeouts \cup AckTimeouts \cup Cancelling \cup Reusing
        \subseteq Conns

VARIABLES
    cpc,      \* cpc[c]: where the application's call on this Client is
    wbuf,     \* wbuf[c]: frames in the write buffer of `framed`
    tofeed,   \* tofeed[c]: frames of the current batch not fed yet
    sent,     \* sent[c][k]: the events the k-th call of send was given
    outcome   \* outcome[c][k]: what the k-th call of send returned

clientVars == <<cpc, wbuf, tofeed, sent, outcome>>

ClientPcs == {"new", "handshake", "idle", "feed", "drain", "flush", "wait",
              "closing", "closed"}

ClientTypeOK ==
    /\ cpc \in [Conns -> ClientPcs]
    /\ wbuf \in [Conns -> Seq(FrameSet)]
    /\ tofeed \in [Conns -> Seq(FrameSet)]
    /\ sent \in [Conns -> Seq(Seq(Event))]
    /\ outcome \in [Conns -> Seq(Results)]

ClientInit ==
    /\ cpc = [c \in Conns |-> "new"]
    /\ wbuf = [c \in Conns |-> <<>>]
    /\ tofeed = [c \in Conns |-> <<>>]
    /\ sent = [c \in Conns |-> <<>>]
    /\ outcome = [c \in Conns |-> <<>>]

-----------------------------------------------------------------------------
(* ClientBuilder::connect *)

(* TcpStream::connect: the kernel completes it as soon as the listener's   *)
(* backlog has the connection, accepted or not.  It may fail at any time   *)
(* (no address, no local port, no route), and always without a listener.   *)
Connect(c, listening) ==
    /\ cpc[c] = "new"
    /\ \/ /\ listening
          /\ link' = [link EXCEPT ![c] = "backlog"]
          /\ cpc' = [cpc EXCEPT ![c] = IF Tls THEN "handshake" ELSE "idle"]
          /\ UNCHANGED cEnd
       \/ /\ cpc' = [cpc EXCEPT ![c] = "closed"]
          /\ cEnd' = [cEnd EXCEPT ![c] = "closed"]
          /\ UNCHANGED link
    /\ UNCHANGED <<sEnd, c2s, s2c, wbuf, tofeed, sent, outcome>>

(* connector.connect: needs an accepted connection whose other end is      *)
(* there; any failure drops the stream.                                    *)
ClientHandshake(c) ==
    /\ cpc[c] = "handshake"
    /\ \/ /\ link[c] = "up" /\ sEnd[c] = "open"
          /\ cpc' = [cpc EXCEPT ![c] = "idle"]
          /\ UNCHANGED cEnd
       \/ /\ cpc' = [cpc EXCEPT ![c] = "closed"]
          /\ cEnd' = [cEnd EXCEPT ![c] = "closed"]
    /\ UNCHANGED <<link, sEnd, c2s, s2c, wbuf, tofeed, sent, outcome>>

-----------------------------------------------------------------------------
(* Client::send *)

EventsOf(k, sizes) ==
    [i \in 1..Len(sizes) |-> [send |-> k, pos |-> i, size |-> sizes[i]]]

(* Mutant of SeqAt: the 0-based position itself.                           *)
SeqAtFromZero(i) == AsU32(i - 1)

(* seq is (i as u32) + 1 for the 0-based position i.                       *)
SeqAt(i) == AsU32(AsU32(i - 1) + 1)

EncodedEvents(evs) == [i \in 1..Len(evs) |-> Json(SeqAt(i), evs[i])]

BatchFrames(c, evs) ==
    <<Window(AsU32(Len(evs)))>> \o
        (IF c \in Compressing THEN <<Compressed(EncodedEvents(evs))>>
                              ELSE EncodedEvents(evs))

(* The application gives up a Client whose send failed or was cancelled;   *)
(* only the failure to serialize an event leaves nothing behind.           *)
Broken(c) == \E k \in DOMAIN outcome[c] :
                outcome[c][k].err \notin {"none", "Serialization"}

MaySend(c) == /\ cpc[c] = "idle"
              /\ Len(sent[c]) < MaxSends
              /\ c \in Reusing \/ ~Broken(c)

(* The call returns r.  What was fed stays in the write buffer.            *)
Return(c, r) ==
    /\ cpc' = [cpc EXCEPT ![c] = "idle"]
    /\ outcome' = [outcome EXCEPT ![c] = Append(@, r)]
    /\ tofeed' = [tofeed EXCEPT ![c] = <<>>]

(* With buf in the write buffer and rest still to feed: the uncompressed   *)
(* path decodes each frame again, under the default limit, before it feeds *)
(* it, and feed drains a buffer that has reached the boundary.             *)
FeedOn(c, buf, rest) ==
    /\ wbuf' = [wbuf EXCEPT ![c] = buf]
    /\ IF rest # <<>> /\ Head(rest).type = "J" /\ Oversize(Head(rest), ClientMax)
       THEN Return(c, Err("FrameTooLarge"))
       ELSE /\ tofeed' = [tofeed EXCEPT ![c] = rest]
            /\ cpc' = [cpc EXCEPT ![c] =
                          IF rest = <<>> THEN "flush"
                          ELSE IF Len(buf) >= Boundary THEN "drain" ELSE "feed"]
            /\ UNCHANGED outcome

Send(c, sizes) ==
    LET evs == EventsOf(Len(sent[c]) + 1, sizes) IN
    /\ MaySend(c)
    /\ sent' = [sent EXCEPT ![c] = Append(@, evs)]
    /\ IF sizes = <<>>
       THEN Return(c, Ok(0)) /\ UNCHANGED wbuf
       ELSE FeedOn(c, wbuf[c], BatchFrames(c, evs))
    /\ UNCHANGED transportVars

(* Mutant of SerializeFails: the Window frame is fed before the events are *)
(* serialized.                                                             *)
SerializeFailsLate(c, sizes) ==
    /\ MaySend(c)
    /\ sizes # <<>>
    /\ sent' = [sent EXCEPT ![c] = Append(@, EventsOf(Len(@) + 1, sizes))]
    /\ Return(c, Err("Serialization"))
    /\ wbuf' = [wbuf EXCEPT ![c] = Append(@, Window(AsU32(Len(sizes))))]
    /\ UNCHANGED transportVars

(* serde_json::to_vec fails on an event: nothing was fed yet.              *)
SerializeFails(c, sizes) ==
    /\ MaySend(c)
    /\ sizes # <<>>
    /\ sent' = [sent EXCEPT ![c] = Append(@, EventsOf(Len(@) + 1, sizes))]
    /\ Return(c, Err("Serialization"))
    /\ UNCHANGED <<wbuf, transportVars>>

Feed(c) ==
    /\ cpc[c] = "feed"
    /\ FeedOn(c, Append(wbuf[c], Head(tofeed[c])), Tail(tofeed[c]))
    /\ UNCHANGED <<sent, transportVars>>

(* One frame of the write buffer reaches the socket: while feed drains the *)
(* buffer, while flush or close empty it.                                  *)
WhenWritten(pc) ==
    CASE pc = "drain" -> "feed" [] pc = "flush" -> "wait" [] OTHER -> "closed"

WriteOut(c) ==
    /\ cpc[c] \in {"drain", "flush", "closing"}
    /\ wbuf[c] # <<>>
    /\ Writable(c2s, sEnd, c)
    /\ c2s' = Written(c2s, sEnd, c, Head(wbuf[c]))
    /\ wbuf' = [wbuf EXCEPT ![c] = Tail(@)]
    /\ cpc' = [cpc EXCEPT ![c] = IF Len(wbuf[c]) = 1 THEN WhenWritten(@) ELSE @]
    /\ IF cpc'[c] = "closed"
       THEN cEnd' = [cEnd EXCEPT ![c] = "closed"] /\ s2c' = [s2c EXCEPT ![c] = <<>>]
       ELSE UNCHANGED <<cEnd, s2c>>
    /\ UNCHANGED <<link, sEnd, tofeed, sent, outcome>>

WriteError(c) ==
    /\ cpc[c] \in {"drain", "flush"}
    /\ WriteFails(sEnd, c)
    /\ Return(c, Err("Io"))
    /\ UNCHANGED <<wbuf, sent, transportVars>>

(* Mutant of WriteTimed: flush is awaited without the timeout.             *)
WriteTimedFeed(c) == c \in WriteTimeouts /\ cpc[c] = "drain"

(* tokio::time::timeout around feed or flush: the future is dropped, the   *)
(* write buffer is not.                                                    *)
WriteTimed(c) == c \in WriteTimeouts /\ cpc[c] \in {"drain", "flush"}

WriteTimeout(c) ==
    /\ WriteTimed(c)
    /\ Return(c, Err("WriteTimeout"))
    /\ UNCHANGED <<wbuf, sent, transportVars>>

(* The ack loop *)
Awaited(c) == AsU32(Len(sent[c][Len(sent[c])]))

(* Mutant of AckCovers: the last event need not be acknowledged.           *)
AckCoversButLast(seq, n) == seq + 1 >= n

AckCovers(seq, n) == seq >= n

Receive(c) ==
    LET f == Head(s2c[c]) IN
    /\ cpc[c] = "wait"
    /\ Readable(s2c, c)
    /\ s2c' = [s2c EXCEPT ![c] = Tail(@)]
    /\ CASE f.type = "A" /\ AckCovers(f.seq, Awaited(c)) -> Return(c, Ok(Awaited(c)))
         [] f.type = "A" /\ ~AckCovers(f.seq, Awaited(c)) -> UNCHANGED <<cpc, outcome, tofeed>>
         [] f.type = "X" -> Return(c, Err(f.err))
         [] OTHER -> Return(c, Err("UnexpectedFrame"))
    /\ UNCHANGED <<link, cEnd, sEnd, c2s, wbuf, sent>>

ReceiveEnd(c) ==
    /\ cpc[c] = "wait"
    /\ \/ AtEof(s2c, sEnd, c) /\ Return(c, Err("ConnectionClosed"))
       \/ link[c] = "reset" /\ Return(c, Err("Io"))
    /\ UNCHANGED <<wbuf, sent, transportVars>>

AckTimed(c) == c \in AckTimeouts /\ cpc[c] = "wait"

AckTimeout(c) ==
    /\ AckTimed(c)
    /\ Return(c, Err("AckTimeout"))
    /\ UNCHANGED <<wbuf, sent, transportVars>>

(* The application drops the future of send (its own timeout or select!),  *)
(* wherever it is suspended, and keeps the Client, with what is in the     *)
(* write buffer and the Acks that are still to come.                       *)
Cancel(c) ==
    /\ c \in Cancelling
    /\ cpc[c] \in {"drain", "flush", "wait"}
    /\ Return(c, Err("Cancelled"))
    /\ UNCHANGED <<wbuf, sent, transportVars>>

-----------------------------------------------------------------------------
(* Client::close, and dropping a Client *)

(* close flushes the write buffer (no timeout applies) and shuts down.     *)
Close(c) ==
    /\ cpc[c] = "idle"
    /\ IF wbuf[c] = <<>>
       THEN /\ cpc' = [cpc EXCEPT ![c] = "closed"]
            /\ cEnd' = [cEnd EXCEPT ![c] = "closed"]
            /\ s2c' = [s2c EXCEPT ![c] = <<>>]
       ELSE /\ cpc' = [cpc EXCEPT ![c] = "closing"]
            /\ UNCHANGED <<cEnd, s2c>>
    /\ UNCHANGED <<link, sEnd, c2s, wbuf, tofeed, sent, outcome>>

CloseFails(c) ==
    /\ cpc[c] = "closing"
    /\ WriteFails(sEnd, c)
    /\ cpc' = [cpc EXCEPT ![c] = "closed"]
    /\ cEnd' = [cEnd EXCEPT ![c] = "closed"]
    /\ s2c' = [s2c EXCEPT ![c] = <<>>]
    /\ UNCHANGED <<link, sEnd, c2s, wbuf, tofeed, sent, outcome>>

(* The Client goes, with a call of send under way or without, or connect   *)
(* or close is cancelled, whose future owns the stream.  The write buffer  *)
(* is lost, possibly after a part of its first frame went out: the server  *)
(* then finds bytes that are no frame before the end.                      *)
Drop(c) ==
    /\ cpc[c] \notin {"new", "closed"}
    /\ cpc' = [cpc EXCEPT ![c] = "closed"]
    /\ cEnd' = [cEnd EXCEPT ![c] = "closed"]
    /\ wbuf' = [wbuf EXCEPT ![c] = <<>>]
    /\ tofeed' = [tofeed EXCEPT ![c] = <<>>]
    /\ s2c' = [s2c EXCEPT ![c] = <<>>]
    /\ \/ UNCHANGED c2s
       \/ /\ wbuf[c] # <<>> /\ Writable(c2s, sEnd, c)
          /\ c2s' = Written(c2s, sEnd, c, Bad("Io"))
    /\ UNCHANGED <<link, sEnd, sent, outcome>>

-----------------------------------------------------------------------------
(* What the runtime drives on its own, and what application and clock do.  *)
ClientRuntime(c) ==
    \/ ClientHandshake(c) \/ Feed(c) \/ WriteOut(c) \/ WriteError(c)
    \/ Receive(c) \/ ReceiveEnd(c) \/ CloseFails(c)

ClientChoice(c) ==
    \/ \E sizes \in Batches : Send(c, sizes) \/ SerializeFails(c, sizes)
    \/ WriteTimeout(c) \/ AckTimeout(c) \/ Cancel(c) \/ Close(c) \/ Drop(c)

(* The await can return: the client's task has something to do.  (connect  *)
(* may fail in the handshake at any time.)                                 *)
ClientReady(c) ==
    \/ cpc[c] \in {"handshake", "feed"}
    \/ /\ cpc[c] \in {"drain", "flush", "closing"}
       /\ WriteFails(sEnd, c) \/ (wbuf[c] # <<>> /\ Writable(c2s, sEnd, c))
    \/ /\ cpc[c] = "wait"
       /\ Readable(s2c, c) \/ AtEof(s2c, sEnd, c) \/ link[c] = "reset"

-----------------------------------------------------------------------------
InSend(c) == cpc[c] \in {"feed", "drain", "flush", "wait"}

(* What the proofs need of a client besides types: it has no link before   *)
(* connect, a call of send is under way only if there was one, and feed    *)
(* has a frame to feed.                                                    *)
ClientShape ==
    \A c \in Conns :
        /\ cpc[c] = "new" => link[c] = "none"
        /\ InSend(c) => sent[c] # <<>>
        /\ cpc[c] \in {"feed", "drain"} => tofeed[c] # <<>>
=============================================================================
