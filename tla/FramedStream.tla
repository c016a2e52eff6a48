---------------------------- MODULE FramedStream ----------------------------
(***************************************************************************)
(* One direction of a connection, byte for byte: the write half of one     *)
(* `Framed<S, LumberjackCodec>`, the stream, and the read half of another. *)
(* `Framed` (tokio-util) and the stream are not part of the crate; this is *)
(* how they call src/src/codec.rs: an item is encoded onto the write       *)
(* buffer, bytes leave in pieces of any length, arrive in pieces of any    *)
(* other length, and after every piece the codec is asked to decode.       *)
(***************************************************************************)
EXTENDS FrameCodec

CONSTANTS
    Frames,           \* what the writer sends: frames, and Foreign byte strings
    MaxWrites,        \* bound: how many of them it writes
    WireCap,          \* bytes the stream holds
    max_frame_size    \* the reader's limit

ASSUME FramedAssumption ==
    MaxWrites \in Nat /\ WireCap \in Nat \ {0} /\ max_frame_size \in Nat

(* A writer that is not of this crate may also write bytes that no frame   *)
(* encodes to and that fail with e.                                        *)
Foreign(bytes, e) == [type |-> "F", bytes |-> bytes, err |-> e]

(* The bytes the protocol refuses, and why: another version or type, a     *)
(* length above the limit, a payload that does not inflate or inflates     *)
(* past the limit.                                                         *)
BigEndian(b, i) == ((b[i] * 256 + b[i + 1]) * 256 + b[i + 2]) * 256 + b[i + 3]

Starts(b, type, header) ==
    Len(b) >= header /\ b[1] = PROTOCOL_VERSION /\ b[2] = type

Refused(b, e) ==
    \/ /\ e = "InvalidFrame" /\ Len(b) >= 2
       /\ \/ b[1] # PROTOCOL_VERSION
          \/ b[2] \notin {TYPE_WINDOW, TYPE_ACK, TYPE_JSON, TYPE_COMPRESSED}
    \/ /\ e = "FrameTooLarge"
       /\ \/ Starts(b, TYPE_JSON, 10) /\ BigEndian(b, 7) > max_frame_size
          \/ Starts(b, TYPE_COMPRESSED, 6) /\ BigEndian(b, 3) > max_frame_size
    \/ /\ Starts(b, TYPE_COMPRESSED, 6)
       /\ BigEndian(b, 3) <= max_frame_size /\ BigEndian(b, 3) = Len(b) - 6
       /\ LET z == Unzip(SubSeq(b, 7, Len(b))) IN
          IF Len(z.out) > max_frame_size THEN e = "FrameTooLarge"
                                         ELSE ~z.ok /\ e = "Compression"

(* Numbers and lengths fit 32 bits, payloads are bytes, zlib gives back    *)
(* what it was given, and foreign bytes are refused.                       *)
IsU32(n) == n \in Nat /\ n \div 16777216 < 256

WellFormed(f) ==
    \/ f.type = "W" /\ f = Window(f.n) /\ IsU32(f.n)
    \/ f.type = "A" /\ f = Ack(f.seq) /\ IsU32(f.seq)
    \/ /\ f.type = "J" /\ f = Json(f.seq, f.data) /\ IsU32(f.seq)
       /\ f.data \in Seq(Byte) /\ IsU32(Len(f.data))
    \/ /\ f.type = "C" /\ f = Compressed(f.inner) /\ f.inner \in Seq(Byte)
       /\ Zip(f.inner) \in Seq(Byte) /\ IsU32(Len(Zip(f.inner)))
       /\ Unzip(Zip(f.inner)) = [out |-> f.inner, ok |-> TRUE]
    \/ f.type = "F" /\ f.bytes \in Seq(Byte) /\ Refused(f.bytes, f.err)

ASSUME FramesAssumption == \A f \in Frames : WellFormed(f)

VARIABLES
    wbuf,     \* the writer's BytesMut
    wire,     \* bytes on their way
    rbuf,     \* the reader's BytesMut
    got,      \* what next() returned, oldest first
    wEnd,     \* the writer: "open", "closed"
    rEnd,     \* the reader: "reading", "ended" (None), "failed" (an error)
    fed,      \* history: what was written, oldest first
    stream,   \* history: the bytes that ever entered the stream
    starts,   \* history: how many of them lie before each item of got
    begins    \* history: how many lie before each item of fed

vars == <<wbuf, wire, rbuf, got, wEnd, rEnd, fed, stream, starts, begins>>

Init ==
    /\ wbuf = <<>> /\ wire = <<>> /\ rbuf = <<>> /\ got = <<>>
    /\ wEnd = "open" /\ rEnd = "reading"
    /\ fed = <<>> /\ stream = <<>> /\ starts = <<>> /\ begins = <<>>

-----------------------------------------------------------------------------
(* The writer.  Encoder::encode appends, and never fails.                  *)
Bytes(f) == IF f.type = "F" THEN f.bytes ELSE Encode(f)

Feed(f) ==
    /\ wEnd = "open"
    /\ Len(fed) < MaxWrites
    /\ fed' = Append(fed, f)
    /\ begins' = Append(begins, Len(stream) + Len(wbuf))
    /\ wbuf' = wbuf \o Bytes(f)
    /\ UNCHANGED <<wire, rbuf, got, wEnd, rEnd, stream, starts>>

(* poll_write takes as much as there is room for, or less.                 *)
WriteOut(n) ==
    /\ Len(wire) + n <= WireCap
    /\ wire' = wire \o SubSeq(wbuf, 1, n)
    /\ stream' = stream \o SubSeq(wbuf, 1, n)
    /\ wbuf' = SubSeq(wbuf, n + 1, Len(wbuf))
    /\ UNCHANGED <<rbuf, got, wEnd, rEnd, fed, starts, begins>>

(* The writer is dropped, at any byte.                                     *)
CloseWriter ==
    /\ wEnd = "open"
    /\ wEnd' = "closed"
    /\ wbuf' = <<>>
    /\ UNCHANGED <<wire, rbuf, got, rEnd, fed, stream, starts, begins>>

-----------------------------------------------------------------------------
(* The reader.                                                             *)
Decode == DecodeWithLimit(rbuf, max_frame_size)

(* The bytes of the stream that the items returned so far have used up.    *)
Position == Len(stream) - (Len(rbuf) + Len(wire))

(* next() returns the item, and after an error nobody asks again: send and *)
(* run_connection return it.                                               *)
Returns(item) ==
    /\ got' = Append(got, item)
    /\ starts' = Append(starts, Position)
    /\ rEnd' = IF item.type = "X" THEN "failed" ELSE rEnd

Yield ==
    /\ rEnd = "reading"
    /\ Decode.item # <<>>
    /\ Returns(Decode.item[1])
    /\ rbuf' = Decode.src
    /\ UNCHANGED <<wbuf, wire, wEnd, fed, stream, begins>>

(* Ok(None): n more bytes are read.                                        *)
Read(n) ==
    /\ rEnd = "reading"
    /\ Decode.item = <<>>
    /\ rbuf' = Decode.src \o SubSeq(wire, 1, n)
    /\ wire' = SubSeq(wire, n + 1, Len(wire))
    /\ UNCHANGED <<wbuf, got, wEnd, rEnd, fed, stream, starts, begins>>

(* decode_eof: bytes that are no frame at the end of the stream are an     *)
(* I/O error.                                                              *)
ReadEof ==
    /\ rEnd = "reading"
    /\ Decode.item = <<>> /\ wire = <<>> /\ wEnd = "closed"
    /\ IF Decode.src = <<>> THEN rEnd' = "ended" /\ UNCHANGED <<got, starts>>
                            ELSE Returns(Bad("Io"))
    /\ rbuf' = Decode.src
    /\ UNCHANGED <<wbuf, wire, wEnd, fed, stream, begins>>

(* Both halves are gone.                                                   *)
Over == wEnd = "closed" /\ rEnd # "reading" /\ UNCHANGED vars

Runtime ==
    \/ \E n \in 1..Len(wbuf) : WriteOut(n)
    \/ Yield \/ ReadEof
    \/ \E n \in 1..Len(wire) : Read(n)

Next == (\E f \in Frames : Feed(f)) \/ CloseWriter \/ Runtime \/ Over

Spec == Init /\ [][Next]_vars

(* The runtime moves bytes while both halves are polled.                   *)
FairSpec ==
    /\ Spec
    /\ WF_vars(\E n \in 1..Len(wbuf) : WriteOut(n))
    /\ WF_vars(Yield \/ ReadEof \/ \E n \in 1..Len(wire) : Read(n))

-----------------------------------------------------------------------------
(* What next() returns does not depend on where the stream was cut into    *)
(* pieces: decoding the whole stream at once from where an item begins     *)
(* gives that item and stops where the next one begins; nothing is skipped *)
(* or read twice, nothing is left over at the end, and only a torn end is  *)
(* an I/O error.  (decode_with_limit leaves its buffer alone when it       *)
(* returns None.)                                                          *)
From(i)     == SubSeq(stream, i + 1, Len(stream))
DecodeAt(i) == DecodeWithLimit(From(i), max_frame_size)

StartOf(k) == IF k \in DOMAIN starts THEN starts[k] ELSE Position

CutIndependent ==
    /\ StartOf(1) = 0
    /\ \A k \in DOMAIN got :
        \/ /\ DecodeAt(StartOf(k)).item = <<got[k]>>
           /\ DecodeAt(StartOf(k)).src = From(StartOf(k + 1))
        \/ /\ got[k] = Bad("Io") /\ k = Len(got) /\ wEnd = "closed" /\ wire = <<>>
           /\ DecodeAt(StartOf(k)).item = <<>> /\ StartOf(k) < Len(stream)
    /\ rEnd = "ended" => Position = Len(stream)
    /\ rEnd = "failed" <=> \E k \in DOMAIN got : got[k].type = "X" /\ k = Len(got)

(* A reader that waits for more holds less than one frame of the largest   *)
(* admissible payload: a length field alone makes nobody buffer more than  *)
(* max_frame_size.                                                         *)
BufferBounded ==
    rEnd = "reading" /\ Decode.item = <<>> => Len(Decode.src) < 10 + max_frame_size

(* Every frame that is fed is returned, or refused: the codec never waits  *)
(* for a byte that does not belong to the frame it has.                    *)
EveryFrameArrives ==
    \A i \in 1..MaxWrites :
        Len(fed) >= i ~> Len(got) >= i \/ wEnd = "closed" \/ rEnd # "reading"

-----------------------------------------------------------------------------
(* The frames a client or a server exchanges, as Frames and Transport see  *)
(* them: limits apply to a J payload and to a C payload before and after   *)
(* inflating.                                                              *)
Limited(f) ==
    CASE f.type = "J" /\ Len(f.data) > max_frame_size -> Bad("FrameTooLarge")
      [] f.type = "C" /\ (\/ Len(Zip(f.inner)) > max_frame_size
                         \/ Len(f.inner) > max_frame_size) -> Bad("FrameTooLarge")
      [] f.type = "F" -> Bad(f.err)
      [] OTHER -> f

(* Every frame comes out as the frame that went in, or as the error its    *)
(* size deserves, in order and once: the k-th item is the k-th frame,      *)
(* unless the writer is gone and the frame was torn, and a reader that     *)
(* waits with nothing under way has had them all.                          *)
FramesArriveInOrder ==
    /\ \A k \in DOMAIN got :
        /\ k \in DOMAIN fed
        /\ \/ got[k] = Limited(fed[k])
           \/ got[k] = Bad("Io") /\ k = Len(got) /\ wEnd = "closed"
    /\ rEnd = "reading" /\ Decode.item = <<>> /\ wEnd = "open" /\ wire = <<>> /\ wbuf = <<>> =>
           Len(got) = Len(fed)

(* A frame has crossed once the bytes in the stream are enough to decode   *)
(* it (or to refuse it), up to the first that is refused; the first one    *)
(* that has not is torn by a close if some of its bytes are in the stream. *)
HasCrossed(k) ==
    /\ DecodeAt(begins[k]).item # <<>>
    /\ \A j \in 1..(k - 1) : Limited(fed[j]).type # "X"

Crossed == CHOOSE n \in 0..Len(fed) : \A k \in DOMAIN fed : HasCrossed(k) <=> k <= n

TornNext ==
    /\ Crossed < Len(fed)
    /\ begins[Crossed + 1] < Len(stream)
    /\ Crossed > 0 => Limited(fed[Crossed]).type # "X"

InPipe ==
    IF rEnd # "reading" THEN <<>>
    ELSE SubSeq(fed, Len(got) + 1, Crossed) \o
            (IF wEnd = "closed" /\ TornNext THEN <<Bad("Io")>> ELSE <<>>)

Unsent == IF wEnd = "closed" THEN <<>> ELSE SubSeq(fed, Crossed + 1, Len(fed))

Pipe == INSTANCE FramePipe WITH buf <- Unsent, pipe <- InPipe,
                                Decoded <- Limited, Torn <- Bad("Io")

(* Bytes and partial buffers are invisible above the codec: the stream     *)
(* behaves as a FIFO of whole frames, which is what Transport assumes.     *)
ImplementsPipe == Pipe!Spec
=============================================================================
