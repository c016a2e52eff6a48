------------------------------- MODULE Frames -------------------------------
(***************************************************************************)
(* Lumberjack v2 frames as the connection handler and the client see them  *)
(* (src/src/frame.rs), above the byte level: `Framed<S, LumberjackCodec>`  *)
(* turns a byte stream into a stream of these values.  How the bytes are   *)
(* laid out and how a partial buffer decodes is the business of FrameCodec.*)
(*                                                                         *)
(* A payload is opaque to the protocol, which looks only at its length, so *)
(* an event is a record: the number of the send call and the position in   *)
(* the batch it came from, and its serialized size.                        *)
(***************************************************************************)
EXTENDS Naturals, Sequences, Functions

CONSTANTS
    U32,            \* how many values a u32 has (2^32 in the code)
    Deflated(_)     \* the length zlib gives the concatenation of some frames

ASSUME U32Assumption == U32 \in Nat \ {0}

AsU32(x) == x % U32

Event == [send : Nat, pos : Nat, size : Nat]

Window(n)         == [type |-> "W", n |-> n]
Json(seq, data)   == [type |-> "J", seq |-> seq, data |-> data]
Compressed(inner) == [type |-> "C", inner |-> inner]
Ack(seq)          == [type |-> "A", seq |-> seq]

(* What `framed.next()` yields as Some(Err(e)): bytes that do not decode.  *)
Bad(e)            == [type |-> "X", err |-> e]

(* The errors of the crate; "Cancelled" is none, it is what the history     *)
(* keeps of a call whose future was dropped.                               *)
Errors == {"Io", "InvalidFrame", "FrameTooLarge", "Compression",
           "Serialization", "UnexpectedFrame", "SeqOutOfOrder",
           "WriteTimeout", "AckTimeout", "ConnectionClosed", "Cancelled"}

WindowFrames == [type : {"W"}, n : Nat]
JsonFrames   == [type : {"J"}, seq : Nat, data : Event]
AckFrames    == [type : {"A"}, seq : Nat]
BadFrames    == [type : {"X"}, err : Errors]
InnerFrames  == WindowFrames \cup JsonFrames \cup AckFrames \cup BadFrames
CompressedFrames == [type : {"C"}, inner : Seq(InnerFrames)]
FrameSet     == InnerFrames \cup CompressedFrames

JSON_HEADER    == 10    \* version, type, seq, len: 2 + 4 + 4 bytes
CONTROL_HEADER == 6     \* version, type, one u32: 2 + 4 bytes

(* Encoded length of one frame inside a compressed payload; a tail that    *)
(* does not decode is at least one byte.                                   *)
EncodedLen(f) ==
    CASE f.type = "J" -> JSON_HEADER + f.data.size
      [] f.type = "X" -> 1
      [] OTHER        -> CONTROL_HEADER

InflatedLen(inner) == SumFunction([i \in DOMAIN inner |-> EncodedLen(inner[i])])

(* The size limits of `decode_with_limit`: a J payload, and a C frame's    *)
(* payload both as it is on the wire and inflated, may not exceed          *)
(* max_frame_size.  W and A have none.                                     *)
Oversize(f, max_frame_size) ==
    \/ f.type = "J" /\ f.data.size > max_frame_size
    \/ f.type = "C" /\ \/ Deflated(f.inner) > max_frame_size
                       \/ InflatedLen(f.inner) > max_frame_size

DecodeWithLimit(f, max_frame_size) ==
    IF Oversize(f, max_frame_size) THEN Bad("FrameTooLarge") ELSE f

(* What a call returns to its caller: Ok(n) or Err(e).                     *)
Ok(n)  == [ok |-> TRUE,  n |-> n, err |-> "none"]
Err(e) == [ok |-> FALSE, n |-> 0, err |-> e]
Results == [ok : BOOLEAN, n : Nat, err : Errors \cup {"none"}]
=============================================================================
