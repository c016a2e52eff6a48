----------------------------- MODULE FrameCodec -----------------------------
(***************************************************************************)
(* `Frame::encode` and `Frame::decode_with_limit` of src/src/frame.rs, on  *)
(* the bytes themselves: the layout, what a partial buffer decodes to, the *)
(* order of the checks, and what a call takes out of its buffer.           *)
(*                                                                         *)
(* zlib is flate2's: Zip(s) is what the encoder makes of s, and Unzip(p)   *)
(* what reading p through the decoder brings: the bytes that come out, and *)
(* whether the reads then end or fail.                                     *)
(***************************************************************************)
EXTENDS Naturals, Sequences

CONSTANTS Zip(_), Unzip(_)

Byte == 0..255

PROTOCOL_VERSION == 50      \* b'2'
TYPE_WINDOW      == 87      \* b'W'
TYPE_JSON        == 74      \* b'J'
TYPE_COMPRESSED  == 67      \* b'C'
TYPE_ACK         == 65      \* b'A'

Window(n)         == [type |-> "W", n |-> n]
Json(seq, data)   == [type |-> "J", seq |-> seq, data |-> data]
Compressed(inner) == [type |-> "C", inner |-> inner]
Ack(seq)          == [type |-> "A", seq |-> seq]
Bad(e)            == [type |-> "X", err |-> e]

-----------------------------------------------------------------------------
(* put_u32, big endian, of a length or number narrowed to 32 bits.         *)
PutU32(n) == <<(n \div 16777216) % 256, (n \div 65536) % 256,
               (n \div 256) % 256, n % 256>>

(* Mutant of GetU32: from_le_bytes.                                        *)
GetU32Le(s, i) == s[i] + 256 * s[i + 1] + 65536 * s[i + 2] + 16777216 * s[i + 3]

(* from_be_bytes of the four bytes from position i on.                     *)
GetU32(s, i) == 16777216 * s[i] + 65536 * s[i + 1] + 256 * s[i + 2] + s[i + 3]

WithLength(s) == PutU32(Len(s)) \o s

Encode(f) ==
    CASE f.type = "W" -> <<PROTOCOL_VERSION, TYPE_WINDOW>> \o PutU32(f.n)
      [] f.type = "A" -> <<PROTOCOL_VERSION, TYPE_ACK>> \o PutU32(f.seq)
      [] f.type = "J" -> <<PROTOCOL_VERSION, TYPE_JSON>> \o PutU32(f.seq)
                             \o WithLength(f.data)
      [] f.type = "C" -> <<PROTOCOL_VERSION, TYPE_COMPRESSED>>
                             \o WithLength(Zip(f.inner))

-----------------------------------------------------------------------------
(* A call of decode_with_limit returns an item and leaves src: <<>> is     *)
(* Ok(None), <<f>> is Ok(Some(f)), <<Bad(e)>> is Err(e).                   *)
Pending(src)    == [item |-> <<>>, src |-> src]
Fails(e, src)   == [item |-> <<Bad(e)>>, src |-> src]
Takes(f, n, src) == [item |-> <<f>>, src |-> SubSeq(src, n + 1, Len(src))]

(* zlib_decompress: the limit is checked on every read, so a payload that  *)
(* inflates past it fails whether or not the rest of it is sound.          *)
ZlibDecompress(payload, max) ==
    LET z == Unzip(payload) IN
    IF Len(z.out) > max THEN Bad("FrameTooLarge")
    ELSE IF z.ok THEN Compressed(z.out)
    ELSE Bad("Compression")

(* Mutants of Payload: the payload must be there before its length is      *)
(* checked; one byte beyond the payload is waited for; the limit itself is *)
(* refused; the header is taken out although the payload is not there.     *)
PayloadThenLimit(src, header, len, max, frame) ==
    IF Len(src) < header + len THEN Pending(src)
    ELSE IF len > max THEN Fails("FrameTooLarge", src)
    ELSE Takes(frame, header + len, src)

PayloadAndMore(src, header, len, max, frame) ==
    IF len > max THEN Fails("FrameTooLarge", src)
    ELSE IF Len(src) <= header + len THEN Pending(src)
    ELSE Takes(frame, header + len, src)

PayloadBelow(src, header, len, max, frame) ==
    IF len >= max THEN Fails("FrameTooLarge", src)
    ELSE IF Len(src) < header + len THEN Pending(src)
    ELSE Takes(frame, header + len, src)

PayloadAfterHeader(src, header, len, max, frame) ==
    IF len > max THEN Fails("FrameTooLarge", src)
    ELSE IF Len(src) < header + len THEN Pending(SubSeq(src, header + 1, Len(src)))
    ELSE Takes(frame, header + len, src)

(* A frame with a length field: the limit is checked before the payload is *)
(* waited for.                                                             *)
Payload(src, header, len, max, frame) ==
    IF len > max THEN Fails("FrameTooLarge", src)
    ELSE IF Len(src) < header + len THEN Pending(src)
    ELSE Takes(frame, header + len, src)

DecodeJson(src, max) ==
    LET len == GetU32(src, 7) IN
    Payload(src, 10, len, max, Json(GetU32(src, 3), SubSeq(src, 11, 10 + len)))

DecodeCompressed(src, max) ==
    LET len == GetU32(src, 3) IN
    Payload(src, 6, len, max, ZlibDecompress(SubSeq(src, 7, 6 + len), max))

DecodeWithLimit(src, max) ==
    IF Len(src) < 2 THEN Pending(src)
    ELSE IF src[1] # PROTOCOL_VERSION THEN Fails("InvalidFrame", src)
    ELSE CASE src[2] = TYPE_WINDOW ->
                IF Len(src) < 6 THEN Pending(src)
                ELSE Takes(Window(GetU32(src, 3)), 6, src)
           [] src[2] = TYPE_ACK ->
                IF Len(src) < 6 THEN Pending(src)
                ELSE Takes(Ack(GetU32(src, 3)), 6, src)
           [] src[2] = TYPE_JSON ->
                IF Len(src) < 10 THEN Pending(src) ELSE DecodeJson(src, max)
           [] src[2] = TYPE_COMPRESSED ->
                IF Len(src) < 6 THEN Pending(src) ELSE DecodeCompressed(src, max)
           [] OTHER -> Fails("InvalidFrame", src)
=============================================================================
