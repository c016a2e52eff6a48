------------------------- MODULE FramedStreamProofs -------------------------
(***************************************************************************)
(* The codec on the bytes: what a call of decode_with_limit may conclude   *)
(* from a part of the stream, and why the frames that go in come out, for  *)
(* every frame, every limit, and every way the stream is cut into pieces.  *)
(***************************************************************************)
EXTENDS FramedStream, SequenceTheorems, WellFoundedInduction, TLAPS

-----------------------------------------------------------------------------
(* Sequences *)

LEMMA InFront ==
    ASSUME NEW S, NEW s \in Seq(S), NEW t \in Seq(S)
    PROVE  /\ s \o t \in Seq(S) /\ Len(s \o t) = Len(s) + Len(t)
           /\ \A i \in 1..Len(s) : (s \o t)[i] = s[i]
           /\ \A i \in 1..Len(t) : (s \o t)[Len(s) + i] = t[i]
<1>1. /\ s \o t \in Seq(S) /\ Len(s \o t) = Len(s) + Len(t)
      /\ \A i \in 1..(Len(s) + Len(t)) : (s \o t)[i] = IF i <= Len(s) THEN s[i] ELSE t[i - Len(s)]
  BY ConcatProperties
<1>2. Len(s) \in Nat /\ Len(t) \in Nat  OBVIOUS
<1>3. ASSUME NEW i \in 1..Len(s)  PROVE (s \o t)[i] = s[i]
  <2>1. i \in 1..(Len(s) + Len(t)) /\ i <= Len(s)  BY <1>2
  <2> QED  BY <1>1, <2>1
<1>4. ASSUME NEW i \in 1..Len(t)  PROVE (s \o t)[Len(s) + i] = t[i]
  <2>1. /\ Len(s) + i \in 1..(Len(s) + Len(t)) /\ ~(Len(s) + i <= Len(s))
        /\ (Len(s) + i) - Len(s) = i
    BY <1>2
  <2> QED  BY <1>1, <2>1
<1> QED  BY <1>1, <1>3, <1>4

(* A part that lies in the first of two sequences.                         *)
LEMMA PartInFront ==
    ASSUME NEW S, NEW s \in Seq(S), NEW t \in Seq(S), NEW a \in Nat \ {0}, NEW b \in Nat,
           b <= Len(s)
    PROVE  SubSeq(s \o t, a, b) = SubSeq(s, a, b)
<1>1. CASE b < a
  <2>1. a \in Int /\ b \in Int  OBVIOUS
  <2> QED  BY <1>1, <2>1, SubSeqEmpty
<1>2. CASE a <= b
  <2>1. a \in 1..Len(s) /\ b \in 1..Len(s)  BY <1>2
  <2> QED  BY <2>1, SubSeqOfConcat1
<1> QED  BY <1>1, <1>2

(* What is left of a sequence without its first n members.                 *)
LEMMA Suffix ==
    ASSUME NEW S, NEW s \in Seq(S), NEW n \in Nat, n <= Len(s)
    PROVE  /\ SubSeq(s, n + 1, Len(s)) \in Seq(S) /\ Len(SubSeq(s, n + 1, Len(s))) = Len(s) - n
           /\ \A i \in 1..(Len(s) - n) : SubSeq(s, n + 1, Len(s))[i] = s[n + i]
<1>1. n + 1 \in Int /\ Len(s) \in Int /\ Len(s) - (n + 1) + 1 = Len(s) - n  OBVIOUS
<1>2. \A i \in n + 1..Len(s) : s[i] \in S
  <2>1. \A i \in n + 1..Len(s) : i \in 1..Len(s)  OBVIOUS
  <2> QED  BY <2>1, ElementOfSeq
<1>3. PICK a : a = SubSeq(s, n + 1, Len(s))  OBVIOUS
<1>4. /\ a \in Seq(S) /\ Len(a) = IF n + 1 <= Len(s) THEN Len(s) - (n + 1) + 1 ELSE 0
      /\ \A i \in 1..(Len(s) - (n + 1) + 1) : a[i] = s[(n + 1) + i - 1]
  BY <1>1, <1>2, <1>3, SubSeqProperties
<1>5. Len(a) = Len(s) - n  BY <1>4
<1>6. ASSUME NEW i \in 1..(Len(s) - n)  PROVE a[i] = s[n + i]
  <2>1. (n + 1) + i - 1 = n + i /\ i \in 1..(Len(s) - (n + 1) + 1)  BY <1>1
  <2> QED  BY <1>4, <2>1
<1> QED  BY <1>3, <1>4, <1>5, <1>6

(* And of two sequences without the first members of the first.            *)
LEMMA SuffixOfConcat ==
    ASSUME NEW S, NEW s \in Seq(S), NEW t \in Seq(S), NEW n \in Nat, n <= Len(s)
    PROVE  SubSeq(s \o t, n + 1, Len(s \o t)) = SubSeq(s, n + 1, Len(s)) \o t
<1>1. PICK u \in Seq(S) : u = s \o t  BY InFront
<1>2. /\ Len(u) = Len(s) + Len(t)
      /\ \A i \in 1..Len(s) : u[i] = s[i] /\ \A j \in 1..Len(t) : u[Len(s) + j] = t[j]
  BY <1>1, InFront
<1>3. Len(s) \in Nat /\ Len(t) \in Nat /\ n <= Len(u)  BY <1>2
<1>4. PICK a \in Seq(S) : a = SubSeq(u, n + 1, Len(u))  BY <1>3, Suffix
<1>5. Len(a) = Len(u) - n /\ \A i \in 1..(Len(u) - n) : a[i] = u[n + i]
  BY <1>3, <1>4, Suffix
<1>6. PICK b \in Seq(S) : b = SubSeq(s, n + 1, Len(s))  BY Suffix
<1>7. Len(b) = Len(s) - n /\ \A i \in 1..(Len(s) - n) : b[i] = s[n + i]
  BY <1>6, Suffix
<1>8. PICK d \in Seq(S) : d = b \o t  BY InFront
<1>9. /\ Len(d) = Len(b) + Len(t)
      /\ \A i \in 1..Len(b) : d[i] = b[i]
      /\ \A i \in 1..Len(t) : d[Len(b) + i] = t[i]
  BY <1>8, InFront
<1>10. Len(a) = Len(d)  BY <1>2, <1>3, <1>5, <1>7, <1>9
<1>11. ASSUME NEW i \in 1..Len(a)  PROVE a[i] = d[i]
  <2>1. i \in 1..(Len(u) - n)  BY <1>5
  <2>2. CASE i <= Len(b)
    <3>1. i \in 1..Len(b) /\ i \in 1..(Len(s) - n) /\ n + i \in 1..Len(s)
      BY <1>3, <1>7, <2>2
    <3>2. u[n + i] = s[n + i]  BY <1>1, <3>1, InFront
    <3> QED  BY <1>5, <1>7, <1>9, <2>1, <3>1, <3>2
  <2>3. CASE i > Len(b)
    <3>1. PICK j \in 1..Len(t) : j = i - Len(b)
      BY <1>2, <1>3, <1>5, <1>7, <2>3
    <3>2. n + i = Len(s) + j /\ i = Len(b) + j  BY <1>3, <1>7, <3>1
    <3>3. u[Len(s) + j] = t[j]  BY <1>1, InFront
    <3> QED  BY <1>5, <1>9, <2>1, <3>2, <3>3
  <2>4. i <= Len(b) \/ i > Len(b)  BY <1>3, <1>7
  <2> QED  BY <2>2, <2>3, <2>4
<1>12. a = d  BY <1>10, <1>11, SeqEqual
<1> QED  BY <1>1, <1>4, <1>6, <1>8, <1>12

-----------------------------------------------------------------------------
(* decode_with_limit *)

(* Four bytes are a number, the same one with more bytes behind them.      *)
LEMMA GetType ==
    ASSUME NEW s \in Seq(Byte), NEW i \in Nat \ {0}, i + 3 <= Len(s)
    PROVE  GetU32(s, i) \in Nat /\ GetU32(s, i) = BigEndian(s, i)
<1>1. i \in 1..Len(s) /\ i + 1 \in 1..Len(s) /\ i + 2 \in 1..Len(s) /\ i + 3 \in 1..Len(s)
  OBVIOUS
<1>2. PICK a \in Byte, b \in Byte, c \in Byte, d \in Byte :
        s[i] = a /\ s[i + 1] = b /\ s[i + 2] = c /\ s[i + 3] = d
  BY <1>1
<1>3. a \in Nat /\ b \in Nat /\ c \in Nat /\ d \in Nat  BY DEF Byte
<1>4. 16777216 * a + 65536 * b + 256 * c + d = ((a * 256 + b) * 256 + c) * 256 + d
  BY <1>3
<1> QED  BY <1>2, <1>3, <1>4 DEF GetU32, BigEndian

LEMMA GetKept ==
    ASSUME NEW s \in Seq(Byte), NEW t \in Seq(Byte), NEW i \in Nat \ {0}, i + 3 <= Len(s)
    PROVE  GetU32(s \o t, i) = GetU32(s, i)
<1>1. i \in 1..Len(s) /\ i + 1 \in 1..Len(s) /\ i + 2 \in 1..Len(s) /\ i + 3 \in 1..Len(s)
  OBVIOUS
<1>2. \A j \in 1..Len(s) : (s \o t)[j] = s[j]  BY InFront
<1> QED  BY <1>1, <1>2 DEF GetU32

(* The type of a frame is one of four bytes, all different.                *)
LEMMA TypesDiffer ==
    /\ TYPE_WINDOW # TYPE_ACK /\ TYPE_WINDOW # TYPE_JSON /\ TYPE_WINDOW # TYPE_COMPRESSED
    /\ TYPE_ACK # TYPE_JSON /\ TYPE_ACK # TYPE_COMPRESSED /\ TYPE_JSON # TYPE_COMPRESSED
  BY DEF TYPE_WINDOW, TYPE_ACK, TYPE_JSON, TYPE_COMPRESSED

(* What a call makes of a buffer, case by case.                            *)
LEMMA DecodeIs ==
    ASSUME NEW s, NEW max
    PROVE  LET d == DecodeWithLimit(s, max) IN
           /\ Len(s) < 2 => d = Pending(s)
           /\ ~(Len(s) < 2) =>
                /\ s[1] # PROTOCOL_VERSION => d = Fails("InvalidFrame", s)
                /\ s[1] = PROTOCOL_VERSION =>
                    /\ s[2] = TYPE_WINDOW => d = IF Len(s) < 6 THEN Pending(s)
                                                 ELSE Takes(Window(GetU32(s, 3)), 6, s)
                    /\ s[2] = TYPE_ACK => d = IF Len(s) < 6 THEN Pending(s)
                                              ELSE Takes(Ack(GetU32(s, 3)), 6, s)
                    /\ s[2] = TYPE_JSON => d = IF Len(s) < 10 THEN Pending(s)
                                               ELSE DecodeJson(s, max)
                    /\ s[2] = TYPE_COMPRESSED => d = IF Len(s) < 6 THEN Pending(s)
                                                     ELSE DecodeCompressed(s, max)
                    /\ s[2] \notin {TYPE_WINDOW, TYPE_ACK, TYPE_JSON, TYPE_COMPRESSED} =>
                           d = Fails("InvalidFrame", s)
<1> DEFINE w == IF Len(s) < 6 THEN Pending(s) ELSE Takes(Window(GetU32(s, 3)), 6, s)
           a == IF Len(s) < 6 THEN Pending(s) ELSE Takes(Ack(GetU32(s, 3)), 6, s)
           j == IF Len(s) < 10 THEN Pending(s) ELSE DecodeJson(s, max)
           z == IF Len(s) < 6 THEN Pending(s) ELSE DecodeCompressed(s, max)
           no == Fails("InvalidFrame", s)
           body == CASE s[2] = TYPE_WINDOW -> w [] s[2] = TYPE_ACK -> a
                     [] s[2] = TYPE_JSON -> j [] s[2] = TYPE_COMPRESSED -> z [] OTHER -> no
<1>1. DecodeWithLimit(s, max) = IF Len(s) < 2 THEN Pending(s)
                                ELSE IF s[1] # PROTOCOL_VERSION THEN no ELSE body
  BY Zenon DEF DecodeWithLimit
<1> HIDE DEF w, a, j, z, no
<1>2. /\ s[2] = TYPE_WINDOW => body = w
      /\ s[2] = TYPE_ACK => body = a
      /\ s[2] = TYPE_JSON => body = j
      /\ s[2] = TYPE_COMPRESSED => body = z
      /\ s[2] \notin {TYPE_WINDOW, TYPE_ACK, TYPE_JSON, TYPE_COMPRESSED} => body = no
  BY TypesDiffer
<1>3. Len(s) < 2 => DecodeWithLimit(s, max) = Pending(s)  BY <1>1
<1>4. ~(Len(s) < 2) /\ s[1] # PROTOCOL_VERSION => DecodeWithLimit(s, max) = no  BY <1>1
<1>5. ~(Len(s) < 2) /\ s[1] = PROTOCOL_VERSION => DecodeWithLimit(s, max) = body  BY <1>1
<1> HIDE DEF body
<1> QED  BY <1>2, <1>3, <1>4, <1>5 DEF w, a, j, z, no

(* Ok(None) leaves the buffer alone, and it holds less than the largest    *)
(* frame.                                                                  *)
LEMMA Waiting ==
    ASSUME NEW s \in Seq(Byte), NEW max \in Nat, DecodeWithLimit(s, max).item = <<>>
    PROVE  DecodeWithLimit(s, max).src = s /\ Len(s) < 10 + max
<1>0. Len(s) \in Nat  OBVIOUS
<1>1. ASSUME NEW x  PROVE <<x>> # <<>>
  <2>1. Len(<<x>>) = 1 /\ Len(<<>>) = 0  OBVIOUS
  <2> QED  BY <2>1
<1>5. ASSUME NEW e, NEW u  PROVE Fails(e, u).item # <<>>
  <2>1. Fails(e, u).item = <<Bad(e)>>  BY DEF Fails
  <2> QED  BY <1>1, <2>1, Zenon
<1>2. ASSUME NEW header \in {6, 10}, NEW len \in Nat, NEW frame,
             Payload(s, header, len, max, frame).item = <<>>
      PROVE  Payload(s, header, len, max, frame).src = s /\ Len(s) < 10 + max
  <2>1. ~(len > max) /\ Len(s) < header + len
    BY <1>1, <1>2 DEF Payload, Fails, Takes
  <2>2. Payload(s, header, len, max, frame).src = s  BY <2>1 DEF Payload, Pending
  <2> QED  BY <1>0, <2>1, <2>2
<1>3. CASE Len(s) < 2
  <2>1. DecodeWithLimit(s, max) = Pending(s)  BY <1>3, DecodeIs, Zenon
  <2> QED  BY <1>0, <1>3, <2>1 DEF Pending
<1>4. CASE ~(Len(s) < 2)
  <2>1. s[1] = PROTOCOL_VERSION
    <3>1. s[1] # PROTOCOL_VERSION => DecodeWithLimit(s, max) = Fails("InvalidFrame", s)
      BY <1>4, DecodeIs, Zenon
    <3> QED  BY <1>5, <3>1, Zenon
  <2>2. ASSUME NEW f, NEW d, DecodeWithLimit(s, max) = d,
               d = IF Len(s) < 6 THEN Pending(s) ELSE Takes(f, 6, s)
        PROVE  d.src = s /\ Len(s) < 10 + max
    <3>1. Len(s) < 6  BY <1>1, <2>2 DEF Takes
    <3> QED  BY <1>0, <2>2, <3>1 DEF Pending
  <2>3. CASE s[2] = TYPE_WINDOW
    <3>1. DecodeWithLimit(s, max) = IF Len(s) < 6 THEN Pending(s)
                                    ELSE Takes(Window(GetU32(s, 3)), 6, s)
      BY <1>4, <2>1, <2>3, DecodeIs, Zenon
    <3> QED  BY <2>2, <3>1, Zenon
  <2>4. CASE s[2] = TYPE_ACK
    <3>1. DecodeWithLimit(s, max) = IF Len(s) < 6 THEN Pending(s)
                                    ELSE Takes(Ack(GetU32(s, 3)), 6, s)
      BY <1>4, <2>1, <2>4, DecodeIs, Zenon
    <3> QED  BY <2>2, <3>1, Zenon
  <2>5. CASE s[2] = TYPE_JSON
    <3>1. DecodeWithLimit(s, max) = IF Len(s) < 10 THEN Pending(s) ELSE DecodeJson(s, max)
      BY <1>4, <2>1, <2>5, DecodeIs, Zenon
    <3>2. CASE Len(s) < 10  BY <1>0, <3>1, <3>2 DEF Pending
    <3>3. CASE ~(Len(s) < 10)
      <4>1. GetU32(s, 7) \in Nat  BY <1>0, <3>3, GetType
      <4> QED  BY <1>2, <3>1, <3>3, <4>1 DEF DecodeJson
    <3> QED  BY <3>2, <3>3
  <2>6. CASE s[2] = TYPE_COMPRESSED
    <3>1. DecodeWithLimit(s, max) = IF Len(s) < 6 THEN Pending(s) ELSE DecodeCompressed(s, max)
      BY <1>4, <2>1, <2>6, DecodeIs, Zenon
    <3>2. CASE Len(s) < 6  BY <1>0, <3>1, <3>2 DEF Pending
    <3>3. CASE ~(Len(s) < 6)
      <4>1. GetU32(s, 3) \in Nat  BY <1>0, <3>3, GetType
      <4> QED  BY <1>2, <3>1, <3>3, <4>1 DEF DecodeCompressed
    <3> QED  BY <3>2, <3>3
  <2>7. s[2] \in {TYPE_WINDOW, TYPE_ACK, TYPE_JSON, TYPE_COMPRESSED}
    <3>1. s[2] \notin {TYPE_WINDOW, TYPE_ACK, TYPE_JSON, TYPE_COMPRESSED} =>
            DecodeWithLimit(s, max) = Fails("InvalidFrame", s)
      BY <1>4, <2>1, DecodeIs, Zenon
    <3> QED  BY <1>5, <3>1, Zenon
  <2> QED  BY <2>3, <2>4, <2>5, <2>6, <2>7
<1> QED  BY <1>3, <1>4

(* What an item that is decoded becomes when more bytes lie behind it: the *)
(* same item, and the same bytes are taken.  An error takes none, unless a *)
(* payload did not inflate.                                                *)
Decides(s, x, n) ==
    /\ n \in 0..Len(s)
    /\ DecodeWithLimit(s, max_frame_size) = Takes(x, n, s)
    /\ \A t \in Seq(Byte) : DecodeWithLimit(s \o t, max_frame_size) = Takes(x, n, s \o t)

LEMMA FailsTakes ==
    ASSUME NEW s \in Seq(Byte), NEW e
    PROVE  Fails(e, s) = Takes(Bad(e), 0, s)
<1>1. SubSeq(s, 1, Len(s)) = s  BY SubSeqFull
<1>2. 0 + 1 = 1  OBVIOUS
<1> QED  BY <1>1, <1>2 DEF Fails, Takes

LEMMA NotEmpty ==
    /\ \A x : <<x>> # <<>>
    /\ \A x, n, s : Takes(x, n, s).item = <<x>>
    /\ \A s : Pending(s).item = <<>>
<1>1. ASSUME NEW x  PROVE <<x>> # <<>>
  <2>1. Len(<<x>>) = 1 /\ Len(<<>>) = 0  OBVIOUS
  <2> QED  BY <2>1
<1> QED  BY <1>1 DEF Takes, Pending

LEMMA SameFront ==
    ASSUME NEW s \in Seq(Byte), NEW t \in Seq(Byte), NEW i \in Nat, i <= Len(s)
    PROVE  /\ ~(Len(s \o t) < i) /\ s \o t \in Seq(Byte) /\ Len(s \o t) \in Nat
           /\ i > 0 => (s \o t)[i] = s[i]
<1>1. Len(s) \in Nat /\ Len(t) \in Nat  OBVIOUS
<1>2. Len(s \o t) = Len(s) + Len(t) /\ s \o t \in Seq(Byte)  BY InFront
<1>3. i > 0 => i \in 1..Len(s)  BY <1>1
<1> QED  BY <1>1, <1>2, <1>3, InFront

LEMMA PayloadDecides ==
    ASSUME NEW s \in Seq(Byte), NEW t \in Seq(Byte), NEW header \in {6, 10}, NEW len \in Nat,
           NEW max \in Nat, NEW frame, NEW more, header + len <= Len(s) => frame = more,
           Payload(s, header, len, max, frame).item # <<>>
    PROVE  \/ /\ len > max
              /\ Payload(s, header, len, max, frame) = Takes(Bad("FrameTooLarge"), 0, s)
              /\ Payload(s \o t, header, len, max, more) = Takes(Bad("FrameTooLarge"), 0, s \o t)
           \/ /\ ~(len > max) /\ header + len \in 0..Len(s)
              /\ Payload(s, header, len, max, frame) = Takes(frame, header + len, s)
              /\ Payload(s \o t, header, len, max, more) = Takes(frame, header + len, s \o t)
<1>0. Len(s) \in Nat /\ header + len \in Nat /\ s \o t \in Seq(Byte)  BY InFront
<1>1. CASE len > max
  <2>1. /\ Payload(s, header, len, max, frame) = Fails("FrameTooLarge", s)
        /\ Payload(s \o t, header, len, max, more) = Fails("FrameTooLarge", s \o t)
    BY <1>1 DEF Payload
  <2> QED  BY <1>0, <1>1, <2>1, FailsTakes
<1>2. CASE ~(len > max)
  <2>1. ~(Len(s) < header + len)
    <3>1. Len(s) < header + len => Payload(s, header, len, max, frame) = Pending(s)
      BY <1>2 DEF Payload
    <3> QED  BY <3>1, NotEmpty, Zenon
  <2>2. header + len <= Len(s)  BY <1>0, <2>1
  <2>3. ~(Len(s \o t) < header + len)  BY <1>0, <2>2, SameFront
  <2>4. /\ Payload(s, header, len, max, frame) = Takes(frame, header + len, s)
        /\ Payload(s \o t, header, len, max, more) = Takes(more, header + len, s \o t)
    BY <1>2, <2>1, <2>3 DEF Payload
  <2>5. header + len \in 0..Len(s)  BY <1>0, <2>2
  <2>6. frame = more  BY <2>2
  <2> QED  BY <1>2, <2>4, <2>5, <2>6, Zenon
<1> QED  BY <1>1, <1>2

(* A payload of len bytes behind a header; more[t]: its frame with t       *)
(* behind s.                                                               *)
PaysAt(s, header, len, frame, more) ==
    /\ header \in {6, 10} /\ len \in Nat
    /\ DecodeWithLimit(s, max_frame_size) = Payload(s, header, len, max_frame_size, frame)
    /\ \A t \in Seq(Byte) :
        /\ DecodeWithLimit(s \o t, max_frame_size) =
                Payload(s \o t, header, len, max_frame_size, more[t])
        /\ header + len <= Len(s) => frame = more[t]

(* An item that is decoded is decided: no later byte changes it.           *)
LEMMA Stable ==
    ASSUME NEW s \in Seq(Byte), DecodeWithLimit(s, max_frame_size).item # <<>>
    PROVE  \E x, n : Decides(s, x, n)
<1> DEFINE max == max_frame_size
<1>0. max \in Nat /\ Len(s) \in Nat  BY FramedAssumption
<1> HIDE DEF max
<1>1. ASSUME NEW t \in Seq(Byte)  PROVE s \o t \in Seq(Byte)  BY InFront
<1>2. ~(Len(s) < 2)
  <2>1. Len(s) < 2 => DecodeWithLimit(s, max_frame_size) = Pending(s)  BY DecodeIs, Zenon
  <2> QED  BY <2>1, NotEmpty, Zenon
<1>3. ASSUME NEW t \in Seq(Byte)
      PROVE  ~(Len(s \o t) < 2) /\ (s \o t)[1] = s[1] /\ (s \o t)[2] = s[2]
  <2>1. 2 <= Len(s) /\ 1 <= Len(s)  BY <1>0, <1>2
  <2> QED  BY <2>1, SameFront
<1>4. ASSUME NEW e, DecodeWithLimit(s, max_frame_size) = Fails(e, s),
             \A t \in Seq(Byte) : DecodeWithLimit(s \o t, max_frame_size) = Fails(e, s \o t)
      PROVE  Decides(s, Bad(e), 0)
  <2>1. 0 \in 0..Len(s)  BY <1>0
  <2> QED  BY <1>1, <1>4, <2>1, FailsTakes DEF Decides
<1>5. CASE s[1] # PROTOCOL_VERSION
  <2>1. DecodeWithLimit(s, max_frame_size) = Fails("InvalidFrame", s)
    BY <1>2, <1>5, DecodeIs, Zenon
  <2>2. \A t \in Seq(Byte) : DecodeWithLimit(s \o t, max_frame_size) = Fails("InvalidFrame", s \o t)
    BY <1>3, <1>5, DecodeIs, Zenon
  <2> QED  BY <1>4, <2>1, <2>2, Zenon
<1>6. CASE s[1] = PROTOCOL_VERSION /\ s[2] \notin {TYPE_WINDOW, TYPE_ACK, TYPE_JSON, TYPE_COMPRESSED}
  <2>1. DecodeWithLimit(s, max_frame_size) = Fails("InvalidFrame", s)
    BY <1>2, <1>6, DecodeIs, Zenon
  <2>2. ASSUME NEW t \in Seq(Byte)
        PROVE DecodeWithLimit(s \o t, max_frame_size) = Fails("InvalidFrame", s \o t)
    <3>1. (s \o t)[1] = PROTOCOL_VERSION /\ ~(Len(s \o t) < 2)
          /\ (s \o t)[2] \notin {TYPE_WINDOW, TYPE_ACK, TYPE_JSON, TYPE_COMPRESSED}
      BY <1>3, <1>6
    <3> QED  BY <3>1, DecodeIs, Zenon
  <2> QED  BY <1>4, <2>1, <2>2, Zenon
<1>7. CASE s[1] = PROTOCOL_VERSION /\ s[2] = TYPE_WINDOW
  <2> DEFINE g == Window(GetU32(s, 3))
  <2>1. ~(Len(s) < 6)
    <3>1. Len(s) < 6 => DecodeWithLimit(s, max_frame_size) = Pending(s)
      BY <1>2, <1>7, DecodeIs, Zenon
    <3> QED  BY <3>1, NotEmpty, Zenon
  <2>2. 6 <= Len(s) /\ 3 + 3 <= Len(s)  BY <1>0, <2>1
  <2>3. DecodeWithLimit(s, max_frame_size) = Takes(g, 6, s)
    BY <1>2, <1>7, <2>1, DecodeIs, Zenon
  <2>4. ASSUME NEW t \in Seq(Byte)
        PROVE DecodeWithLimit(s \o t, max_frame_size) = Takes(g, 6, s \o t)
    <3>1. ~(Len(s \o t) < 6)  BY <2>2, SameFront
    <3>2. GetU32(s \o t, 3) = GetU32(s, 3)  BY <2>2, GetKept
    <3>3. DecodeWithLimit(s \o t, max_frame_size) = Takes(Window(GetU32(s \o t, 3)), 6, s \o t)
      BY <1>3, <1>7, <3>1, DecodeIs, Zenon
    <3> QED  BY <3>2, <3>3
  <2>5. 6 \in 0..Len(s)  BY <1>0, <2>2
  <2> QED  BY <2>3, <2>4, <2>5, Zenon DEF Decides
<1>8. CASE s[1] = PROTOCOL_VERSION /\ s[2] = TYPE_ACK
  <2> DEFINE g == Ack(GetU32(s, 3))
  <2>1. ~(Len(s) < 6)
    <3>1. Len(s) < 6 => DecodeWithLimit(s, max_frame_size) = Pending(s)
      BY <1>2, <1>8, DecodeIs, Zenon
    <3> QED  BY <3>1, NotEmpty, Zenon
  <2>2. 6 <= Len(s) /\ 3 + 3 <= Len(s)  BY <1>0, <2>1
  <2>3. DecodeWithLimit(s, max_frame_size) = Takes(g, 6, s)
    BY <1>2, <1>8, <2>1, DecodeIs, Zenon
  <2>4. ASSUME NEW t \in Seq(Byte)
        PROVE DecodeWithLimit(s \o t, max_frame_size) = Takes(g, 6, s \o t)
    <3>1. ~(Len(s \o t) < 6)  BY <2>2, SameFront
    <3>2. GetU32(s \o t, 3) = GetU32(s, 3)  BY <2>2, GetKept
    <3>3. DecodeWithLimit(s \o t, max_frame_size) = Takes(Ack(GetU32(s \o t, 3)), 6, s \o t)
      BY <1>3, <1>8, <3>1, DecodeIs, Zenon
    <3> QED  BY <3>2, <3>3
  <2>5. 6 \in 0..Len(s)  BY <1>0, <2>2
  <2> QED  BY <2>3, <2>4, <2>5, Zenon DEF Decides
<1>9. ASSUME NEW header, NEW len, NEW frame, NEW more, PaysAt(s, header, len, frame, more)
      PROVE  \E x, n : Decides(s, x, n)
  <2>0. /\ header \in {6, 10} /\ len \in Nat
        /\ DecodeWithLimit(s, max_frame_size) = Payload(s, header, len, max_frame_size, frame)
        /\ \A t \in Seq(Byte) :
            /\ DecodeWithLimit(s \o t, max_frame_size) =
                    Payload(s \o t, header, len, max_frame_size, more[t])
            /\ header + len <= Len(s) => frame = more[t]
    BY <1>9 DEF PaysAt
  <2>1. Payload(s, header, len, max_frame_size, frame).item # <<>>  BY <2>0, Zenon
  <2>2. 0 \in 0..Len(s) /\ max_frame_size \in Nat  BY <1>0 DEF max
  <2>3. CASE len > max_frame_size
    <3>1. DecodeWithLimit(s, max_frame_size) = Fails("FrameTooLarge", s)
      BY <2>0, <2>3 DEF Payload
    <3>2. ASSUME NEW t \in Seq(Byte)
          PROVE  DecodeWithLimit(s \o t, max_frame_size) = Fails("FrameTooLarge", s \o t)
      BY <2>0, <2>3 DEF Payload
    <3> QED  BY <1>4, <3>1, <3>2, Zenon
  <2>4. CASE ~(len > max_frame_size)
    <3>1. ASSUME NEW t \in Seq(Byte)
          PROVE  /\ header + len \in 0..Len(s)
                 /\ DecodeWithLimit(s, max_frame_size) = Takes(frame, header + len, s)
                 /\ DecodeWithLimit(s \o t, max_frame_size) = Takes(frame, header + len, s \o t)
      <4>1. header + len <= Len(s) => frame = more[t]  BY <2>0
      <4> QED  BY <2>0, <2>1, <2>2, <2>4, <4>1, PayloadDecides
    <3>2. <<>> \in Seq(Byte)  OBVIOUS
    <3> QED  BY <3>1, <3>2, Zenon DEF Decides
  <2> QED  BY <2>3, <2>4
<1>10. CASE s[1] = PROTOCOL_VERSION /\ s[2] = TYPE_JSON
  <2> DEFINE len == GetU32(s, 7)
             frame == Json(GetU32(s, 3), SubSeq(s, 11, 10 + len))
             more == [t \in Seq(Byte) |-> Json(GetU32(s, 3), SubSeq(s \o t, 11, 10 + len))]
  <2>1. ~(Len(s) < 10)
    <3>1. Len(s) < 10 => DecodeWithLimit(s, max_frame_size) = Pending(s)
      BY <1>2, <1>10, DecodeIs, Zenon
    <3> QED  BY <3>1, NotEmpty, Zenon
  <2>2. 10 <= Len(s) /\ 3 + 3 <= Len(s) /\ 7 + 3 <= Len(s)  BY <1>0, <2>1
  <2>3. DecodeWithLimit(s, max_frame_size) = DecodeJson(s, max_frame_size)
    BY <1>2, <1>10, <2>1, DecodeIs, Zenon
  <2>4. DecodeWithLimit(s, max_frame_size) = Payload(s, 10, len, max_frame_size, frame)
    BY <2>3, Zenon DEF DecodeJson
  <2>5. len \in Nat  BY <2>2, GetType
  <2>6. ASSUME NEW t \in Seq(Byte)
        PROVE  /\ DecodeWithLimit(s \o t, max_frame_size) =
                        Payload(s \o t, 10, len, max_frame_size, more[t])
               /\ 10 + len <= Len(s) => frame = more[t]
    <3>1. ~(Len(s \o t) < 10)  BY <2>2, SameFront
    <3>2. GetU32(s \o t, 3) = GetU32(s, 3)  BY <2>2, GetKept
    <3>3. GetU32(s \o t, 7) = GetU32(s, 7)  BY <2>2, GetKept
    <3>4. DecodeWithLimit(s \o t, max_frame_size) = DecodeJson(s \o t, max_frame_size)
      BY <1>3, <1>10, <3>1, DecodeIs, Zenon
    <3>5. DecodeJson(s \o t, max_frame_size) = Payload(s \o t, 10, len, max_frame_size, more[t])
      BY <3>2, <3>3, Zenon DEF DecodeJson
    <3>6. 10 + len <= Len(s) => SubSeq(s \o t, 11, 10 + len) = SubSeq(s, 11, 10 + len)
      <4> HIDE DEF len
      <4>1. 10 + len \in Nat  BY <2>5
      <4> QED  BY <4>1, PartInFront
    <3>7. 10 + len <= Len(s) => frame = more[t]  BY <3>6, Zenon
    <3> QED  BY <3>4, <3>5, <3>7, Zenon
  <2> HIDE DEF len, frame, more
  <2>7. PICK h \in {6, 10} : h = 10  OBVIOUS
  <2>8. /\ DecodeWithLimit(s, max_frame_size) = Payload(s, h, len, max_frame_size, frame)
        /\ \A t \in Seq(Byte) :
            /\ DecodeWithLimit(s \o t, max_frame_size) =
                    Payload(s \o t, h, len, max_frame_size, more[t])
            /\ h + len <= Len(s) => frame = more[t]
    BY <2>4, <2>6, <2>7, Zenon
  <2>9. PaysAt(s, h, len, frame, more)  BY <2>5, <2>8, Zenon DEF PaysAt
  <2> QED  BY <1>9, <2>9, Zenon
<1>11. CASE s[1] = PROTOCOL_VERSION /\ s[2] = TYPE_COMPRESSED
  <2> DEFINE len == GetU32(s, 3)
             frame == ZlibDecompress(SubSeq(s, 7, 6 + len), max_frame_size)
             more == [t \in Seq(Byte) |-> ZlibDecompress(SubSeq(s \o t, 7, 6 + len), max_frame_size)]
  <2>1. ~(Len(s) < 6)
    <3>1. Len(s) < 6 => DecodeWithLimit(s, max_frame_size) = Pending(s)
      BY <1>2, <1>11, DecodeIs, Zenon
    <3> QED  BY <3>1, NotEmpty, Zenon
  <2>2. 6 <= Len(s) /\ 3 + 3 <= Len(s)  BY <1>0, <2>1
  <2>3. DecodeWithLimit(s, max_frame_size) = DecodeCompressed(s, max_frame_size)
    BY <1>2, <1>11, <2>1, DecodeIs, Zenon
  <2>4. DecodeWithLimit(s, max_frame_size) = Payload(s, 6, len, max_frame_size, frame)
    BY <2>3, Zenon DEF DecodeCompressed
  <2>5. len \in Nat  BY <2>2, GetType
  <2>6. ASSUME NEW t \in Seq(Byte)
        PROVE  /\ DecodeWithLimit(s \o t, max_frame_size) =
                        Payload(s \o t, 6, len, max_frame_size, more[t])
               /\ 6 + len <= Len(s) => frame = more[t]
    <3>1. ~(Len(s \o t) < 6)  BY <2>2, SameFront
    <3>2. GetU32(s \o t, 3) = GetU32(s, 3)  BY <2>2, GetKept
    <3>4. DecodeWithLimit(s \o t, max_frame_size) = DecodeCompressed(s \o t, max_frame_size)
      BY <1>3, <1>11, <3>1, DecodeIs, Zenon
    <3>5. DecodeCompressed(s \o t, max_frame_size) =
            Payload(s \o t, 6, len, max_frame_size, more[t])
      BY <3>2, Zenon DEF DecodeCompressed
    <3>6. 6 + len <= Len(s) => SubSeq(s \o t, 7, 6 + len) = SubSeq(s, 7, 6 + len)
      <4> HIDE DEF len
      <4>1. 6 + len \in Nat  BY <2>5
      <4> QED  BY <4>1, PartInFront
    <3>7. 6 + len <= Len(s) => frame = more[t]  BY <3>6, Zenon
    <3> QED  BY <3>4, <3>5, <3>7, Zenon
  <2> HIDE DEF len, frame, more
  <2>7. PICK h \in {6, 10} : h = 6  OBVIOUS
  <2>8. /\ DecodeWithLimit(s, max_frame_size) = Payload(s, h, len, max_frame_size, frame)
        /\ \A t \in Seq(Byte) :
            /\ DecodeWithLimit(s \o t, max_frame_size) =
                    Payload(s \o t, h, len, max_frame_size, more[t])
            /\ h + len <= Len(s) => frame = more[t]
    BY <2>4, <2>6, <2>7, Zenon
  <2>9. PaysAt(s, h, len, frame, more)  BY <2>5, <2>8, Zenon DEF PaysAt
  <2> QED  BY <1>9, <2>9, Zenon
<1>12. s[2] \in {TYPE_WINDOW, TYPE_ACK, TYPE_JSON, TYPE_COMPRESSED}
        => s[2] = TYPE_WINDOW \/ s[2] = TYPE_ACK \/ s[2] = TYPE_JSON \/ s[2] = TYPE_COMPRESSED
  OBVIOUS
<1> QED  BY <1>5, <1>6, <1>7, <1>8, <1>10, <1>11, <1>12, Zenon

-----------------------------------------------------------------------------
(* Frame::encode *)

(* A number of 32 bits is read back as it was put.                         *)
LEMMA PutGet ==
    ASSUME NEW n, IsU32(n)
    PROVE  /\ PutU32(n) \in Seq(Byte) /\ Len(PutU32(n)) = 4
           /\ GetU32(PutU32(n), 1) = n
<1>1. n \in Nat /\ n \div 16777216 < 256  BY DEF IsU32
<1>2. PICK a, b, c, d : /\ a = (n \div 16777216) % 256 /\ b = (n \div 65536) % 256
                        /\ c = (n \div 256) % 256 /\ d = n % 256
  OBVIOUS
<1>3. a \in Byte /\ b \in Byte /\ c \in Byte /\ d \in Byte  BY <1>1, <1>2 DEF Byte
<1>4. 16777216 * a + 65536 * b + 256 * c + d = n
  <2>1. PICK u \in Nat, v \in Nat : u = n \div 256 /\ v = n \div 65536  BY <1>1
  <2>2. n = 256 * u + d  BY <1>1, <1>2, <2>1
  <2>3. v = u \div 256  BY <1>1, <2>1
  <2>4. u = 256 * v + c  BY <1>2, <2>1, <2>3
  <2>5. n \div 16777216 = v \div 256  BY <1>1, <2>1
  <2>6. v = 256 * a + b  BY <1>1, <1>2, <2>1, <2>5
  <2>7. a \in Nat /\ b \in Nat /\ c \in Nat /\ d \in Nat  BY <1>3 DEF Byte
  <2> QED  BY <1>1, <2>1, <2>2, <2>4, <2>6, <2>7
<1>5. PutU32(n) = <<a, b, c, d>>  BY <1>2 DEF PutU32
<1>6. <<a, b, c, d>> \in Seq(Byte) /\ Len(<<a, b, c, d>>) = 4  BY <1>3
<1>7. GetU32(<<a, b, c, d>>, 1) = n  BY <1>4, SMT DEF GetU32
<1> QED  BY <1>5, <1>6, <1>7, Zenon

LEMMA Rest ==
    ASSUME NEW S, NEW s \in Seq(S), NEW t \in Seq(S)
    PROVE  SubSeq(s \o t, Len(s) + 1, Len(s \o t)) = t
<1>1. Len(s) \in Nat /\ Len(s) <= Len(s)  OBVIOUS
<1>2. SubSeq(s \o t, Len(s) + 1, Len(s \o t)) = SubSeq(s, Len(s) + 1, Len(s)) \o t
  BY <1>1, SuffixOfConcat
<1>3. SubSeq(s, Len(s) + 1, Len(s)) = <<>>
  <2>1. Len(s) + 1 \in Int /\ Len(s) \in Int /\ Len(s) < Len(s) + 1  BY <1>1
  <2> QED  BY <2>1, SubSeqEmpty
<1> QED  BY <1>2, <1>3, ConcatEmptySeq

(* The six bytes every frame starts with: version, type, one number.       *)
Header(type, n) == <<PROTOCOL_VERSION, type>> \o PutU32(n)

LEMMA HeaderIs ==
    ASSUME NEW type \in Byte, NEW n, IsU32(n), NEW t \in Seq(Byte)
    PROVE  /\ Header(type, n) \in Seq(Byte) /\ Len(Header(type, n)) = 6
           /\ Header(type, n) \o t \in Seq(Byte) /\ Len(Header(type, n) \o t) = 6 + Len(t)
           /\ (Header(type, n) \o t)[1] = PROTOCOL_VERSION /\ (Header(type, n) \o t)[2] = type
           /\ GetU32(Header(type, n) \o t, 3) = n
<1>1. PICK p \in Seq(Byte) : p = PutU32(n)  BY PutGet
<1>2. Len(p) = 4 /\ GetU32(p, 1) = n  BY <1>1, PutGet
<1>3. PICK v \in Seq(Byte) : v = <<PROTOCOL_VERSION, type>>
  <2>1. PROTOCOL_VERSION \in Byte  BY DEF PROTOCOL_VERSION, Byte
  <2>2. <<PROTOCOL_VERSION, type>> \in Seq(Byte)  BY <2>1
  <2> QED  BY <2>2, Zenon
<1>4. Len(v) = 2 /\ v[1] = PROTOCOL_VERSION /\ v[2] = type  BY <1>3
<1>5. PICK h \in Seq(Byte) : h = v \o p  BY InFront
<1>6. /\ Len(h) = 6 /\ h[1] = PROTOCOL_VERSION /\ h[2] = type
      /\ h[3] = p[1] /\ h[4] = p[2] /\ h[5] = p[3] /\ h[6] = p[4]
  <2>1. /\ Len(h) = Len(v) + Len(p) /\ \A i \in 1..Len(v) : h[i] = v[i]
        /\ \A i \in 1..Len(p) : h[Len(v) + i] = p[i]
    BY <1>5, InFront
  <2>2. 1 \in 1..Len(v) /\ 2 \in 1..Len(v)  BY <1>4
  <2>3. \A i \in 1..4 : h[2 + i] = p[i]  BY <1>2, <1>4, <2>1
  <2>4. h[1] = v[1] /\ h[2] = v[2]  BY <1>5, <2>2, InFront
  <2> QED  BY <1>2, <1>4, <2>1, <2>3, <2>4
<1>7. h = Header(type, n)  BY <1>1, <1>3, <1>5 DEF Header
<1>8. PICK u \in Seq(Byte) : u = h \o t  BY InFront
<1>9. Len(u) = 6 + Len(t) /\ \A i \in 1..6 : u[i] = h[i]
  <2>1. Len(u) = Len(h) + Len(t) /\ \A i \in 1..Len(h) : u[i] = h[i]
    BY <1>8, InFront
  <2> QED  BY <1>6, <2>1
<1>10. GetU32(u, 3) = n  BY <1>2, <1>6, <1>9, SMT DEF GetU32
<1> QED  BY <1>6, <1>7, <1>8, <1>9, <1>10

(* What a frame's bytes decode to: the frame, or the error it deserves;    *)
(* all of them are taken.                                                  *)
RoundTrips(f) ==
    /\ Bytes(f) \in Seq(Byte)
    /\ DecodeWithLimit(Bytes(f), max_frame_size).item = <<Limited(f)>>
    /\ Limited(f).type # "X" => DecodeWithLimit(Bytes(f), max_frame_size).src = <<>>

LEMMA TakesAll ==
    ASSUME NEW s \in Seq(Byte), NEW x
    PROVE  Takes(x, Len(s), s).item = <<x>> /\ Takes(x, Len(s), s).src = <<>>
<1>1. Len(s) + 1 \in Int /\ Len(s) \in Int /\ Len(s) < Len(s) + 1  OBVIOUS
<1>2. SubSeq(s, Len(s) + 1, Len(s)) = <<>>  BY <1>1, SubSeqEmpty
<1> QED  BY <1>2 DEF Takes

LEMMA ControlRoundTrips ==
    ASSUME NEW f, WellFormed(f), f.type = "W" \/ f.type = "A"
    PROVE  RoundTrips(f)
<1>1. PICK type, n, g :
        /\ type \in Byte /\ IsU32(n) /\ Bytes(f) = Header(type, n) /\ Limited(f) = f /\ f = g
        /\ \/ type = TYPE_WINDOW /\ g = Window(n)
           \/ type = TYPE_ACK /\ g = Ack(n)
  <2>1. CASE f.type = "W"
    <3>1. f = Window(f.n) /\ IsU32(f.n)  BY <2>1 DEF WellFormed
    <3>2. Bytes(f) = Header(TYPE_WINDOW, f.n)  BY <2>1, SMT DEF Bytes, Encode, Header
    <3>3. Limited(f) = f  BY <2>1, SMT DEF Limited
    <3>4. TYPE_WINDOW \in Byte  BY DEF TYPE_WINDOW, Byte
    <3> QED  BY <3>1, <3>2, <3>3, <3>4
  <2>2. CASE f.type = "A"
    <3>1. f = Ack(f.seq) /\ IsU32(f.seq)  BY <2>2 DEF WellFormed
    <3>2. Bytes(f) = Header(TYPE_ACK, f.seq)  BY <2>2, SMT DEF Bytes, Encode, Header
    <3>3. Limited(f) = f  BY <2>2, SMT DEF Limited
    <3>4. TYPE_ACK \in Byte  BY DEF TYPE_ACK, Byte
    <3> QED  BY <3>1, <3>2, <3>3, <3>4
  <2> QED  BY <2>1, <2>2
<1>2. PICK b \in Seq(Byte) : /\ b = Header(type, n) /\ Len(b) = 6 /\ b[1] = PROTOCOL_VERSION
                             /\ b[2] = type /\ GetU32(b, 3) = n
  <2>1. PICK t \in Seq(Byte) : t = <<>>  BY EmptySeq, Zenon
  <2>2. Header(type, n) \in Seq(Byte) /\ Header(type, n) \o t = Header(type, n)
    BY <1>1, <2>1, HeaderIs, ConcatEmptySeq
  <2>3. Len(t) = 0  BY <2>1
  <2>4. PICK b \in Seq(Byte) : b = Header(type, n) /\ b = Header(type, n) \o t
    BY <2>2, Zenon
  <2>5. /\ Len(b) = 6 /\ b[1] = PROTOCOL_VERSION /\ b[2] = type /\ GetU32(b, 3) = n
    <3>1. IsU32(n) /\ type \in Byte  BY <1>1
    <3>2. LET u == Header(type, n) \o t IN
            Len(u) = 6 + Len(t) /\ u[1] = PROTOCOL_VERSION /\ u[2] = type /\ GetU32(u, 3) = n
      BY <3>1, HeaderIs
    <3>3. Len(b) = 6 + Len(t) /\ b[1] = PROTOCOL_VERSION /\ b[2] = type /\ GetU32(b, 3) = n
      BY <2>4, <3>2, Zenon
    <3> QED  BY <2>3, <3>3
  <2> QED  BY <2>4, <2>5, Zenon
<1>3. ~(Len(b) < 2) /\ ~(Len(b) < 6)  BY <1>2
<1>4. DecodeWithLimit(b, max_frame_size) = Takes(g, 6, b)
  <2>1. CASE type = TYPE_WINDOW /\ g = Window(n)
    <3>1. b[2] = TYPE_WINDOW  BY <1>2, <2>1
    <3> QED  BY <1>2, <1>3, <2>1, <3>1, DecodeIs, Zenon
  <2>2. CASE type = TYPE_ACK /\ g = Ack(n)
    <3>1. b[2] = TYPE_ACK  BY <1>2, <2>2
    <3> QED  BY <1>2, <1>3, <2>2, <3>1, DecodeIs, Zenon
  <2> QED  BY <1>1, <2>1, <2>2
<1> QED  BY <1>1, <1>2, <1>4, TakesAll DEF RoundTrips

LEMMA JsonRoundTrips ==
    ASSUME NEW f, WellFormed(f), f.type = "J"
    PROVE  RoundTrips(f)
<1>1. /\ f = Json(f.seq, f.data) /\ IsU32(f.seq) /\ f.data \in Seq(Byte) /\ IsU32(Len(f.data))
  BY DEF WellFormed
<1>2. PICK n : n = f.seq  OBVIOUS
<1>3. PICK d \in Seq(Byte) : d = f.data  BY <1>1
<1>4. PICK p \in Seq(Byte) : p = PutU32(Len(d))  BY <1>1, <1>3, PutGet
<1>5. Len(p) = 4 /\ GetU32(p, 1) = Len(d)
  BY <1>1, <1>3, <1>4, PutGet
<1>6. TYPE_JSON \in Byte  BY DEF TYPE_JSON, Byte
<1>7. PICK h \in Seq(Byte) : h = Header(TYPE_JSON, n) /\ Len(h) = 6
  <2>1. <<>> \in Seq(Byte)  OBVIOUS
  <2> QED  BY <1>1, <1>2, <1>6, <2>1, HeaderIs
<1>8. PICK t \in Seq(Byte) : t = p \o d  BY InFront
<1>9. Len(t) = 4 + Len(d) /\ \A i \in 1..4 : t[i] = p[i]
  <2>1. Len(t) = Len(p) + Len(d) /\ \A i \in 1..Len(p) : t[i] = p[i]
    BY <1>8, InFront
  <2> QED  BY <1>5, <2>1
<1>10. PICK b \in Seq(Byte) : b = h \o t  BY InFront
<1>11. Bytes(f) = b
  <2>1. Bytes(f) = <<PROTOCOL_VERSION, TYPE_JSON>> \o PutU32(f.seq) \o WithLength(f.data)
    BY SMT DEF Bytes, Encode
  <2> QED  BY <1>2, <1>3, <1>4, <1>7, <1>8, <1>10, <2>1, Zenon DEF Header, WithLength
<1>12. /\ Len(b) = 6 + Len(t) /\ b[1] = PROTOCOL_VERSION /\ b[2] = TYPE_JSON /\ GetU32(b, 3) = n
  <2>1. IsU32(n)  BY <1>1, <1>2
  <2>2. /\ Len(h \o t) = 6 + Len(t) /\ (h \o t)[1] = PROTOCOL_VERSION
        /\ (h \o t)[2] = TYPE_JSON /\ GetU32(h \o t, 3) = n
    <3>1. LET u == Header(TYPE_JSON, n) \o t IN
            /\ Len(u) = 6 + Len(t) /\ u[1] = PROTOCOL_VERSION /\ u[2] = TYPE_JSON
            /\ GetU32(u, 3) = n
      BY <1>6, <2>1, HeaderIs, SMTT(30)
    <3> QED  BY <1>7, <3>1, Zenon
  <2> QED  BY <1>10, <2>2, Zenon
<1>13. Len(d) \in Nat  OBVIOUS
<1>14. GetU32(b, 7) = Len(d)
  <2>1. \A i \in 1..Len(t) : b[6 + i] = t[i]
    <3>1. \A i \in 1..Len(t) : b[Len(h) + i] = t[i]  BY <1>10, InFront
    <3> QED  BY <1>7, <3>1
  <2>2. b[7] = p[1] /\ b[8] = p[2] /\ b[9] = p[3] /\ b[10] = p[4]
    BY <1>9, <1>13, <2>1
  <2> QED  BY <1>5, <2>2, SMTT(30) DEF GetU32
<1>15. Len(b) = 10 + Len(d)  BY <1>9, <1>12, <1>13
<1>16. SubSeq(b, 11, 10 + Len(d)) = d
  <2>1. b = (h \o p) \o d  BY <1>8, <1>10, ConcatAssociative, SMTT(30)
  <2>2. h \o p \in Seq(Byte) /\ Len(h \o p) = 10
    <3>1. h \o p \in Seq(Byte) /\ Len(h \o p) = Len(h) + Len(p)  BY InFront
    <3> QED  BY <1>5, <1>7, <3>1
  <2>3. SubSeq((h \o p) \o d, Len(h \o p) + 1, Len((h \o p) \o d)) = d  BY <2>2, Rest
  <2>4. SubSeq(b, Len(h \o p) + 1, Len(b)) = d  BY <2>1, <2>3, Zenon
  <2>5. Len(h \o p) + 1 = 11  BY <2>2
  <2> QED  BY <1>15, <2>4, <2>5
<1>17. ~(Len(b) < 2) /\ ~(Len(b) < 10)  BY <1>13, <1>15
<1>18. DecodeWithLimit(b, max_frame_size) = DecodeJson(b, max_frame_size)
  BY <1>12, <1>17, DecodeIs, Zenon
<1>19. DecodeJson(b, max_frame_size) = Payload(b, 10, Len(d), max_frame_size, Json(n, d))
  BY <1>12, <1>14, <1>16, Zenon DEF DecodeJson
<1>20. CASE Len(d) > max_frame_size
  <2>1. Limited(f) = Bad("FrameTooLarge")  BY <1>3, <1>20, SMT DEF Limited
  <2>2. DecodeWithLimit(b, max_frame_size) = Fails("FrameTooLarge", b)
    BY <1>18, <1>19, <1>20 DEF Payload
  <2> QED  BY <1>11, <2>1, <2>2 DEF RoundTrips, Fails, Bad
<1>21. CASE ~(Len(d) > max_frame_size)
  <2>1. Limited(f) = f  BY <1>3, <1>21, SMT DEF Limited
  <2>2. ~(Len(b) < 10 + Len(d))  BY <1>13, <1>15
  <2>3. DecodeWithLimit(b, max_frame_size) = Takes(Json(n, d), Len(b), b)
    BY <1>15, <1>18, <1>19, <1>21, <2>2 DEF Payload
  <2>4. f = Json(n, d)  BY <1>1, <1>2, <1>3
  <2> QED  BY <1>11, <2>1, <2>3, <2>4, TakesAll DEF RoundTrips
<1> QED  BY <1>20, <1>21

(* And then the rest of the frame.                                         *)
LEMMA HeaderThen ==
    ASSUME NEW type \in Byte, NEW n, IsU32(n), NEW t \in Seq(Byte)
    PROVE  /\ <<PROTOCOL_VERSION, type>> \o (PutU32(n) \o t) = Header(type, n) \o t
           /\ SubSeq(Header(type, n) \o t, 7, Len(Header(type, n) \o t)) = t
<1>1. PICK p \in Seq(Byte) : p = PutU32(n)  BY PutGet
<1>2. PICK v \in Seq(Byte) : v = <<PROTOCOL_VERSION, type>>
  <2>1. PROTOCOL_VERSION \in Byte  BY DEF PROTOCOL_VERSION, Byte
  <2>2. <<PROTOCOL_VERSION, type>> \in Seq(Byte)  BY <2>1
  <2> QED  BY <2>2, Zenon
<1>3. (v \o p) \o t = v \o (p \o t)  BY ConcatAssociative, SMTT(30)
<1>4. Header(type, n) = v \o p  BY <1>1, <1>2, Zenon DEF Header
<1>5. PICK h \in Seq(Byte) : h = Header(type, n) /\ Len(h) = 6  BY HeaderIs
<1>6. SubSeq(h \o t, Len(h) + 1, Len(h \o t)) = t  BY Rest
<1>7. Len(h) + 1 = 7  BY <1>5
<1>8. SubSeq(h \o t, 7, Len(h \o t)) = t  BY <1>6, <1>7, Zenon
<1> QED  BY <1>1, <1>2, <1>3, <1>4, <1>5, <1>8, Zenon

LEMMA CompressedRoundTrips ==
    ASSUME NEW f, WellFormed(f), f.type = "C"
    PROVE  RoundTrips(f)
<1>1. /\ f = Compressed(f.inner) /\ f.inner \in Seq(Byte) /\ Zip(f.inner) \in Seq(Byte)
      /\ IsU32(Len(Zip(f.inner))) /\ Unzip(Zip(f.inner)) = [out |-> f.inner, ok |-> TRUE]
  BY DEF WellFormed
<1>2. PICK i \in Seq(Byte) : i = f.inner  BY <1>1
<1>3. PICK d \in Seq(Byte) : d = Zip(f.inner)  BY <1>1
<1>4. IsU32(Len(d)) /\ Len(d) \in Nat /\ Unzip(d) = [out |-> i, ok |-> TRUE]  BY <1>1, <1>2, <1>3
<1>5. TYPE_COMPRESSED \in Byte  BY DEF TYPE_COMPRESSED, Byte
<1>6. PICK n : n = Len(d) /\ IsU32(n)  BY <1>4
<1>7. /\ Header(TYPE_COMPRESSED, n) \o d \in Seq(Byte)
      /\ Len(Header(TYPE_COMPRESSED, n) \o d) = 6 + Len(d)
      /\ (Header(TYPE_COMPRESSED, n) \o d)[1] = PROTOCOL_VERSION
      /\ (Header(TYPE_COMPRESSED, n) \o d)[2] = TYPE_COMPRESSED
      /\ GetU32(Header(TYPE_COMPRESSED, n) \o d, 3) = n
  BY <1>5, <1>6, HeaderIs
<1>8. PICK b \in Seq(Byte) : b = Header(TYPE_COMPRESSED, n) \o d  BY <1>7
<1>9. Bytes(f) = b
  <2>1. Bytes(f) = <<PROTOCOL_VERSION, TYPE_COMPRESSED>> \o WithLength(Zip(f.inner))
    BY SMT DEF Bytes, Encode
  <2>2. Bytes(f) = <<PROTOCOL_VERSION, TYPE_COMPRESSED>> \o (PutU32(n) \o d)
    BY <1>3, <1>6, <2>1, Zenon DEF WithLength
  <2>3. <<PROTOCOL_VERSION, TYPE_COMPRESSED>> \o (PutU32(n) \o d) = Header(TYPE_COMPRESSED, n) \o d
    BY <1>5, <1>6, HeaderThen
  <2> QED  BY <1>8, <2>2, <2>3, Zenon
<1>10. /\ Len(b) = 6 + Len(d) /\ b[1] = PROTOCOL_VERSION /\ b[2] = TYPE_COMPRESSED
       /\ GetU32(b, 3) = Len(d)
  BY <1>6, <1>7, <1>8, Zenon
<1>11. SubSeq(b, 7, 6 + Len(d)) = d
  <2>1. SubSeq(Header(TYPE_COMPRESSED, n) \o d, 7, Len(Header(TYPE_COMPRESSED, n) \o d)) = d
    BY <1>5, <1>6, HeaderThen
  <2> QED  BY <1>8, <1>10, <2>1, Zenon
<1>12. ~(Len(b) < 2) /\ ~(Len(b) < 6) /\ ~(Len(b) < 6 + Len(d))  BY <1>4, <1>10
<1>13. DecodeWithLimit(b, max_frame_size) = DecodeCompressed(b, max_frame_size)
  BY <1>10, <1>12, DecodeIs, Zenon
<1>14. DecodeCompressed(b, max_frame_size) =
          Payload(b, 6, Len(d), max_frame_size, ZlibDecompress(d, max_frame_size))
  BY <1>10, <1>11, Zenon DEF DecodeCompressed
<1>15. CASE Len(d) > max_frame_size
  <2>1. Limited(f) = Bad("FrameTooLarge")  BY <1>3, <1>15, SMT DEF Limited
  <2>2. DecodeWithLimit(b, max_frame_size) = Fails("FrameTooLarge", b)
    BY <1>13, <1>14, <1>15 DEF Payload
  <2> QED  BY <1>9, <2>1, <2>2 DEF RoundTrips, Fails, Bad
<1>16. CASE ~(Len(d) > max_frame_size)
  <2>1. DecodeWithLimit(b, max_frame_size) = Takes(ZlibDecompress(d, max_frame_size), Len(b), b)
    BY <1>10, <1>12, <1>13, <1>14, <1>16 DEF Payload
  <2>2. ZlibDecompress(d, max_frame_size) = Limited(f)
    <3>1. CASE Len(i) > max_frame_size
      <4>1. Limited(f) = Bad("FrameTooLarge")  BY <1>2, <3>1, SMT DEF Limited
      <4>2. ZlibDecompress(d, max_frame_size) = Bad("FrameTooLarge")
        BY <1>4, <3>1 DEF ZlibDecompress
      <4> QED  BY <4>1, <4>2
    <3>2. CASE ~(Len(i) > max_frame_size)
      <4>1. Limited(f) = f  BY <1>2, <1>3, <1>16, <3>2, SMT DEF Limited
      <4>2. ZlibDecompress(d, max_frame_size) = Compressed(i)
        BY <1>4, <3>2 DEF ZlibDecompress
      <4> QED  BY <1>1, <1>2, <4>1, <4>2
    <3> QED  BY <3>1, <3>2
  <2> QED  BY <1>9, <2>1, <2>2, TakesAll DEF RoundTrips
<1> QED  BY <1>15, <1>16

LEMMA ForeignRoundTrips ==
    ASSUME NEW f, WellFormed(f), f.type = "F"
    PROVE  RoundTrips(f)
<1>1. PICK b \in Seq(Byte) : b = f.bytes /\ Refused(b, f.err)  BY DEF WellFormed
<1>2. PICK e : e = f.err  OBVIOUS
<1>3. Bytes(f) = b  BY <1>1, SMT DEF Bytes
<1>4. Limited(f) = Bad(e)  BY <1>2, SMT DEF Limited
<1>5. Len(b) \in Nat  OBVIOUS
<1>6. \A src : Fails(e, src).item = <<Bad(e)>>  BY DEF Fails
<1>7. ASSUME NEW type, NEW header \in {6, 10}, Starts(b, type, header)
      PROVE  /\ ~(Len(b) < 2) /\ ~(Len(b) < header) /\ b[1] = PROTOCOL_VERSION /\ b[2] = type
             /\ GetU32(b, 3) \in Nat /\ GetU32(b, 3) = BigEndian(b, 3)
             /\ header = 10 => GetU32(b, 7) \in Nat /\ GetU32(b, 7) = BigEndian(b, 7)
  <2>1. Len(b) >= header /\ b[1] = PROTOCOL_VERSION /\ b[2] = type  BY <1>7 DEF Starts
  <2>2. ~(Len(b) < 2) /\ ~(Len(b) < header) /\ 3 + 3 <= Len(b)  BY <1>5, <2>1
  <2>3. header = 10 => 7 + 3 <= Len(b)  BY <1>5, <2>1
  <2>4. GetU32(b, 3) \in Nat /\ GetU32(b, 3) = BigEndian(b, 3)  BY <2>2, GetType
  <2>5. header = 10 => GetU32(b, 7) \in Nat /\ GetU32(b, 7) = BigEndian(b, 7)  BY <2>3, GetType
  <2> QED  BY <2>1, <2>2, <2>4, <2>5, Zenon
<1>8. DecodeWithLimit(b, max_frame_size).item = <<Bad(e)>>
  <2>1. CASE /\ e = "InvalidFrame" /\ Len(b) >= 2
             /\ \/ b[1] # PROTOCOL_VERSION
                \/ b[2] \notin {TYPE_WINDOW, TYPE_ACK, TYPE_JSON, TYPE_COMPRESSED}
    <3>1. ~(Len(b) < 2)  BY <1>5, <2>1
    <3>2. DecodeWithLimit(b, max_frame_size) = Fails("InvalidFrame", b)
      BY <2>1, <3>1, DecodeIs, Zenon
    <3> QED  BY <1>6, <2>1, <3>2
  <2>2. CASE e = "FrameTooLarge" /\ Starts(b, TYPE_JSON, 10) /\ BigEndian(b, 7) > max_frame_size
    <3>1. PICK h \in {6, 10} : h = 10  OBVIOUS
    <3>2. /\ ~(Len(b) < 2) /\ ~(Len(b) < 10) /\ b[1] = PROTOCOL_VERSION /\ b[2] = TYPE_JSON
          /\ GetU32(b, 7) > max_frame_size
      BY <1>7, <2>2, <3>1
    <3>3. DecodeWithLimit(b, max_frame_size) = DecodeJson(b, max_frame_size)
      BY <3>2, DecodeIs, Zenon
    <3>4. DecodeJson(b, max_frame_size) = Fails("FrameTooLarge", b)
      BY <3>2 DEF DecodeJson, Payload
    <3> QED  BY <1>6, <2>2, <3>3, <3>4
  <2>3. CASE /\ e = "FrameTooLarge" /\ Starts(b, TYPE_COMPRESSED, 6)
             /\ BigEndian(b, 3) > max_frame_size
    <3>1. PICK h \in {6, 10} : h = 6  OBVIOUS
    <3>2. /\ ~(Len(b) < 2) /\ ~(Len(b) < 6) /\ b[1] = PROTOCOL_VERSION /\ b[2] = TYPE_COMPRESSED
          /\ GetU32(b, 3) > max_frame_size
      BY <1>7, <2>3, <3>1
    <3>3. DecodeWithLimit(b, max_frame_size) = DecodeCompressed(b, max_frame_size)
      BY <3>2, DecodeIs, Zenon
    <3>4. DecodeCompressed(b, max_frame_size) = Fails("FrameTooLarge", b)
      BY <3>2 DEF DecodeCompressed, Payload
    <3> QED  BY <1>6, <2>3, <3>3, <3>4
  <2>4. CASE /\ Starts(b, TYPE_COMPRESSED, 6)
             /\ BigEndian(b, 3) <= max_frame_size /\ BigEndian(b, 3) = Len(b) - 6
             /\ LET z == Unzip(SubSeq(b, 7, Len(b))) IN
                IF Len(z.out) > max_frame_size THEN e = "FrameTooLarge"
                                               ELSE ~z.ok /\ e = "Compression"
    <3>1. PICK h \in {6, 10} : h = 6  OBVIOUS
    <3>2. /\ ~(Len(b) < 2) /\ ~(Len(b) < 6) /\ b[1] = PROTOCOL_VERSION /\ b[2] = TYPE_COMPRESSED
          /\ GetU32(b, 3) \in Nat /\ GetU32(b, 3) <= max_frame_size /\ GetU32(b, 3) = Len(b) - 6
      BY <1>7, <2>4, <3>1
    <3>3. DecodeWithLimit(b, max_frame_size) = DecodeCompressed(b, max_frame_size)
      BY <3>2, DecodeIs, Zenon
    <3>4. PICK len \in Nat : len = GetU32(b, 3) /\ ~(len > max_frame_size) /\ 6 + len = Len(b)
      BY <1>5, <3>2, FramedAssumption
    <3>5. PICK x : x = ZlibDecompress(SubSeq(b, 7, Len(b)), max_frame_size)  OBVIOUS
    <3>6. x = Bad(e)  BY <2>4, <3>5 DEF ZlibDecompress
    <3>7. DecodeCompressed(b, max_frame_size) = Payload(b, 6, len, max_frame_size, x)
      BY <3>4, <3>5, Zenon DEF DecodeCompressed
    <3>8. ~(Len(b) < 6 + len)  BY <1>5, <3>4
    <3>9. Payload(b, 6, len, max_frame_size, x) = Takes(x, 6 + len, b)
      BY <3>4, <3>8, Zenon DEF Payload
    <3> QED  BY <3>3, <3>6, <3>7, <3>9, NotEmpty, Zenon
  <2>5. Refused(b, e)  BY <1>1, <1>2
  <2> QED  BY <2>1, <2>2, <2>3, <2>4, <2>5 DEF Refused
<1> QED  BY <1>3, <1>4, <1>8 DEF RoundTrips, Bad

(* Every frame is decoded, or refused, as the frame it is.                 *)
LEMMA RoundTrip ==
    ASSUME NEW f \in Frames
    PROVE  RoundTrips(f)
<1>1. WellFormed(f)  BY FramesAssumption
<1>2. f.type = "W" \/ f.type = "A" \/ f.type = "J" \/ f.type = "C" \/ f.type = "F"
  BY <1>1 DEF WellFormed
<1> QED  BY <1>1, <1>2, ControlRoundTrips, JsonRoundTrips, CompressedRoundTrips, ForeignRoundTrips

-----------------------------------------------------------------------------
(* The stream *)

(* The bytes of s after the first i.                                       *)
After(s, i) == SubSeq(s, i + 1, Len(s))

LEMMA AfterAfter ==
    ASSUME NEW s \in Seq(Byte), NEW i \in Nat, NEW n \in Nat, i + n <= Len(s)
    PROVE  After(After(s, i), n) = After(s, i + n)
<1>1. Len(s) \in Nat /\ i <= Len(s) /\ i + n \in Nat  OBVIOUS
<1>2. PICK a \in Seq(Byte) : a = After(s, i)  BY <1>1, Suffix DEF After
<1>3. Len(a) = Len(s) - i /\ \A j \in 1..(Len(s) - i) : a[j] = s[i + j]
  BY <1>1, <1>2, Suffix DEF After
<1>4. n <= Len(a)  BY <1>1, <1>3
<1>5. PICK b \in Seq(Byte) : b = After(a, n)  BY <1>4, Suffix DEF After
<1>6. Len(b) = Len(a) - n /\ \A j \in 1..(Len(a) - n) : b[j] = a[n + j]
  BY <1>4, <1>5, Suffix DEF After
<1>7. PICK k \in Nat : k = i + n  BY <1>1
<1>8. PICK d \in Seq(Byte) : d = After(s, k)  BY <1>7, Suffix DEF After
<1>9. Len(d) = Len(s) - k /\ \A j \in 1..(Len(s) - k) : d[j] = s[k + j]
  BY <1>7, <1>8, Suffix DEF After
<1>10. Len(b) = Len(d)  BY <1>1, <1>3, <1>6, <1>7, <1>9
<1>11. ASSUME NEW j \in 1..Len(b)  PROVE b[j] = d[j]
  <2>1. /\ j \in 1..(Len(a) - n) /\ n + j \in 1..(Len(s) - i) /\ j \in 1..(Len(s) - k)
        /\ i + (n + j) = k + j
    BY <1>1, <1>3, <1>6, <1>7
  <2>2. b[j] = a[n + j] /\ d[j] = s[k + j]  BY <1>6, <1>9, <2>1
  <2>3. a[n + j] = s[i + (n + j)]  BY <1>3, <2>1
  <2> QED  BY <2>1, <2>2, <2>3
<1>12. b = d  BY <1>10, <1>11, SeqEqual
<1> QED  BY <1>2, <1>5, <1>7, <1>8, <1>12, Zenon

LEMMA AfterConcat ==
    ASSUME NEW s \in Seq(Byte), NEW t \in Seq(Byte), NEW i \in Nat, i <= Len(s)
    PROVE  /\ After(s, i) \in Seq(Byte) /\ Len(After(s, i)) = Len(s) - i
           /\ After(s \o t, i) = After(s, i) \o t
<1>1. After(s, i) \in Seq(Byte) /\ Len(After(s, i)) = Len(s) - i  BY Suffix DEF After
<1>2. After(s \o t, i) = After(s, i) \o t  BY SuffixOfConcat DEF After
<1> QED  BY <1>1, <1>2

LEMMA TakesAfter == \A x, n, s : Takes(x, n, s).src = After(s, n)
  BY DEF Takes, After

(* The item x begins at i and the next one at j.                           *)
ItemAt(s, i, j, x) ==
    /\ DecodeWithLimit(After(s, i), max_frame_size).item = <<x>>
    /\ DecodeWithLimit(After(s, i), max_frame_size).src = After(s, j)

LEMMA TupleEq ==
    ASSUME NEW x, NEW y, <<x>> = <<y>>  PROVE x = y
<1>1. <<x>>[1] = x /\ <<y>>[1] = y  OBVIOUS
<1> QED  BY <1>1

(* It does so whatever is written behind it.                               *)
LEMMA ItemKept ==
    ASSUME NEW s \in Seq(Byte), NEW t \in Seq(Byte), NEW i \in Nat, i <= Len(s),
           NEW j \in Nat, j <= Len(s), NEW x, ItemAt(s, i, j, x)
    PROVE  ItemAt(s \o t, i, j, x)
<1>1. PICK a \in Seq(Byte) : a = After(s, i)  BY AfterConcat
<1>2. After(s \o t, i) = a \o t  BY <1>1, AfterConcat
<1>3. DecodeWithLimit(a, max_frame_size).item = <<x>>  BY <1>1 DEF ItemAt
<1>4. DecodeWithLimit(a, max_frame_size).src = After(s, j)  BY <1>1 DEF ItemAt
<1>5. PICK y, n : Decides(a, y, n)  BY <1>3, NotEmpty, Stable
<1>6. /\ n \in Nat /\ n <= Len(a) /\ DecodeWithLimit(a, max_frame_size) = Takes(y, n, a)
      /\ DecodeWithLimit(a \o t, max_frame_size) = Takes(y, n, a \o t)
  <2>1. n \in 0..Len(a)  BY <1>5 DEF Decides
  <2>2. n \in Nat /\ n <= Len(a)  BY <2>1
  <2> QED  BY <1>5, <2>2 DEF Decides
<1>7. DecodeWithLimit(a \o t, max_frame_size).item = <<x>>
  BY <1>3, <1>6, NotEmpty, Zenon
<1>8. After(a, n) = After(s, j)  BY <1>4, <1>6 DEF Takes, After
<1>9. DecodeWithLimit(a \o t, max_frame_size).src = After(a \o t, n)
  BY <1>6, TakesAfter, Zenon
<1>10. After(a \o t, n) = After(a, n) \o t  BY <1>6, AfterConcat
<1>11. After(s \o t, j) = After(s, j) \o t  BY AfterConcat
<1>12. DecodeWithLimit(a \o t, max_frame_size).src = After(s \o t, j)
  BY <1>8, <1>9, <1>10, <1>11, Zenon
<1> QED  BY <1>2, <1>7, <1>12, Zenon DEF ItemAt

(* A reader that decodes its buffer decodes the stream from where it is.   *)
LEMMA ItemRead ==
    ASSUME NEW s \in Seq(Byte), NEW r \in Seq(Byte), NEW w \in Seq(Byte), NEW i \in Nat,
           i <= Len(s), r \o w = After(s, i), DecodeWithLimit(r, max_frame_size).item # <<>>
    PROVE  \E x : \E n \in Nat :
             /\ i + n <= Len(s) /\ n <= Len(r)
             /\ DecodeWithLimit(r, max_frame_size).item = <<x>>
             /\ DecodeWithLimit(r, max_frame_size).src = After(r, n)
             /\ After(r, n) \in Seq(Byte) /\ Len(After(r, n)) = Len(r) - n
             /\ After(r, n) \o w = After(s, i + n)
             /\ ItemAt(s, i, i + n, x)
<1>1. PICK x, n : Decides(r, x, n)  BY Stable
<1>2. /\ n \in Nat /\ n <= Len(r) /\ DecodeWithLimit(r, max_frame_size) = Takes(x, n, r)
      /\ DecodeWithLimit(r \o w, max_frame_size) = Takes(x, n, r \o w)
  <2>1. n \in 0..Len(r)  BY <1>1 DEF Decides
  <2>2. n \in Nat /\ n <= Len(r)  BY <2>1
  <2> QED  BY <1>1, <2>2 DEF Decides
<1>3. i + n <= Len(s)
  <2>1. Len(r \o w) = Len(r) + Len(w) /\ Len(r) \in Nat /\ Len(w) \in Nat /\ Len(s) \in Nat
    BY InFront
  <2>2. Len(After(s, i)) = Len(s) - i  BY AfterConcat
  <2> QED  BY <1>2, <2>1, <2>2
<1>4. DecodeWithLimit(r, max_frame_size).item = <<x>>  BY <1>2, NotEmpty, Zenon
<1>5. DecodeWithLimit(r, max_frame_size).src = After(r, n)  BY <1>2, TakesAfter, Zenon
<1>6. After(r, n) \in Seq(Byte) /\ Len(After(r, n)) = Len(r) - n  BY <1>2, AfterConcat
<1>7. After(r \o w, n) = After(r, n) \o w  BY <1>2, AfterConcat
<1>8. After(After(s, i), n) = After(s, i + n)  BY <1>2, <1>3, AfterAfter
<1>9. After(r, n) \o w = After(s, i + n)  BY <1>7, <1>8, Zenon
<1>10. DecodeWithLimit(r \o w, max_frame_size).item = <<x>>  BY <1>2, NotEmpty, Zenon
<1>11. DecodeWithLimit(r \o w, max_frame_size).src = After(r \o w, n)  BY <1>2, TakesAfter, Zenon
<1>12. ItemAt(s, i, i + n, x)  BY <1>7, <1>9, <1>10, <1>11, Zenon DEF ItemAt
<1> QED  BY <1>2, <1>3, <1>4, <1>5, <1>6, <1>9, <1>12

-----------------------------------------------------------------------------
(* The inductive invariant, first part: what is in the reader's buffer and *)
(* on the wire is the rest of the stream from where the reader is.         *)
Item == {DecodeWithLimit(s, max_frame_size).item[1] : s \in Seq(Byte)} \cup {Bad("Io")}

Typed ==
    /\ wbuf \in Seq(Byte) /\ wire \in Seq(Byte) /\ rbuf \in Seq(Byte) /\ stream \in Seq(Byte)
    /\ got \in Seq(Item) /\ fed \in Seq(Frames) /\ starts \in Seq(Nat) /\ Len(starts) = Len(got)
    /\ wEnd \in {"open", "closed"} /\ rEnd \in {"reading", "ended", "failed"}

Aligned ==
    /\ Position \in Nat /\ Position <= Len(stream)
    /\ rbuf \o wire = After(stream, Position)
    /\ \A k \in 1..Len(starts) : starts[k] <= Len(stream)

Base == Typed /\ Aligned

LEMMA InitBase == Init => Base
<1> SUFFICES ASSUME Init PROVE Base  OBVIOUS
<1>1. /\ wbuf = <<>> /\ wire = <<>> /\ rbuf = <<>> /\ got = <<>> /\ fed = <<>> /\ stream = <<>>
      /\ starts = <<>> /\ wEnd = "open" /\ rEnd = "reading"
  BY DEF Init
<1>2. \A S : <<>> \in Seq(S)  OBVIOUS
<1>3. Len(<<>>) = 0  OBVIOUS
<1>4. Typed  BY <1>1, <1>2 DEF Typed
<1>5. Position = 0
  <2>1. Len(stream) = 0 /\ Len(rbuf) = 0 /\ Len(wire) = 0  BY <1>1, <1>3
  <2> QED  BY <2>1 DEF Position
<1>6. After(<<>>, 0) = <<>>
  <2>1. After(<<>>, 0) = SubSeq(<<>>, 1, 0)  BY <1>3 DEF After
  <2> QED  BY <2>1, SubSeqEmpty
<1>7. <<>> \o <<>> = <<>>  OBVIOUS
<1>8. \A k \in 1..Len(starts) : starts[k] <= Len(stream)  BY <1>1, <1>3
<1> QED  BY <1>1, <1>3, <1>4, <1>5, <1>6, <1>7, <1>8 DEF Base, Aligned

LEMMA Assoc == \A s, t, u \in Seq(Byte) : (s \o t) \o u = s \o (t \o u)
  BY ConcatAssociative

(* A step that moves no byte.                                              *)
LEMMA StillBase ==
    ASSUME Base, Typed', wire' = wire, rbuf' = rbuf, stream' = stream, starts' = starts
    PROVE  Base' /\ Position' = Position
<1>1. Position' = Position  BY DEF Position
<1> QED  BY <1>1 DEF Base, Aligned, After

LEMMA FeedBase ==
    ASSUME Base, NEW f \in Frames, Feed(f)
    PROVE  Base' /\ Position' = Position
<1>1. Bytes(f) \in Seq(Byte)  BY RoundTrip DEF RoundTrips
<1>2. wbuf' \in Seq(Byte)  BY <1>1, InFront DEF Feed, Base, Typed
<1>3. fed' \in Seq(Frames)  BY AppendProperties DEF Feed, Base, Typed
<1>4. Typed'  BY <1>2, <1>3 DEF Feed, Base, Typed
<1> QED  BY <1>4, StillBase DEF Feed

LEMMA CloseBase ==
    ASSUME Base, CloseWriter
    PROVE  Base' /\ Position' = Position
<1>1. Typed'  BY DEF CloseWriter, Base, Typed
<1> QED  BY <1>1, StillBase DEF CloseWriter

(* The two pieces a sequence is cut into.                                  *)
LEMMA Cut ==
    ASSUME NEW s \in Seq(Byte), NEW n \in 1..Len(s)
    PROVE  /\ SubSeq(s, 1, n) \in Seq(Byte) /\ Len(SubSeq(s, 1, n)) = n
           /\ After(s, n) \in Seq(Byte) /\ Len(After(s, n)) = Len(s) - n
           /\ SubSeq(s, 1, n) \o After(s, n) = s
<1>1. n \in Nat /\ n <= Len(s) /\ 1 \in Int /\ n \in Int /\ Len(s) \in Nat  OBVIOUS
<1>2. \A i \in 1..n : s[i] \in Byte
  <2>1. \A i \in 1..n : i \in 1..Len(s)  BY <1>1
  <2> QED  BY <2>1, ElementOfSeq
<1>3. /\ SubSeq(s, 1, n) \in Seq(Byte)
      /\ Len(SubSeq(s, 1, n)) = IF 1 <= n THEN n - 1 + 1 ELSE 0
  BY <1>1, <1>2, SubSeqProperties
<1>4. Len(SubSeq(s, 1, n)) = n  BY <1>3
<1>5. After(s, n) \in Seq(Byte) /\ Len(After(s, n)) = Len(s) - n  BY <1>1, Suffix DEF After
<1>6. SubSeq(s, 1, n) \o SubSeq(s, n + 1, Len(s)) = SubSeq(s, 1, Len(s))
  <2>1. 1 \in 1..(Len(s) + 1) /\ n \in 1 - 1..Len(s) /\ Len(s) \in n..Len(s)  BY <1>1
  <2> QED  BY <2>1, ConcatAdjacentSubSeq
<1>7. SubSeq(s, 1, Len(s)) = s  BY SubSeqFull
<1> QED  BY <1>3, <1>4, <1>5, <1>6, <1>7, Zenon DEF After

LEMMA WriteOutBase ==
    ASSUME Base, NEW n \in 1..Len(wbuf), WriteOut(n)
    PROVE  /\ Base' /\ Position' = Position
           /\ SubSeq(wbuf, 1, n) \in Seq(Byte) /\ stream' = stream \o SubSeq(wbuf, 1, n)
           /\ wbuf = SubSeq(wbuf, 1, n) \o wbuf' /\ wbuf # <<>>
<1> USE DEF Base
<1>1. PICK w \in Seq(Byte), s \in Seq(Byte), r \in Seq(Byte), b \in Seq(Byte), p \in Nat :
        wire = w /\ stream = s /\ rbuf = r /\ wbuf = b /\ Position = p /\ p <= Len(s)
        /\ r \o w = After(s, p)
  BY DEF Typed, Aligned
<1>2. PICK t \in Seq(Byte) : t = SubSeq(b, 1, n) /\ Len(t) = n /\ t \o After(b, n) = b
                             /\ After(b, n) \in Seq(Byte)
  BY <1>1, Cut
<1>3. wire' = w \o t /\ stream' = s \o t /\ wbuf' = After(b, n)
  BY <1>1, <1>2, Zenon DEF WriteOut, After
<1>4. rbuf' = r /\ starts' = starts  BY <1>1 DEF WriteOut
<1>5. /\ w \o t \in Seq(Byte) /\ s \o t \in Seq(Byte)
      /\ Len(w \o t) = Len(w) + n /\ Len(s \o t) = Len(s) + n
  BY <1>2, InFront
<1>6. Typed'  BY <1>2, <1>3, <1>5 DEF Typed, WriteOut
<1>7. Position' = p
  <2>1. Position' = Len(s \o t) - (Len(r) + Len(w \o t))  BY <1>3, <1>4 DEF Position
  <2>2. p = Len(s) - (Len(r) + Len(w))  BY <1>1 DEF Position
  <2>3. n \in Nat /\ Len(s) \in Nat /\ Len(r) \in Nat /\ Len(w) \in Nat  BY <1>2
  <2> QED  BY <1>5, <2>1, <2>2, <2>3
<1>8. r \o (w \o t) = After(s \o t, p)
  <2>1. (r \o w) \o t = r \o (w \o t)  BY Assoc, ZenonT(40)
  <2>2. After(s \o t, p) = After(s, p) \o t  BY <1>1, AfterConcat
  <2> QED  BY <1>1, <2>1, <2>2, Zenon
<1>9. p <= Len(s \o t) /\ \A k \in 1..Len(starts) : starts[k] <= Len(s \o t)
  <2>1. n \in Nat /\ Len(s) \in Nat  BY <1>2
  <2>2. p <= Len(s \o t)  BY <1>1, <1>5, <2>1
  <2>3. ASSUME NEW k \in 1..Len(starts)  PROVE starts[k] <= Len(s \o t)
    <3>1. starts[k] <= Len(s)  BY <1>1 DEF Aligned
    <3>2. starts[k] \in Nat  BY SMTT(30) DEF Typed
    <3> QED  BY <1>5, <2>1, <3>1, <3>2
  <2> QED  BY <2>2, <2>3
<1>10. Aligned'  BY <1>3, <1>4, <1>7, <1>8, <1>9 DEF Aligned
<1>11. wbuf # <<>>
  <2>1. Len(<<>>) = 0  OBVIOUS
  <2> QED  BY <2>1
<1> QED  BY <1>1, <1>2, <1>3, <1>6, <1>7, <1>10, <1>11, Zenon

(* Nothing is left out of the buffer when nothing is returned.             *)
LEMMA PendingIs ==
    ASSUME Base, Decode.item = <<>>
    PROVE  Decode.src = rbuf /\ Len(rbuf) < 10 + max_frame_size
<1>1. rbuf \in Seq(Byte)  BY DEF Base, Typed
<1>2. max_frame_size \in Nat  BY FramedAssumption
<1> QED  BY <1>1, <1>2, Waiting DEF Decode

LEMMA ReadBase ==
    ASSUME Base, NEW n \in 1..Len(wire), Read(n)
    PROVE  Base' /\ Position' = Position
<1> USE DEF Base
<1>1. PICK w \in Seq(Byte), s \in Seq(Byte), r \in Seq(Byte), p \in Nat :
        wire = w /\ stream = s /\ rbuf = r /\ Position = p /\ p <= Len(s) /\ r \o w = After(s, p)
  BY DEF Typed, Aligned
<1>2. PICK t \in Seq(Byte), u \in Seq(Byte) :
        t = SubSeq(w, 1, n) /\ u = After(w, n) /\ t \o u = w /\ Len(t) = n /\ Len(u) = Len(w) - n
  BY <1>1, Cut
<1>3. Decode.src = r  BY <1>1, PendingIs DEF Read
<1>4. rbuf' = r \o t /\ wire' = u  BY <1>1, <1>2, <1>3, Zenon DEF Read, After
<1>5. stream' = s /\ starts' = starts  BY <1>1 DEF Read
<1>6. r \o t \in Seq(Byte) /\ Len(r \o t) = Len(r) + n  BY <1>2, InFront
<1>7. Typed'  BY <1>2, <1>4, <1>6 DEF Typed, Read
<1>8. Position' = p
  <2>1. Position' = Len(s) - (Len(r \o t) + Len(u))  BY <1>4, <1>5 DEF Position
  <2>2. p = Len(s) - (Len(r) + Len(w))  BY <1>1 DEF Position
  <2>3. n \in Nat /\ Len(s) \in Nat /\ Len(r) \in Nat /\ Len(w) \in Nat  BY <1>2
  <2> QED  BY <1>2, <1>6, <2>1, <2>2, <2>3
<1>9. (r \o t) \o u = r \o w
  <2>1. (r \o t) \o u = r \o (t \o u)  BY Assoc, ZenonT(40)
  <2> QED  BY <1>2, <2>1, Zenon
<1>10. Aligned'  BY <1>1, <1>4, <1>5, <1>8, <1>9 DEF Aligned
<1> QED  BY <1>1, <1>7, <1>8, <1>10, Zenon

LEMMA ReturnsBase ==
    ASSUME Base, NEW x \in Item, Returns(x), stream' = stream
    PROVE  /\ got' = Append(got, x) /\ got' \in Seq(Item) /\ Len(got') = Len(got) + 1
           /\ starts' \in Seq(Nat) /\ Len(starts') = Len(got')
           /\ \A k \in 1..Len(got) : got'[k] = got[k] /\ starts'[k] = starts[k]
           /\ got'[Len(got) + 1] = x /\ starts'[Len(got) + 1] = Position
           /\ \A k \in 1..Len(starts') : starts'[k] <= Len(stream')
           /\ rEnd' = IF x.type = "X" THEN "failed" ELSE rEnd
<1>1. /\ got \in Seq(Item) /\ starts \in Seq(Nat) /\ Len(starts) = Len(got)
      /\ Position \in Nat /\ Position <= Len(stream)
      /\ \A k \in 1..Len(starts) : starts[k] <= Len(stream)
  BY DEF Base, Typed, Aligned
<1>2. PICK g \in Seq(Item), a \in Seq(Nat), p \in Nat : got = g /\ starts = a /\ Position = p
  BY <1>1
<1>3. got' = Append(g, x) /\ starts' = Append(a, p)  BY <1>2 DEF Returns
<1>4. /\ Append(g, x) \in Seq(Item) /\ Len(Append(g, x)) = Len(g) + 1
      /\ \A k \in 1..Len(g) : Append(g, x)[k] = g[k] /\ Append(g, x)[Len(g) + 1] = x
      /\ Append(g, x)[Len(g) + 1] = x
  BY AppendProperties
<1>5. /\ Append(a, p) \in Seq(Nat) /\ Len(Append(a, p)) = Len(a) + 1
      /\ \A k \in 1..Len(a) : Append(a, p)[k] = a[k]
      /\ Append(a, p)[Len(a) + 1] = p
  BY AppendProperties
<1>6. Len(a) = Len(g) /\ Len(g) \in Nat  BY <1>1, <1>2
<1>7. ASSUME NEW k \in 1..(Len(a) + 1)  PROVE Append(a, p)[k] <= Len(stream')
  <2>1. k \in 1..Len(a) \/ k = Len(a) + 1  BY <1>6
  <2> QED  BY <1>1, <1>2, <1>5, <2>1
<1>8. rEnd' = IF x.type = "X" THEN "failed" ELSE rEnd  BY DEF Returns
<1> QED  BY <1>2, <1>3, <1>4, <1>5, <1>6, <1>7, <1>8

LEMMA YieldBase ==
    ASSUME Base, Yield
    PROVE  /\ Base'
           /\ \E x \in Item :
                /\ Returns(x) /\ Decode.item = <<x>> /\ Position \in Nat
                /\ ItemAt(stream, Position, Position', x)
<1> USE DEF Base
<1>1. PICK w \in Seq(Byte), s \in Seq(Byte), r \in Seq(Byte), p \in Nat :
        wire = w /\ stream = s /\ rbuf = r /\ Position = p /\ p <= Len(s) /\ r \o w = After(s, p)
  BY DEF Typed, Aligned
<1>2. DecodeWithLimit(r, max_frame_size).item # <<>>  BY <1>1 DEF Yield, Decode
<1>3. PICK x : \E n \in Nat :
             /\ p + n <= Len(s) /\ n <= Len(r)
             /\ DecodeWithLimit(r, max_frame_size).item = <<x>>
             /\ DecodeWithLimit(r, max_frame_size).src = After(r, n)
             /\ After(r, n) \in Seq(Byte) /\ Len(After(r, n)) = Len(r) - n
             /\ After(r, n) \o w = After(s, p + n)
             /\ ItemAt(s, p, p + n, x)
  BY <1>1, <1>2, ItemRead
<1>4. PICK n \in Nat :
             /\ p + n <= Len(s) /\ n <= Len(r)
             /\ DecodeWithLimit(r, max_frame_size).item = <<x>>
             /\ DecodeWithLimit(r, max_frame_size).src = After(r, n)
             /\ After(r, n) \in Seq(Byte) /\ Len(After(r, n)) = Len(r) - n
             /\ After(r, n) \o w = After(s, p + n)
             /\ ItemAt(s, p, p + n, x)
  BY <1>3
<1>5. Decode.item = <<x>> /\ Decode.src = After(r, n)  BY <1>1, <1>4, Zenon DEF Decode
<1>6. x = DecodeWithLimit(r, max_frame_size).item[1]  BY <1>4
<1>7. x \in Item  BY <1>6 DEF Item
<1>8. Decode.item[1] = x  BY <1>5
<1>9. Returns(x)  BY <1>8, Zenon DEF Yield
<1>10. rbuf' = After(r, n) /\ wire' = w /\ stream' = s  BY <1>1, <1>5 DEF Yield
<1>11. Position' = p + n
  <2>1. Position' = Len(s) - (Len(After(r, n)) + Len(w))  BY <1>10 DEF Position
  <2>2. p = Len(s) - (Len(r) + Len(w))  BY <1>1 DEF Position
  <2>3. Len(s) \in Nat /\ Len(r) \in Nat /\ Len(w) \in Nat  OBVIOUS
  <2> QED  BY <1>4, <2>1, <2>2, <2>3
<1>12. /\ got' \in Seq(Item) /\ starts' \in Seq(Nat) /\ Len(starts') = Len(got')
       /\ \A k \in 1..Len(starts') : starts'[k] <= Len(stream')
       /\ rEnd' = IF x.type = "X" THEN "failed" ELSE rEnd
  BY <1>1, <1>7, <1>9, <1>10, ReturnsBase
<1>13. Typed'
  <2>1. rEnd' \in {"reading", "ended", "failed"}  BY <1>12 DEF Typed
  <2>2. wbuf' = wbuf /\ wEnd' = wEnd /\ fed' = fed  BY DEF Yield
  <2> QED  BY <1>4, <1>10, <1>12, <2>1, <2>2 DEF Typed
<1>14. Aligned'
  <2>1. p + n \in Nat  OBVIOUS
  <2> QED  BY <1>4, <1>10, <1>11, <1>12, <2>1 DEF Aligned
<1>15. ItemAt(stream, Position, Position', x)  BY <1>1, <1>4, <1>11, Zenon
<1> QED  BY <1>1, <1>5, <1>7, <1>9, <1>13, <1>14, <1>15

(* At the end of the stream the buffer is all that is left.                *)
LEMMA EofBase ==
    ASSUME Base, ReadEof
    PROVE  /\ Base' /\ Position' = Position /\ wire = <<>> /\ wEnd = "closed" /\ rbuf' = rbuf
           /\ rbuf = After(stream, Position) /\ Decode.item = <<>> /\ stream' = stream
           /\ \/ rbuf = <<>> /\ rEnd' = "ended" /\ got' = got /\ starts' = starts
              \/ rbuf # <<>> /\ Returns(Bad("Io")) /\ Bad("Io") \in Item
<1> USE DEF Base
<1>1. Decode.src = rbuf  BY PendingIs DEF ReadEof
<1>2. /\ wire = <<>> /\ wEnd = "closed" /\ rbuf' = rbuf /\ stream' = stream /\ wire' = wire
      /\ Decode.item = <<>> /\ wbuf' = wbuf /\ wEnd' = wEnd /\ fed' = fed
  BY <1>1 DEF ReadEof
<1>3. rbuf = After(stream, Position)
  <2>1. rbuf \in Seq(Byte)  BY DEF Typed
  <2>2. rbuf \o wire = rbuf  BY <1>2, <2>1, ConcatEmptySeq
  <2> QED  BY <2>2 DEF Aligned
<1>4. Position' = Position  BY <1>2 DEF Position
<1>5. CASE rbuf = <<>>
  <2>1. rEnd' = "ended" /\ got' = got /\ starts' = starts  BY <1>1, <1>5 DEF ReadEof
  <2>2. Typed'  BY <1>2, <2>1 DEF Typed
  <2> QED  BY <1>2, <1>3, <1>4, <1>5, <2>1, <2>2, StillBase
<1>6. CASE rbuf # <<>>
  <2>1. Returns(Bad("Io"))  BY <1>1, <1>6, Zenon DEF ReadEof
  <2>2. Bad("Io") \in Item  BY DEF Item
  <2>3. /\ got' \in Seq(Item) /\ starts' \in Seq(Nat) /\ Len(starts') = Len(got')
        /\ \A k \in 1..Len(starts') : starts'[k] <= Len(stream')
        /\ rEnd' = IF Bad("Io").type = "X" THEN "failed" ELSE rEnd
    BY <1>2, <2>1, <2>2, ReturnsBase
  <2>4. Typed'
    <3>1. rEnd' \in {"reading", "ended", "failed"}  BY <2>3 DEF Typed
    <3> QED  BY <1>2, <2>3, <3>1 DEF Typed
  <2>5. Aligned'  BY <1>2, <1>4, <2>3 DEF Aligned, After
  <2> QED  BY <1>2, <1>3, <1>4, <1>6, <2>1, <2>2, <2>4, <2>5
<1> QED  BY <1>5, <1>6

LEMMA SameBase ==
    ASSUME Base, UNCHANGED vars
    PROVE  Base' /\ Position' = Position
<1>1. Typed'  BY DEF Base, Typed, vars
<1> QED  BY <1>1, StillBase DEF vars

LEMMA NextBase == Base /\ [Next]_vars => Base'
<1> SUFFICES ASSUME Base, [Next]_vars PROVE Base'  OBVIOUS
<1>1. CASE \E f \in Frames : Feed(f)  BY <1>1, FeedBase
<1>2. CASE CloseWriter  BY <1>2, CloseBase
<1>3. CASE \E n \in 1..Len(wbuf) : WriteOut(n)  BY <1>3, WriteOutBase
<1>4. CASE Yield  BY <1>4, YieldBase
<1>5. CASE ReadEof  BY <1>5, EofBase
<1>6. CASE \E n \in 1..Len(wire) : Read(n)  BY <1>6, ReadBase
<1>7. CASE UNCHANGED vars  BY <1>7, SameBase
<1> QED  BY <1>1, <1>2, <1>3, <1>4, <1>5, <1>6, <1>7 DEF Next, Runtime, Over

(* A reader that waits for more holds less than one frame of the largest   *)
(* admissible payload, for every limit and every stream: decode_with_limit *)
(* refuses a length before it waits for the bytes.                         *)
THEOREM ReaderIsBounded == Spec => []BufferBounded
<1>1. Init => Base  BY InitBase
<1>2. Base /\ [Next]_vars => Base'  BY NextBase
<1>3. Base => BufferBounded
  <2> SUFFICES ASSUME Base, Decode.item = <<>> PROVE Len(Decode.src) < 10 + max_frame_size
    BY DEF BufferBounded
  <2> QED  BY PendingIs
<1> QED  BY <1>1, <1>2, <1>3, PTL DEF Spec

-----------------------------------------------------------------------------
(* The inductive invariant, second part: where the items begin.            *)
Torn(k) ==
    /\ got[k] = Bad("Io") /\ k = Len(got) /\ wEnd = "closed" /\ wire = <<>>
    /\ DecodeWithLimit(After(stream, StartOf(k)), max_frame_size).item = <<>>
    /\ StartOf(k) < Len(stream)

Itemized ==
    /\ StartOf(1) = 0
    /\ \A k \in 1..Len(got) : ItemAt(stream, StartOf(k), StartOf(k + 1), got[k]) \/ Torn(k)

Failed == \E k \in 1..Len(got) : got[k].type = "X" /\ k = Len(got)

Ended ==
    /\ wEnd = "closed" => wbuf = <<>>
    /\ rEnd = "ended" => wEnd = "closed" /\ Position = Len(stream)
    /\ rEnd = "failed" <=> Failed

CutInv == Base /\ Itemized /\ Ended

LEMMA StartType ==
    ASSUME Base, NEW k \in Nat \ {0}
    PROVE  StartOf(k) \in Nat /\ StartOf(k) <= Len(stream)
<1>1. /\ starts \in Seq(Nat) /\ Position \in Nat /\ Position <= Len(stream)
      /\ \A j \in 1..Len(starts) : starts[j] <= Len(stream)
  BY DEF Base, Typed, Aligned
<1>2. CASE k \in 1..Len(starts)
  <2>1. StartOf(k) = starts[k]  BY <1>1, <1>2 DEF StartOf
  <2> QED  BY <1>1, <1>2, <2>1
<1>3. CASE k \notin 1..Len(starts)
  <2>1. StartOf(k) = Position  BY <1>1, <1>3 DEF StartOf
  <2> QED  BY <1>1, <2>1
<1> QED  BY <1>2, <1>3

LEMMA TornFails ==
    ASSUME Base, Ended, NEW k \in 1..Len(got), Torn(k)
    PROVE  rEnd = "failed" /\ wEnd = "closed" /\ wire = <<>> /\ wbuf = <<>>
<1>1. got[k].type = "X" /\ k = Len(got) /\ wEnd = "closed" /\ wire = <<>>  BY DEF Torn, Bad
<1>2. Failed  BY <1>1 DEF Failed
<1> QED  BY <1>1, <1>2 DEF Ended

(* Steps that return nothing.                                              *)
LEMMA QuietItems ==
    ASSUME Base, Base', Itemized, Position' = Position, got' = got, starts' = starts,
           NEW t \in Seq(Byte), stream' = stream \o t,
           \A k \in 1..Len(got) : ~Torn(k)
    PROVE  Itemized'
<1>1. \A k : StartOf(k)' = StartOf(k)  BY DEF StartOf
<1>2. StartOf(1)' = 0  BY <1>1 DEF Itemized
<1>3. ASSUME NEW k \in 1..Len(got)
      PROVE  ItemAt(stream, StartOf(k), StartOf(k + 1), got[k])'
  <2>1. PICK s \in Seq(Byte) : s = stream  BY DEF Base, Typed
  <2>2. k \in Nat \ {0} /\ k + 1 \in Nat \ {0}  OBVIOUS
  <2>3. PICK i \in Nat, j \in Nat :
          i = StartOf(k) /\ i <= Len(s) /\ j = StartOf(k + 1) /\ j <= Len(s)
    BY <2>1, <2>2, StartType
  <2>4. PICK x : x = got[k]  OBVIOUS
  <2>5. ItemAt(s, i, j, x)  BY <2>1, <2>3, <2>4 DEF Itemized
  <2>6. ItemAt(s \o t, i, j, x)  BY <2>3, <2>5, ItemKept
  <2>7. stream' = s \o t /\ StartOf(k)' = i /\ StartOf(k + 1)' = j /\ got'[k] = x
    BY <1>1, <2>1, <2>3, <2>4, Zenon
  <2> QED  BY <2>6, <2>7, Zenon DEF ItemAt
<1> QED  BY <1>2, <1>3, Zenon DEF Itemized

(* Steps that return an item.                                              *)
LEMMA ReturnItems ==
    ASSUME Base, Itemized, Ended, rEnd = "reading", NEW x \in Item, Returns(x), stream' = stream,
           \/ ItemAt(stream, Position, Position', x)
           \/ /\ x = Bad("Io") /\ wEnd' = "closed" /\ wire' = <<>> /\ Position < Len(stream)
              /\ DecodeWithLimit(After(stream, Position), max_frame_size).item = <<>>
    PROVE  Itemized' /\ (Failed' <=> x.type = "X")
<1>1. /\ Len(got') = Len(got) + 1 /\ starts' \in Seq(Nat) /\ Len(starts') = Len(got')
      /\ \A k \in 1..Len(got) : got'[k] = got[k] /\ starts'[k] = starts[k]
      /\ got'[Len(got) + 1] = x /\ starts'[Len(got) + 1] = Position
  BY ReturnsBase
<1>2. PICK n \in Nat : n = Len(got) /\ Len(starts) = n /\ starts \in Seq(Nat)
  BY DEF Base, Typed
<1>3. DOMAIN starts = 1..n /\ DOMAIN starts' = 1..(n + 1)  BY <1>1, <1>2
<1>4. ASSUME NEW k \in 1..(n + 1)  PROVE StartOf(k)' = StartOf(k)
  <2>1. CASE k \in 1..n
    <3>1. starts'[k] = starts[k]  BY <1>1, <1>2, <2>1
    <3>2. k \in DOMAIN starts /\ k \in DOMAIN starts'  BY <1>3, <2>1
    <3> QED  BY <3>1, <3>2 DEF StartOf
  <2>2. CASE k = n + 1
    <3>1. starts'[k] = Position  BY <1>1, <1>2, <2>2
    <3>2. k \notin DOMAIN starts /\ k \in DOMAIN starts'  BY <1>3, <2>2
    <3> QED  BY <3>1, <3>2 DEF StartOf
  <2>3. k \in 1..n \/ k = n + 1  OBVIOUS
  <2> QED  BY <2>1, <2>2, <2>3
<1>5. StartOf(n + 1) = Position /\ StartOf(n + 2)' = Position'
  <2>1. n + 1 \notin DOMAIN starts /\ n + 2 \notin DOMAIN starts'  BY <1>3
  <2> QED  BY <2>1 DEF StartOf
<1>6. StartOf(1)' = 0
  <2>1. 1 \in 1..(n + 1)  OBVIOUS
  <2> QED  BY <1>4, <2>1 DEF Itemized
<1>7. ASSUME NEW k \in 1..n
      PROVE  ItemAt(stream, StartOf(k), StartOf(k + 1), got[k])'
  <2>1. ~Torn(k)
    <3>1. k \in 1..Len(got)  BY <1>2
    <3> QED  BY <3>1, TornFails
  <2>2. ItemAt(stream, StartOf(k), StartOf(k + 1), got[k])  BY <1>2, <2>1 DEF Itemized
  <2>3. k \in 1..(n + 1) /\ k + 1 \in 1..(n + 1)  OBVIOUS
  <2>4. StartOf(k)' = StartOf(k) /\ StartOf(k + 1)' = StartOf(k + 1)  BY <1>4, <2>3
  <2>5. got'[k] = got[k]  BY <1>1, <1>2
  <2> QED  BY <2>2, <2>4, <2>5, Zenon DEF ItemAt
<1>8. n + 1 \in 1..(n + 1) /\ (n + 1) + 1 = n + 2  OBVIOUS
<1>9. StartOf(n + 1)' = Position  BY <1>4, <1>5, <1>8
<1>10. StartOf((n + 1) + 1)' = Position'  BY <1>5, <1>8
<1>11. got'[n + 1] = x /\ Len(got') = n + 1  BY <1>1, <1>2
<1>12. ItemAt(stream, StartOf(n + 1), StartOf((n + 1) + 1), got[n + 1])' \/ Torn(n + 1)'
  <2>1. CASE ItemAt(stream, Position, Position', x)
    BY <1>9, <1>10, <1>11, <2>1, Zenon DEF ItemAt
  <2>2. CASE /\ x = Bad("Io") /\ wEnd' = "closed" /\ wire' = <<>> /\ Position < Len(stream)
             /\ DecodeWithLimit(After(stream, Position), max_frame_size).item = <<>>
    BY <1>9, <1>11, <2>2 DEF Torn
  <2> QED  BY <2>1, <2>2
<1>13. ASSUME NEW k \in 1..Len(got')
       PROVE  ItemAt(stream, StartOf(k), StartOf(k + 1), got[k])' \/ Torn(k)'
  <2>1. k \in 1..n \/ k = n + 1  BY <1>11
  <2> QED  BY <1>7, <1>12, <2>1
<1>14. Itemized'  BY <1>6, <1>13, Zenon DEF Itemized
<1>15. Failed' <=> x.type = "X"
  <2>1. n + 1 \in 1..Len(got')  BY <1>11
  <2> QED  BY <1>11, <2>1 DEF Failed
<1> QED  BY <1>14, <1>15

LEMMA InitCut == Init => CutInv
<1> SUFFICES ASSUME Init PROVE CutInv  OBVIOUS
<1>1. Base  BY InitBase
<1>2. /\ wbuf = <<>> /\ wire = <<>> /\ rbuf = <<>> /\ stream = <<>> /\ got = <<>>
      /\ starts = <<>> /\ rEnd = "reading"
  BY DEF Init
<1>3. Len(got) = 0 /\ Len(starts) = 0 /\ Len(stream) = 0 /\ Len(rbuf) = 0 /\ Len(wire) = 0
  BY <1>2
<1>4. StartOf(1) = 0
  <2>1. 1 \notin DOMAIN starts  BY <1>2
  <2>2. Position = 0  BY <1>3 DEF Position
  <2> QED  BY <2>1, <2>2 DEF StartOf
<1>5. Itemized  BY <1>3, <1>4 DEF Itemized
<1>6. Ended  BY <1>2, <1>3 DEF Ended, Failed
<1> QED  BY <1>1, <1>5, <1>6 DEF CutInv

LEMMA NextCut == CutInv /\ [Next]_vars => CutInv'
<1> SUFFICES ASSUME CutInv, [Next]_vars PROVE Itemized' /\ Ended'
  BY NextBase DEF CutInv
<1>1. Base /\ Base' /\ Itemized /\ Ended  BY NextBase DEF CutInv
<1>2. PICK e \in Seq(Byte) : e = <<>>  BY EmptySeq, Zenon
<1>3. stream \o e = stream
  <2>1. stream \in Seq(Byte)  BY <1>1 DEF Base, Typed
  <2> QED  BY <1>2, <2>1, ConcatEmptySeq
<1>4. got' = got => (Failed' <=> Failed)  BY DEF Failed
<1>5. ASSUME NEW f \in Frames, Feed(f)  PROVE Itemized' /\ Ended'
  <2>1. Position' = Position  BY <1>1, <1>5, FeedBase
  <2>2. /\ wEnd = "open" /\ got' = got /\ starts' = starts /\ stream' = stream
        /\ wEnd' = wEnd /\ rEnd' = rEnd
    BY <1>5 DEF Feed
  <2>3. \A k \in 1..Len(got) : ~Torn(k)  BY <2>2 DEF Torn
  <2>4. Itemized'  BY <1>1, <1>3, <2>1, <2>2, <2>3, QuietItems
  <2> QED  BY <1>1, <1>4, <2>1, <2>2, <2>4 DEF Ended
<1>6. CASE CloseWriter
  <2>1. Position' = Position  BY <1>1, <1>6, CloseBase
  <2>2. /\ wEnd = "open" /\ got' = got /\ starts' = starts /\ stream' = stream
        /\ wEnd' = "closed" /\ rEnd' = rEnd /\ wbuf' = <<>>
    BY <1>6 DEF CloseWriter
  <2>3. \A k \in 1..Len(got) : ~Torn(k)  BY <2>2 DEF Torn
  <2>4. Itemized'  BY <1>1, <1>3, <2>1, <2>2, <2>3, QuietItems
  <2> QED  BY <1>1, <1>4, <2>1, <2>2, <2>4 DEF Ended
<1>7. ASSUME NEW n \in 1..Len(wbuf), WriteOut(n)  PROVE Itemized' /\ Ended'
  <2>1. PICK t \in Seq(Byte) : Position' = Position /\ stream' = stream \o t /\ wbuf # <<>>
    BY <1>1, <1>7, WriteOutBase
  <2>2. got' = got /\ starts' = starts /\ wEnd' = wEnd /\ rEnd' = rEnd
    BY <1>7 DEF WriteOut
  <2>3. \A k \in 1..Len(got) : ~Torn(k)  BY <1>1, <2>1, TornFails
  <2>4. Itemized'  BY <1>1, <2>1, <2>2, <2>3, QuietItems
  <2>5. wEnd # "closed" /\ rEnd # "ended"  BY <1>1, <2>1 DEF Ended
  <2> QED  BY <1>1, <1>4, <2>2, <2>4, <2>5 DEF Ended
<1>8. CASE Yield
  <2>1. PICK x \in Item : Returns(x) /\ ItemAt(stream, Position, Position', x)
    BY <1>1, <1>8, YieldBase
  <2>2. /\ rEnd = "reading" /\ stream' = stream /\ wEnd' = wEnd /\ wbuf' = wbuf
    BY <1>8 DEF Yield
  <2>3. Itemized' /\ (Failed' <=> x.type = "X")  BY <1>1, <2>1, <2>2, ReturnItems
  <2>4. rEnd' = IF x.type = "X" THEN "failed" ELSE rEnd  BY <2>1 DEF Returns
  <2>5. rEnd' # "ended" /\ (rEnd' = "failed" <=> Failed')  BY <2>2, <2>3, <2>4
  <2> QED  BY <1>1, <2>2, <2>3, <2>5 DEF Ended
<1>9. CASE ReadEof
  <2>1. /\ Position' = Position /\ wire = <<>> /\ wEnd = "closed"
        /\ rbuf = After(stream, Position) /\ Decode.item = <<>> /\ stream' = stream
        /\ \/ rbuf = <<>> /\ rEnd' = "ended" /\ got' = got /\ starts' = starts
           \/ rbuf # <<>> /\ Returns(Bad("Io")) /\ Bad("Io") \in Item
    BY <1>1, <1>9, EofBase
  <2>2. rEnd = "reading" /\ wire' = wire /\ wEnd' = wEnd /\ wbuf' = wbuf  BY <1>9 DEF ReadEof
  <2>3. /\ stream \in Seq(Byte) /\ rbuf \in Seq(Byte) /\ Position \in Nat /\ Position <= Len(stream)
        /\ Len(stream) \in Nat
    BY <1>1 DEF Base, Typed, Aligned
  <2>4. Len(rbuf) = Len(stream) - Position
    <3>1. Len(After(stream, Position)) = Len(stream) - Position  BY <1>2, <2>3, AfterConcat
    <3> QED  BY <2>1, <3>1
  <2>5. CASE rbuf = <<>> /\ rEnd' = "ended" /\ got' = got /\ starts' = starts
    <3>1. Position = Len(stream)
      <4>1. Len(rbuf) = 0  BY <2>5
      <4> QED  BY <2>3, <2>4, <4>1
    <3>2. \A k \in 1..Len(got) : ~Torn(k)  BY <1>1, <2>2, TornFails
    <3>3. Itemized'  BY <1>1, <1>3, <2>1, <2>5, <3>2, QuietItems
    <3>4. ~Failed  BY <1>1, <2>2 DEF Ended
    <3> QED  BY <1>1, <1>4, <2>1, <2>2, <2>5, <3>1, <3>3, <3>4 DEF Ended
  <2>6. CASE rbuf # <<>> /\ Returns(Bad("Io")) /\ Bad("Io") \in Item
    <3>1. Position < Len(stream)
      <4>1. Len(rbuf) \in Nat \ {0}  BY <2>3, <2>6, EmptySeq
      <4> QED  BY <2>3, <2>4, <4>1
    <3>2. DecodeWithLimit(After(stream, Position), max_frame_size).item = <<>>
      BY <2>1, Zenon DEF Decode
    <3>3. Bad("Io").type = "X"  BY DEF Bad
    <3>4. PICK x \in Item : x = Bad("Io")  BY <2>6
    <3>5. Returns(x) /\ x.type = "X" /\ wEnd' = "closed" /\ wire' = <<>>  BY <2>1, <2>2, <2>6, <3>3, <3>4, Zenon
    <3>6. Itemized' /\ (Failed' <=> x.type = "X")
      BY <1>1, <2>1, <2>2, <3>1, <3>2, <3>4, <3>5, ReturnItems
    <3>7. rEnd' = "failed"  BY <3>5 DEF Returns
    <3> QED  BY <1>1, <2>2, <3>5, <3>6, <3>7 DEF Ended
  <2> QED  BY <2>1, <2>5, <2>6
<1>10. ASSUME NEW n \in 1..Len(wire), Read(n)  PROVE Itemized' /\ Ended'
  <2>1. Position' = Position  BY <1>1, <1>10, ReadBase
  <2>2. /\ got' = got /\ starts' = starts /\ stream' = stream /\ rEnd = "reading"
        /\ wEnd' = wEnd /\ rEnd' = rEnd /\ wbuf' = wbuf
    BY <1>10 DEF Read
  <2>3. \A k \in 1..Len(got) : ~Torn(k)  BY <1>1, <2>2, TornFails
  <2>4. Itemized'  BY <1>1, <1>3, <2>1, <2>2, <2>3, QuietItems
  <2> QED  BY <1>1, <1>4, <2>1, <2>2, <2>4 DEF Ended
<1>11. CASE UNCHANGED vars
  <2>1. Position' = Position  BY <1>1, <1>11, SameBase
  <2>2. \A k : StartOf(k)' = StartOf(k)  BY <1>11, <2>1 DEF vars, StartOf
  <2>3. \A k : Torn(k)' <=> Torn(k)  BY <1>11, <2>2 DEF vars, Torn
  <2>4. Itemized'  BY <1>1, <1>11, <2>2, <2>3 DEF vars, Itemized, ItemAt
  <2> QED  BY <1>1, <1>4, <1>11, <2>1, <2>4 DEF Ended, vars
<1> QED  BY <1>5, <1>6, <1>7, <1>8, <1>9, <1>10, <1>11 DEF Next, Runtime, Over

LEMMA CutIs == CutInv => CutIndependent
<1> SUFFICES ASSUME CutInv PROVE CutIndependent  OBVIOUS
<1>1. Base /\ Itemized /\ Ended  BY DEF CutInv
<1>2. DOMAIN got = 1..Len(got)  BY <1>1 DEF Base, Typed
<1>3. ASSUME NEW k \in DOMAIN got
      PROVE  \/ /\ DecodeAt(StartOf(k)).item = <<got[k]>>
                /\ DecodeAt(StartOf(k)).src = From(StartOf(k + 1))
             \/ /\ got[k] = Bad("Io") /\ k = Len(got) /\ wEnd = "closed" /\ wire = <<>>
                /\ DecodeAt(StartOf(k)).item = <<>> /\ StartOf(k) < Len(stream)
  <2>1. ItemAt(stream, StartOf(k), StartOf(k + 1), got[k]) \/ Torn(k)
    BY <1>1, <1>2 DEF Itemized
  <2> QED  BY <2>1, Zenon DEF ItemAt, Torn, DecodeAt, From, After
<1> QED  BY <1>1, <1>2, <1>3 DEF CutIndependent, Itemized, Ended, Failed

(* Wherever the stream is cut into reads, the reader returns the items of  *)
(* the whole: none skipped, none twice, none split; an error or a torn end *)
(* is the last, for every frame, limit and cut.                            *)
THEOREM CutsDoNotShow == Spec => []CutIndependent
<1>1. Init => CutInv  BY InitCut
<1>2. CutInv /\ [Next]_vars => CutInv'  BY NextCut
<1>3. CutInv => CutIndependent  BY CutIs
<1> QED  BY <1>1, <1>2, <1>3, PTL DEF Spec

-----------------------------------------------------------------------------
(* The inductive invariant, third part: where the frames lie in the bytes  *)
(* that were written.                                                      *)

(* A frame is decoded as what it is, whatever follows it.                  *)
LEMMA FrameDecodes ==
    ASSUME NEW f \in Frames, NEW q \in Seq(Byte)
    PROVE  /\ Bytes(f) \in Seq(Byte)
           /\ DecodeWithLimit(Bytes(f) \o q, max_frame_size).item = <<Limited(f)>>
           /\ Limited(f).type # "X" => DecodeWithLimit(Bytes(f) \o q, max_frame_size).src = q
<1>1. PICK b \in Seq(Byte) : b = Bytes(f)  BY RoundTrip DEF RoundTrips
<1>2. DecodeWithLimit(b, max_frame_size).item = <<Limited(f)>>
  BY <1>1, RoundTrip, Zenon DEF RoundTrips
<1>3. Limited(f).type # "X" => DecodeWithLimit(b, max_frame_size).src = <<>>
  BY <1>1, RoundTrip, Zenon DEF RoundTrips
<1>4. PICK y, n : Decides(b, y, n)  BY <1>2, NotEmpty, Stable
<1>5. /\ n \in Nat /\ n <= Len(b) /\ DecodeWithLimit(b, max_frame_size) = Takes(y, n, b)
      /\ DecodeWithLimit(b \o q, max_frame_size) = Takes(y, n, b \o q)
  <2>1. n \in 0..Len(b)  BY <1>4 DEF Decides
  <2>2. n \in Nat /\ n <= Len(b)  BY <2>1
  <2> QED  BY <1>4, <2>2 DEF Decides
<1>6. DecodeWithLimit(b \o q, max_frame_size).item = <<Limited(f)>>
  BY <1>2, <1>5, NotEmpty, Zenon
<1>7. ASSUME Limited(f).type # "X"  PROVE DecodeWithLimit(b \o q, max_frame_size).src = q
  <2>1. After(b, n) = <<>>  BY <1>3, <1>5, <1>7, TakesAfter, Zenon
  <2>2. After(b \o q, n) = After(b, n) \o q  BY <1>5, AfterConcat
  <2>3. <<>> \o q = q  BY ConcatEmptySeq
  <2> QED  BY <1>5, <2>1, <2>2, <2>3, TakesAfter, Zenon
<1> QED  BY <1>1, <1>6, <1>7, Zenon

(* The item x of s lies where, with t behind s, the frame f does.          *)
ItemAtFrame(s, i, j, x, t, f, q) ==
    /\ s \in Seq(Byte) /\ t \in Seq(Byte) /\ q \in Seq(Byte) /\ f \in Frames
    /\ i \in Nat /\ i <= Len(s) /\ j \in Nat /\ j <= Len(s)
    /\ ItemAt(s, i, j, x) /\ After(s \o t, i) = Bytes(f) \o q

(* So the item a reader finds where a frame begins is that frame.          *)
LEMMA ItemIsFrame ==
    ASSUME NEW s, NEW i, NEW j, NEW x, NEW t, NEW f, NEW q, ItemAtFrame(s, i, j, x, t, f, q)
    PROVE  x = Limited(f) /\ (x.type # "X" => j = i + Len(Bytes(f)))
<1>0. /\ s \in Seq(Byte) /\ t \in Seq(Byte) /\ q \in Seq(Byte) /\ f \in Frames
      /\ i \in Nat /\ i <= Len(s) /\ j \in Nat /\ j <= Len(s)
      /\ ItemAt(s, i, j, x) /\ After(s \o t, i) = Bytes(f) \o q
  BY DEF ItemAtFrame
<1>1. ItemAt(s \o t, i, j, x)  BY <1>0, ItemKept
<1>2. DecodeWithLimit(Bytes(f) \o q, max_frame_size).item = <<x>>  BY <1>0, <1>1, Zenon DEF ItemAt
<1>3. DecodeWithLimit(Bytes(f) \o q, max_frame_size).src = After(s \o t, j)
  BY <1>0, <1>1, Zenon DEF ItemAt
<1>4. /\ Bytes(f) \in Seq(Byte)
      /\ DecodeWithLimit(Bytes(f) \o q, max_frame_size).item = <<Limited(f)>>
      /\ Limited(f).type # "X" => DecodeWithLimit(Bytes(f) \o q, max_frame_size).src = q
  BY <1>0, FrameDecodes
<1>5. <<x>> = <<Limited(f)>>  BY <1>2, <1>4, Zenon
<1>6. x = Limited(f)  BY <1>5, TupleEq
<1>7. ASSUME x.type # "X"  PROVE j = i + Len(Bytes(f))
  <2>1. After(s \o t, j) = q  BY <1>3, <1>4, <1>6, <1>7, Zenon
  <2>2. PICK u \in Seq(Byte) : u = s \o t  BY <1>0, InFront
  <2>3. Len(u) = Len(s) + Len(t) /\ Len(s) \in Nat /\ Len(t) \in Nat  BY <1>0, <2>2, InFront
  <2>4. i <= Len(u) /\ j <= Len(u)  BY <1>0, <2>3
  <2>5. Len(After(u, i)) = Len(u) - i /\ Len(After(u, j)) = Len(u) - j
    BY <1>0, <2>4, AfterConcat
  <2>6. Len(Bytes(f) \o q) = Len(Bytes(f)) + Len(q)  BY <1>0, <1>4, InFront
  <2>7. Len(u) - i = Len(Bytes(f)) + Len(q) /\ Len(q) = Len(u) - j
    BY <1>0, <2>1, <2>2, <2>5, <2>6, Zenon
  <2>8. Len(Bytes(f)) \in Nat /\ Len(q) \in Nat  BY <1>0, <1>4
  <2>9. PICK lb \in Nat, lq \in Nat, lu \in Nat :
          lb = Len(Bytes(f)) /\ lq = Len(q) /\ lu = Len(u)
    BY <1>0, <2>8
  <2>10. lu - i = lb + lq /\ lq = lu - j  BY <2>7, <2>9, Zenon
  <2>11. j = i + lb  BY <1>0, <2>10
  <2> QED  BY <2>9, <2>11, Zenon
<1> QED  BY <1>6, <1>7

(* all: the bytes that were written; e[k]: where the k-th frame begins.    *)
Written(all, e) ==
    /\ Len(e) = Len(fed) + 1 /\ e[1] = 0 /\ e[Len(fed) + 1] = Len(all)
    /\ \A k \in 1..(Len(fed) + 1) : e[k] <= Len(all)
    /\ \A k \in 1..Len(fed) :
        /\ e[k + 1] = e[k] + Len(Bytes(fed[k]))
        /\ \E q \in Seq(Byte) : After(all, e[k]) = Bytes(fed[k]) \o q

Sent(all) ==
    \E t \in Seq(Byte) : all = stream \o t /\ (wEnd = "open" => t = wbuf)

Matched(e) ==
    /\ Len(got) <= Len(fed)
    /\ rEnd = "reading" => Position = e[Len(got) + 1]
    /\ \A k \in 1..Len(got) :
        got[k] = Limited(fed[k]) \/ (got[k] = Bad("Io") /\ k = Len(got) /\ wEnd = "closed")

Begun(e) ==
    /\ begins \in Seq(Nat) /\ Len(begins) = Len(fed)
    /\ \A k \in 1..Len(fed) : begins[k] = e[k]

Ordered ==
    \E all \in Seq(Byte), e \in Seq(Nat) :
        Written(all, e) /\ Sent(all) /\ Matched(e) /\ Begun(e)

OrderInv == CutInv /\ Ordered

LEMMA InitOrder == Init => OrderInv
<1> SUFFICES ASSUME Init PROVE OrderInv  OBVIOUS
<1>1. CutInv  BY InitCut
<1>2. /\ wbuf = <<>> /\ stream = <<>> /\ got = <<>> /\ fed = <<>> /\ wire = <<>> /\ rbuf = <<>>
  BY DEF Init
<1>3. PICK all \in Seq(Byte) : all = <<>>  BY EmptySeq, Zenon
<1>4. PICK e \in Seq(Nat) : e = <<0>>
  <2>1. <<0>> \in Seq(Nat)  OBVIOUS
  <2> QED  BY <2>1, Zenon
<1>5. Len(all) = 0 /\ Len(e) = 1 /\ e[1] = 0 /\ Len(fed) = 0 /\ Len(got) = 0
  BY <1>2, <1>3, <1>4
<1>6. Written(all, e)  BY <1>5 DEF Written
<1>7. all = stream \o all  BY <1>2, <1>3, ConcatEmptySeq
<1>8. Sent(all)  BY <1>2, <1>3, <1>7 DEF Sent
<1>9. Position = 0
  <2>1. Len(stream) = 0 /\ Len(rbuf) = 0 /\ Len(wire) = 0  BY <1>2
  <2> QED  BY <2>1 DEF Position
<1>10. Matched(e)  BY <1>5, <1>9 DEF Matched
<1>11. begins = <<>>  BY DEF Init
<1>12. Begun(e)  BY <1>5, <1>11 DEF Begun
<1> QED  BY <1>1, <1>6, <1>8, <1>10, <1>12 DEF OrderInv, Ordered

(* The writer writes one more frame.                                       *)
LEMMA FeedOrder ==
    ASSUME OrderInv, NEW f \in Frames, Feed(f)
    PROVE  Ordered'
<1>1. Base /\ Ended /\ Base' /\ Position' = Position
  BY FeedBase DEF OrderInv, CutInv
<1>2. PICK all \in Seq(Byte), e \in Seq(Nat) :
        Written(all, e) /\ Sent(all) /\ Matched(e) /\ Begun(e)
  BY DEF OrderInv, Ordered
<1>3. PICK b \in Seq(Byte) : b = Bytes(f)  BY RoundTrip DEF RoundTrips
<1>4. PICK n \in Nat : n = Len(fed) /\ fed \in Seq(Frames)  BY <1>1 DEF Base, Typed
<1>5. /\ Len(fed') = n + 1 /\ fed'[n + 1] = f /\ \A k \in 1..n : fed'[k] = fed[k]
  <2>1. fed' = Append(fed, f)  BY DEF Feed
  <2> QED  BY <1>4, <2>1, AppendProperties
<1>6. PICK all2 \in Seq(Byte) : all2 = all \o b  BY InFront
<1>7. PICK m \in Nat : m = Len(all2) /\ m = Len(all) + Len(b) /\ Len(all) <= m
  BY <1>6, InFront
<1>8. PICK e2 \in Seq(Nat) : e2 = Append(e, m)  BY AppendProperties
<1>9. /\ Len(e) = n + 1 /\ e[1] = 0 /\ e[n + 1] = Len(all)
      /\ \A k \in 1..(n + 1) : e[k] <= Len(all)
      /\ \A k \in 1..n : e[k + 1] = e[k] + Len(Bytes(fed[k]))
      /\ \A k \in 1..n : \E q \in Seq(Byte) : After(all, e[k]) = Bytes(fed[k]) \o q
  BY <1>2, <1>4 DEF Written
<1>10. Len(e2) = n + 2 /\ e2[n + 2] = m /\ \A k \in 1..(n + 1) : e2[k] = e[k]
  <2>1. /\ Len(e2) = Len(e) + 1 /\ \A k \in 1..Len(e) : e2[k] = e[k] /\ e2[Len(e) + 1] = m
        /\ e2[Len(e) + 1] = m
    BY <1>8, AppendProperties
  <2>2. (n + 1) + 1 = n + 2  OBVIOUS
  <2> QED  BY <1>9, <2>1, <2>2
<1>11. \A k \in 1..(n + 1) : e[k] \in Nat
  <2>1. \A k \in 1..Len(e) : e[k] \in Nat  BY ElementOfSeq
  <2> QED  BY <1>9, <2>1, Zenon
<1>12. \A k \in 1..(n + 2) : e2[k] <= m
  <2> SUFFICES ASSUME NEW k \in 1..(n + 2)  PROVE e2[k] <= m  OBVIOUS
  <2>1. k \in 1..(n + 1) \/ k = n + 2  OBVIOUS
  <2> QED  BY <1>7, <1>9, <1>10, <1>11, <2>1
<1>13. ASSUME NEW k \in 1..(n + 1)
       PROVE  /\ e2[k + 1] = e2[k] + Len(Bytes(fed'[k]))
              /\ \E q \in Seq(Byte) : After(all2, e2[k]) = Bytes(fed'[k]) \o q
  <2>1. CASE k \in 1..n
    <3>1. k + 1 \in 1..(n + 1)  BY <2>1
    <3>2. e2[k] = e[k] /\ e2[k + 1] = e[k + 1] /\ fed'[k] = fed[k]  BY <1>5, <1>10, <2>1, <3>1
    <3>3. PICK q \in Seq(Byte) : After(all, e[k]) = Bytes(fed[k]) \o q  BY <1>9, <2>1
    <3>4. PICK i \in Nat : i = e[k] /\ i <= Len(all)  BY <1>9, <1>11
    <3>5. After(all \o b, i) = After(all, i) \o b  BY <3>4, AfterConcat
    <3>6. PICK g \in Seq(Byte) : g = Bytes(fed[k])
      <4>1. fed[k] \in Frames  BY <1>4, <2>1
      <4> QED  BY <4>1, RoundTrip DEF RoundTrips
    <3>7. (g \o q) \o b = g \o (q \o b)  BY Assoc, ZenonT(40)
    <3>8. q \o b \in Seq(Byte)  BY InFront
    <3>9. After(all2, e2[k]) = Bytes(fed'[k]) \o (q \o b)
      BY <1>6, <3>2, <3>3, <3>4, <3>5, <3>6, <3>7, Zenon
    <3>10. e2[k + 1] = e2[k] + Len(Bytes(fed'[k]))  BY <1>9, <2>1, <3>2
    <3> QED  BY <3>8, <3>9, <3>10
  <2>2. CASE k = n + 1
    <3>1. k + 1 = n + 2 /\ k \in 1..(n + 1)  BY <2>2
    <3>2. e2[k] = Len(all) /\ e2[k + 1] = m /\ fed'[k] = f  BY <1>5, <1>9, <1>10, <2>2, <3>1
    <3>3. After(all \o b, Len(all)) = b  BY Rest DEF After
    <3>4. b \o <<>> = b  BY ConcatEmptySeq
    <3>5. After(all2, e2[k]) = Bytes(fed'[k]) \o <<>>
      BY <1>3, <1>6, <3>2, <3>3, <3>4, Zenon
    <3>6. e2[k + 1] = e2[k] + Len(Bytes(fed'[k]))  BY <1>3, <1>7, <3>2
    <3>7. <<>> \in Seq(Byte)  OBVIOUS
    <3> QED  BY <3>5, <3>6, <3>7
  <2>3. k \in 1..n \/ k = n + 1  OBVIOUS
  <2> QED  BY <2>1, <2>2, <2>3
<1>14. Written(all2, e2)'
  <2>1. Len(e2) = Len(fed') + 1 /\ Len(fed') + 1 = n + 2  BY <1>5, <1>10
  <2>2. e2[1] = 0
    <3>1. 1 \in 1..(n + 1)  OBVIOUS
    <3> QED  BY <1>9, <1>10, <3>1
  <2>3. e2[Len(fed') + 1] = Len(all2)  BY <1>7, <1>10, <2>1
  <2>4. \A k \in 1..(Len(fed') + 1) : e2[k] <= Len(all2)  BY <1>7, <1>12, <2>1
  <2>5. \A k \in 1..Len(fed') :
          /\ e2[k + 1] = e2[k] + Len(Bytes(fed'[k]))
          /\ \E q \in Seq(Byte) : After(all2, e2[k]) = Bytes(fed'[k]) \o q
    BY <1>5, <1>13, Zenon
  <2> QED  BY <2>1, <2>2, <2>3, <2>4, <2>5, Zenon DEF Written, Bytes, After
<1>15. Sent(all2)'
  <2>1. wEnd = "open" /\ wEnd' = wEnd /\ stream' = stream /\ wbuf' = wbuf \o b
    BY <1>3 DEF Feed
  <2>2. all = stream \o wbuf  BY <1>2, <2>1 DEF Sent
  <2>3. wbuf \in Seq(Byte) /\ stream \in Seq(Byte)  BY <1>1 DEF Base, Typed
  <2>4. (stream \o wbuf) \o b = stream \o (wbuf \o b)  BY <2>3, Assoc, ZenonT(40)
  <2>5. wbuf \o b \in Seq(Byte)  BY <2>3, InFront
  <2>6. all2 = stream' \o wbuf' /\ wbuf' \in Seq(Byte)
    BY <1>6, <2>1, <2>2, <2>4, <2>5, Zenon
  <2> QED  BY <2>6 DEF Sent
<1>16. Matched(e2)'
  <2>1. got' = got /\ rEnd' = rEnd /\ wEnd' = wEnd  BY DEF Feed
  <2>2. Len(got) \in Nat /\ Len(got) <= n  BY <1>1, <1>2, <1>4 DEF Matched, Base, Typed
  <2>3. Len(got) + 1 \in 1..(n + 1)  BY <2>2
  <2>4. e2[Len(got) + 1] = e[Len(got) + 1]  BY <1>10, <2>3
  <2>5. \A k \in 1..Len(got) : fed'[k] = fed[k]
    <3>1. \A k \in 1..Len(got) : k \in 1..n  BY <2>2
    <3> QED  BY <1>5, <3>1
  <2>6. Len(got') <= Len(fed')  BY <1>5, <2>1, <2>2
  <2>7. rEnd' = "reading" => Position' = e2[Len(got') + 1]
    BY <1>1, <1>2, <2>1, <2>4 DEF Matched
  <2>8. ASSUME NEW k \in 1..Len(got')
        PROVE \/ got'[k] = Limited(fed'[k])
              \/ (got'[k] = Bad("Io") /\ k = Len(got') /\ wEnd' = "closed")
    BY <1>2, <2>1, <2>5, Zenon DEF Matched
  <2> QED  BY <2>6, <2>7, <2>8, Zenon DEF Matched, Limited, Bad
<1>17. Begun(e2)'
  <2>1. PICK d \in Seq(Nat) : d = begins /\ Len(d) = n /\ \A k \in 1..n : d[k] = e[k]
    BY <1>2, <1>4 DEF Begun
  <2>2. all = stream \o wbuf /\ wbuf \in Seq(Byte) /\ stream \in Seq(Byte)
    BY <1>1, <1>2 DEF Feed, Sent, Base, Typed
  <2>3. Len(stream) + Len(wbuf) = Len(all) /\ Len(all) \in Nat  BY <2>2, InFront
  <2>4. begins' = Append(d, Len(all))  BY <2>1, <2>3 DEF Feed
  <2>5. /\ Append(d, Len(all)) \in Seq(Nat) /\ Len(Append(d, Len(all))) = n + 1
        /\ Append(d, Len(all))[n + 1] = Len(all)
        /\ \A k \in 1..n : Append(d, Len(all))[k] = d[k]
    BY <2>1, <2>3, AppendProperties
  <2>6. ASSUME NEW k \in 1..(n + 1)  PROVE begins'[k] = e2[k]
    <3>1. k \in 1..n \/ k = n + 1  OBVIOUS
    <3> QED  BY <1>9, <1>10, <2>1, <2>4, <2>5, <3>1
  <2> QED  BY <1>5, <2>4, <2>5, <2>6 DEF Begun
<1> QED  BY <1>14, <1>15, <1>16, <1>17 DEF Ordered

(* Steps that feed nothing and return nothing.                             *)
LEMMA QuietOrder ==
    ASSUME NEW all \in Seq(Byte), NEW e \in Seq(Nat), Written(all, e), Matched(e), Begun(e),
           fed' = fed, begins' = begins, got' = got, Position' = Position,
           rEnd' = "reading" => rEnd = "reading", wEnd = "closed" => wEnd' = "closed"
    PROVE  Written(all, e)' /\ Matched(e)' /\ Begun(e)'
<1>1. Written(all, e)'  BY Zenon DEF Written, Bytes, After
<1>2. Matched(e)'  BY Zenon DEF Matched, Limited, Bad
<1>3. Begun(e)'  BY Zenon DEF Begun
<1> QED  BY <1>1, <1>2, <1>3

LEMMA WriteOutOrder ==
    ASSUME OrderInv, NEW n \in 1..Len(wbuf), WriteOut(n)
    PROVE  Ordered'
<1>1. Base /\ Base' /\ Ended  BY WriteOutBase DEF OrderInv, CutInv
<1>2. PICK all \in Seq(Byte), e \in Seq(Nat) :
        Written(all, e) /\ Sent(all) /\ Matched(e) /\ Begun(e)
  BY DEF OrderInv, Ordered
<1>3. PICK t \in Seq(Byte) :
        Position' = Position /\ stream' = stream \o t /\ wbuf = t \o wbuf' /\ wbuf # <<>>
  BY <1>1, WriteOutBase
<1>4. fed' = fed /\ begins' = begins /\ got' = got /\ rEnd' = rEnd /\ wEnd' = wEnd
  BY DEF WriteOut
<1>5. Written(all, e)' /\ Matched(e)' /\ Begun(e)'  BY <1>2, <1>3, <1>4, QuietOrder
<1>6. wEnd = "open"  BY <1>1, <1>3 DEF Ended, Base, Typed
<1>7. all = stream \o wbuf  BY <1>2, <1>6 DEF Sent
<1>8. PICK s \in Seq(Byte), b \in Seq(Byte) : s = stream /\ b = wbuf'  BY <1>1 DEF Base, Typed
<1>9. (s \o t) \o b = s \o (t \o b)  BY Assoc, ZenonT(40)
<1>10. all = stream' \o wbuf' /\ wbuf' \in Seq(Byte)  BY <1>3, <1>7, <1>8, <1>9, Zenon
<1>11. Sent(all)'  BY <1>10 DEF Sent
<1> QED  BY <1>5, <1>11 DEF Ordered

LEMMA StillOrder ==
    ASSUME Ordered, fed' = fed, begins' = begins, got' = got, Position' = Position,
           stream' = stream,
           rEnd' = "reading" => rEnd = "reading",
           wEnd' = "closed" \/ (wEnd' = wEnd /\ wbuf' = wbuf)
    PROVE  Ordered'
<1>1. PICK all \in Seq(Byte), e \in Seq(Nat) :
        Written(all, e) /\ Sent(all) /\ Matched(e) /\ Begun(e)
  BY DEF Ordered
<1>2. wEnd = "closed" => wEnd' = "closed"  OBVIOUS
<1>3. Written(all, e)' /\ Matched(e)' /\ Begun(e)'  BY <1>1, <1>2, QuietOrder
<1>4. PICK t \in Seq(Byte) : all = stream \o t /\ (wEnd = "open" => t = wbuf)  BY <1>1 DEF Sent
<1>5. all = stream' \o t /\ (wEnd' = "open" => t = wbuf')  BY <1>4
<1>6. Sent(all)'  BY <1>5 DEF Sent
<1> QED  BY <1>3, <1>6 DEF Ordered

(* Steps that return an item.                                              *)
LEMMA ReturnOrder ==
    ASSUME Base, NEW all \in Seq(Byte), NEW e \in Seq(Nat), Written(all, e), Sent(all), Matched(e),
           Begun(e), NEW x \in Item, Returns(x), fed' = fed, begins' = begins, stream' = stream, wEnd' = wEnd, wbuf' = wbuf,
           \A k \in 1..Len(got) : ~(got[k] = Bad("Io") /\ k = Len(got) /\ wEnd = "closed"),
           Len(got) < Len(fed),
           x = Limited(fed[Len(got) + 1]) \/ (x = Bad("Io") /\ wEnd = "closed"),
           x.type = "X" \/ Position' = e[Len(got) + 2]
    PROVE  Ordered'
<1>1. PICK n \in Nat : n = Len(got)  BY DEF Base, Typed
<1>2. /\ Len(got') = n + 1 /\ \A k \in 1..n : got'[k] = got[k]
      /\ got'[n + 1] = x /\ rEnd' = IF x.type = "X" THEN "failed" ELSE rEnd
  BY <1>1, ReturnsBase
<1>3. Len(got') <= Len(fed')
  <2>1. Len(fed) \in Nat  BY DEF Base, Typed
  <2> QED  BY <1>1, <1>2, <2>1
<1>4. rEnd' = "reading" => Position' = e[Len(got') + 1]
  <2>1. rEnd' = "reading" => x.type # "X"  BY <1>2
  <2>2. (n + 1) + 1 = n + 2  OBVIOUS
  <2> QED  BY <1>1, <1>2, <2>1, <2>2
<1>5. ASSUME NEW k \in 1..Len(got')
      PROVE  \/ got'[k] = Limited(fed'[k])
             \/ (got'[k] = Bad("Io") /\ k = Len(got') /\ wEnd' = "closed")
  <2>1. k \in 1..n \/ k = n + 1  BY <1>2
  <2>2. CASE k \in 1..n
    <3>1. got'[k] = got[k] /\ k \in 1..Len(got)  BY <1>1, <1>2, <2>2
    <3>2. got[k] = Limited(fed[k])  BY <3>1 DEF Matched
    <3> QED  BY <3>1, <3>2
  <2>3. CASE k = n + 1
    <3>1. got'[k] = x /\ k = Len(got') /\ k = Len(got) + 1  BY <1>1, <1>2, <2>3
    <3> QED  BY <3>1
  <2> QED  BY <2>1, <2>2, <2>3
<1>6. Matched(e)'  BY <1>3, <1>4, <1>5, Zenon DEF Matched, Limited, Bad
<1>7. Written(all, e)'  BY Zenon DEF Written, Bytes, After
<1>8. Sent(all)'  BY DEF Sent
<1>9. Begun(e)'  BY Zenon DEF Begun
<1> QED  BY <1>6, <1>7, <1>8, <1>9 DEF Ordered

(* No item was torn while the reader reads.                                *)
LEMMA NoneTorn ==
    ASSUME Base, Ended, rEnd = "reading"
    PROVE  \A k \in 1..Len(got) : ~(got[k] = Bad("Io") /\ k = Len(got) /\ wEnd = "closed")
<1> SUFFICES ASSUME NEW k \in 1..Len(got), got[k] = Bad("Io"), k = Len(got)  PROVE FALSE
  OBVIOUS
<1>1. got[k].type = "X"  BY DEF Bad
<1>2. Failed  BY <1>1 DEF Failed
<1> QED  BY <1>2 DEF Ended

(* A reader that is before the end of the stream is at a frame.            *)
LEMMA AtFrame ==
    ASSUME Base, rEnd = "reading", NEW all \in Seq(Byte), NEW e \in Seq(Nat),
           Written(all, e), Sent(all), Matched(e)
    PROVE  /\ Len(got) \in Nat /\ Len(fed) \in Nat
           /\ Position < Len(stream) => Len(got) < Len(fed)
           /\ Len(got) < Len(fed) =>
                /\ fed[Len(got) + 1] \in Frames
                /\ e[Len(got) + 2] = Position + Len(Bytes(fed[Len(got) + 1]))
                /\ \E q \in Seq(Byte) : After(all, Position) = Bytes(fed[Len(got) + 1]) \o q
<1>1. PICK g \in Nat, n \in Nat, s \in Seq(Byte), p \in Nat :
        g = Len(got) /\ n = Len(fed) /\ s = stream /\ p = Position /\ p <= Len(s)
        /\ fed \in Seq(Frames)
  BY DEF Base, Typed, Aligned
<1>2. g <= n /\ p = e[g + 1]  BY <1>1 DEF Matched
<1>3. p < Len(s) => g < n
  <2>1. PICK t \in Seq(Byte) : all = s \o t  BY <1>1 DEF Sent
  <2>2. Len(s) <= Len(all)
    <3>1. Len(s \o t) = Len(s) + Len(t) /\ Len(s) \in Nat /\ Len(t) \in Nat  BY InFront
    <3> QED  BY <2>1, <3>1
  <2>3. g = n => p = Len(all)  BY <1>1, <1>2 DEF Written
  <2>4. Len(s) \in Nat /\ Len(all) \in Nat  OBVIOUS
  <2> QED  BY <1>1, <1>2, <2>2, <2>3, <2>4
<1>4. ASSUME g < n
      PROVE  /\ fed[g + 1] \in Frames /\ e[g + 2] = p + Len(Bytes(fed[g + 1]))
             /\ \E q \in Seq(Byte) : After(all, p) = Bytes(fed[g + 1]) \o q
  <2>1. PICK k \in 1..n : k = g + 1 /\ k + 1 = g + 2  BY <1>4
  <2>2. fed[k] \in Frames  BY <1>1, <2>1
  <2>3. /\ e[k + 1] = e[k] + Len(Bytes(fed[k]))
        /\ \E q \in Seq(Byte) : After(all, e[k]) = Bytes(fed[k]) \o q
    BY <1>1 DEF Written
  <2> QED  BY <1>2, <2>1, <2>2, <2>3, Zenon
<1> QED  BY <1>1, <1>3, <1>4, Zenon

(* What it returns is that frame.                                          *)
LEMMA YieldFrame ==
    ASSUME Base, Yield, NEW all \in Seq(Byte), NEW e \in Seq(Nat),
           Written(all, e), Sent(all), Matched(e)
    PROVE  /\ Len(got) < Len(fed)
           /\ \E x \in Item :
                /\ Returns(x) /\ x = Limited(fed[Len(got) + 1])
                /\ x.type = "X" \/ Position' = e[Len(got) + 2]
                /\ ItemAt(stream, Position, Position', x)
<1>1. Base'  BY YieldBase
<1>3. /\ rEnd = "reading" /\ stream' = stream /\ wEnd' = wEnd /\ wbuf' = wbuf /\ fed' = fed
      /\ begins' = begins
  BY DEF Yield
<1>4. PICK x \in Item : Returns(x) /\ ItemAt(stream, Position, Position', x)
  BY YieldBase
<1>5. PICK s \in Seq(Byte), i \in Nat, j \in Nat :
        s = stream /\ i = Position /\ i <= Len(s) /\ j = Position' /\ j <= Len(s)
  BY <1>1, <1>3 DEF Base, Typed, Aligned
<1>6. ItemAt(s, i, j, x)  BY <1>4, <1>5, Zenon
<1>7. i < Len(s)
  <2>1. i # Len(s)
    <3>1. SUFFICES ASSUME i = Len(s) PROVE FALSE  OBVIOUS
    <3>2. After(s, i) = <<>>
      <4>1. Len(s) + 1 \in Int /\ Len(s) \in Int /\ Len(s) < Len(s) + 1  OBVIOUS
      <4> QED  BY <3>1, <4>1, SubSeqEmpty DEF After
    <3>3. DecodeWithLimit(<<>>, max_frame_size) = Pending(<<>>)
      <4>1. Len(<<>>) < 2  OBVIOUS
      <4> QED  BY <4>1, DecodeIs, Zenon
    <3> QED  BY <1>6, <3>2, <3>3, NotEmpty, Zenon DEF ItemAt
  <2>2. Len(s) \in Nat  OBVIOUS
  <2> QED  BY <1>5, <2>1, <2>2
<1>8. /\ Len(got) < Len(fed)
      /\ fed[Len(got) + 1] \in Frames
      /\ e[Len(got) + 2] = Position + Len(Bytes(fed[Len(got) + 1]))
      /\ \E q \in Seq(Byte) : After(all, Position) = Bytes(fed[Len(got) + 1]) \o q
  BY <1>3, <1>5, <1>7, AtFrame
<1>9. PICK f \in Frames : f = fed[Len(got) + 1]  BY <1>8
<1>10. PICK q \in Seq(Byte) : After(all, i) = Bytes(f) \o q  BY <1>5, <1>8, <1>9
<1>11. PICK t \in Seq(Byte) : all = s \o t  BY <1>5 DEF Sent
<1>12. x = Limited(f) /\ (x.type # "X" => j = i + Len(Bytes(f)))
  <2>1. After(s \o t, i) = Bytes(f) \o q  BY <1>10, <1>11, Zenon
  <2>2. i <= Len(s) /\ j <= Len(s)  BY <1>5
  <2>3. ItemAtFrame(s, i, j, x, t, f, q)  BY <1>6, <2>1, <2>2 DEF ItemAtFrame
  <2> QED  BY <2>3, ItemIsFrame
<1>13. x = Limited(fed[Len(got) + 1])  BY <1>9, <1>12
<1>14. x.type = "X" \/ Position' = e[Len(got) + 2]  BY <1>5, <1>8, <1>9, <1>12
<1> QED  BY <1>4, <1>8, <1>13, <1>14

LEMMA YieldOrder ==
    ASSUME OrderInv, Yield
    PROVE  Ordered'
<1>1. Base /\ Ended  BY DEF OrderInv, CutInv
<1>2. PICK all \in Seq(Byte), e \in Seq(Nat) :
        Written(all, e) /\ Sent(all) /\ Matched(e) /\ Begun(e)
  BY DEF OrderInv, Ordered
<1>3. /\ rEnd = "reading" /\ stream' = stream /\ wEnd' = wEnd /\ wbuf' = wbuf /\ fed' = fed
      /\ begins' = begins
  BY DEF Yield
<1>4. PICK x \in Item :
        /\ Len(got) < Len(fed) /\ Returns(x) /\ x = Limited(fed[Len(got) + 1])
        /\ x.type = "X" \/ Position' = e[Len(got) + 2]
  BY <1>1, <1>2, YieldFrame
<1>5. \A k \in 1..Len(got) : ~(got[k] = Bad("Io") /\ k = Len(got) /\ wEnd = "closed")
  BY <1>1, <1>3, NoneTorn
<1> QED  BY <1>1, <1>2, <1>3, <1>4, <1>5, ReturnOrder

LEMMA EofOrder ==
    ASSUME OrderInv, ReadEof
    PROVE  Ordered'
<1>1. Base /\ Base' /\ Ended /\ Ordered  BY EofBase DEF OrderInv, CutInv
<1>2. /\ Position' = Position /\ wEnd = "closed" /\ rbuf = After(stream, Position)
      /\ stream' = stream
      /\ \/ rbuf = <<>> /\ rEnd' = "ended" /\ got' = got
         \/ rbuf # <<>> /\ Returns(Bad("Io")) /\ Bad("Io") \in Item
  BY <1>1, EofBase
<1>3. /\ rEnd = "reading" /\ fed' = fed /\ begins' = begins
      /\ wEnd' = wEnd /\ wbuf' = wbuf
  BY DEF ReadEof
<1>4. CASE rbuf = <<>> /\ rEnd' = "ended" /\ got' = got
  <2>1. rEnd' = "reading" => rEnd = "reading"  BY <1>3
  <2>2. wEnd' = "closed" \/ (wEnd' = wEnd /\ wbuf' = wbuf)  BY <1>3
  <2> QED  BY <1>1, <1>2, <1>3, <1>4, <2>1, <2>2, StillOrder
<1>5. CASE rbuf # <<>> /\ Returns(Bad("Io")) /\ Bad("Io") \in Item
  <2>1. PICK all \in Seq(Byte), e \in Seq(Nat) :
        Written(all, e) /\ Sent(all) /\ Matched(e) /\ Begun(e)
    BY <1>1 DEF Ordered
  <2>2. PICK s \in Seq(Byte), r \in Seq(Byte), i \in Nat :
          s = stream /\ r = rbuf /\ i = Position /\ i <= Len(s)
    BY <1>1 DEF Base, Typed, Aligned
  <2>3. i < Len(s)
    <3>1. <<>> \in Seq(Byte)  OBVIOUS
    <3>2. Len(r) = Len(s) - i  BY <1>2, <2>2, <3>1, AfterConcat
    <3>3. Len(r) \in Nat \ {0} /\ Len(s) \in Nat  BY <1>5, <2>2, EmptySeq
    <3> QED  BY <2>2, <3>2, <3>3
  <2>4. Len(got) < Len(fed)  BY <1>1, <1>3, <2>1, <2>2, <2>3, AtFrame
  <2>5. PICK x \in Item : x = Bad("Io")  BY <1>5
  <2>6. Returns(x) /\ x.type = "X"
    <3>1. Returns(x)  BY <1>5, <2>5, Zenon
    <3>2. x.type = "X"  BY <2>5 DEF Bad
    <3> QED  BY <3>1, <3>2
  <2>7. \A k \in 1..Len(got) : ~(got[k] = Bad("Io") /\ k = Len(got) /\ wEnd = "closed")
    BY <1>1, <1>3, NoneTorn
  <2> QED  BY <1>1, <1>2, <1>3, <2>1, <2>4, <2>5, <2>6, <2>7, ReturnOrder
<1> QED  BY <1>2, <1>4, <1>5

LEMMA NextOrder == OrderInv /\ [Next]_vars => OrderInv'
<1> SUFFICES ASSUME OrderInv, [Next]_vars PROVE Ordered'
  BY NextCut DEF OrderInv
<1>1. CutInv /\ Ordered /\ Base  BY DEF OrderInv, CutInv
<1>2. CASE \E f \in Frames : Feed(f)  BY <1>2, FeedOrder
<1>3. CASE CloseWriter
  <2>1. Position' = Position  BY <1>1, <1>3, CloseBase
  <2> QED  BY <1>1, <1>3, <2>1, StillOrder DEF CloseWriter
<1>4. CASE \E n \in 1..Len(wbuf) : WriteOut(n)  BY <1>4, WriteOutOrder
<1>5. CASE Yield  BY <1>5, YieldOrder
<1>6. CASE ReadEof  BY <1>6, EofOrder
<1>7. ASSUME NEW n \in 1..Len(wire), Read(n)  PROVE Ordered'
  <2>1. Position' = Position  BY <1>1, <1>7, ReadBase
  <2> QED  BY <1>1, <1>7, <2>1, StillOrder DEF Read
<1>8. CASE UNCHANGED vars
  <2>1. Position' = Position  BY <1>1, <1>8, SameBase
  <2> QED  BY <1>1, <1>8, <2>1, StillOrder DEF vars
<1> QED  BY <1>2, <1>3, <1>4, <1>5, <1>6, <1>7, <1>8 DEF Next, Runtime, Over

LEMMA OrderIs == OrderInv => FramesArriveInOrder
<1> SUFFICES ASSUME OrderInv PROVE FramesArriveInOrder  OBVIOUS
<1>1. Base  BY DEF OrderInv, CutInv
<1>2. PICK all \in Seq(Byte), e \in Seq(Nat) :
        Written(all, e) /\ Sent(all) /\ Matched(e) /\ Begun(e)
  BY DEF OrderInv, Ordered
<1>3. DOMAIN got = 1..Len(got) /\ DOMAIN fed = 1..Len(fed) /\ Len(got) \in Nat /\ Len(fed) \in Nat
  BY <1>1 DEF Base, Typed
<1>4. ASSUME NEW k \in DOMAIN got
      PROVE  /\ k \in DOMAIN fed
             /\ \/ got[k] = Limited(fed[k])
                \/ got[k] = Bad("Io") /\ k = Len(got) /\ wEnd = "closed"
  <2>1. k \in 1..Len(got) /\ Len(got) <= Len(fed)  BY <1>2, <1>3 DEF Matched
  <2>2. k \in DOMAIN fed  BY <1>3, <2>1
  <2> QED  BY <1>2, <2>1, <2>2 DEF Matched
<1>5. ASSUME rEnd = "reading", Decode.item = <<>>, wEnd = "open", wire = <<>>, wbuf = <<>>
      PROVE  Len(got) = Len(fed)
  <2>1. Len(got) <= Len(fed)  BY <1>2 DEF Matched
  <2>2. ~(Len(got) < Len(fed))
    <3>1. SUFFICES ASSUME Len(got) < Len(fed) PROVE FALSE  OBVIOUS
    <3>2. fed[Len(got) + 1] \in Frames
          /\ \E q \in Seq(Byte) : After(all, Position) = Bytes(fed[Len(got) + 1]) \o q
      BY <1>1, <1>2, <1>5, <3>1, AtFrame
    <3>3. PICK f \in Frames, q \in Seq(Byte) : After(all, Position) = Bytes(f) \o q  BY <3>2
    <3>4. all = stream
      <4>1. all = stream \o wbuf /\ stream \in Seq(Byte)  BY <1>1, <1>2, <1>5 DEF Sent, Base, Typed
      <4> QED  BY <1>5, <4>1, ConcatEmptySeq
    <3>5. rbuf = After(stream, Position)
      <4>1. rbuf \in Seq(Byte) /\ rbuf \o wire = After(stream, Position)
        BY <1>1 DEF Base, Typed, Aligned
      <4>2. rbuf \o wire = rbuf  BY <1>5, <4>1, ConcatEmptySeq
      <4> QED  BY <4>1, <4>2, Zenon
    <3>6. rbuf = Bytes(f) \o q  BY <3>3, <3>4, <3>5, Zenon
    <3>7. DecodeWithLimit(Bytes(f) \o q, max_frame_size).item = <<Limited(f)>>  BY FrameDecodes
    <3> QED  BY <1>5, <3>6, <3>7, NotEmpty, Zenon DEF Decode
  <2>3. PICK g \in Nat, n \in Nat : g = Len(got) /\ n = Len(fed)  BY <1>3
  <2>4. g = n  BY <2>1, <2>2, <2>3
  <2> QED  BY <2>3, <2>4
<1> QED  BY <1>4, <1>5 DEF FramesArriveInOrder

(* What one side writes is what the other side reads: each frame, or the   *)
(* error its size or its bytes deserve, in order and once, for every set   *)
(* of frames, every limit, and every interleaving of writes and reads;     *)
(* only a writer that is gone can leave a torn frame.                      *)
THEOREM FramesInOrder == Spec => []FramesArriveInOrder
<1>1. Init => OrderInv  BY InitOrder
<1>2. OrderInv /\ [Next]_vars => OrderInv'  BY NextOrder
<1>3. OrderInv => FramesArriveInOrder  BY OrderIs
<1> QED  BY <1>1, <1>2, <1>3, PTL DEF Spec

-----------------------------------------------------------------------------
(* The refinement: how many frames have crossed, and what every step is to *)
(* the pipe.                                                               *)

(* The order on naturals as a relation, for the library's WFMin.           *)
Smaller == {pair \in Nat \X Nat : pair[1] < pair[2]}

LEMMA LeastNatural ==
    ASSUME NEW S \in SUBSET Nat, S # {}
    PROVE  \E m \in S : \A k \in S : m <= k
<1>1. OpToRel(<, Nat) = Smaller  BY DEF OpToRel, Smaller
<1>2. PICK m \in S : \A k \in S : ~(<<k, m>> \in OpToRel(<, Nat))
  BY WFMin, NatLessThanWellFounded
<1>3. ASSUME NEW k \in S  PROVE m <= k
  <2>1. <<k, m>> \in Nat \X Nat /\ ~(<<k, m>> \in Smaller)  BY <1>1, <1>2
  <2>2. ~(k < m)  BY <2>1 DEF Smaller
  <2> QED  BY <2>2
<1> QED  BY <1>3

(* A set of positions that holds, with a position, the one before it is    *)
(* the set of the first c of them.                                         *)
LEMMA FirstOnes ==
    ASSUME NEW n \in Nat, NEW S \in SUBSET (1..n),
           \A k \in 1..n : k + 1 \in S => k \in S
    PROVE  \E c \in 0..n : \A k \in 1..n : k \in S <=> k <= c
<1> DEFINE Out == {k \in 1..(n + 1) : k \notin S}
<1>1. Out \in SUBSET Nat /\ n + 1 \in Out  OBVIOUS
<1>2. PICK m \in Out : \A k \in Out : m <= k  BY <1>1, LeastNatural, Zenon
<1>3. m \in 1..(n + 1) /\ m \notin S /\ \A k \in 1..(n + 1) : k \notin S => m <= k  BY <1>2
<1>4. \A k \in 1..n : k \in S => k < m
  <2> DEFINE Above == {k \in 1..n : k \in S /\ m < k}
  <2>1. SUFFICES ASSUME Above # {}  PROVE FALSE  BY <1>3
  <2>2. Above \in SUBSET Nat  OBVIOUS
  <2>3. PICK k \in Above : \A j \in Above : k <= j  BY <2>1, <2>2, LeastNatural, Zenon
  <2>4. k \in 1..n /\ k \in S /\ m < k  BY <2>3
  <2>5. PICK j \in 1..n : j + 1 = k /\ m <= j /\ j < k  BY <1>3, <2>4
  <2>6. j \in S  BY <2>4, <2>5
  <2>7. m < j  BY <1>3, <2>5, <2>6
  <2> QED  BY <2>3, <2>5, <2>6, <2>7
<1>5. PICK c \in 0..n : m = c + 1  BY <1>3
<1>6. ASSUME NEW k \in 1..n  PROVE k \in S <=> k <= c  BY <1>3, <1>4, <1>5
<1> QED  BY <1>6

(* The frames after the a-th up to the b-th.                               *)
Slice(s, a, b) == SubSeq(s, a + 1, b)

LEMMA SliceType ==
    ASSUME NEW S, NEW s \in Seq(S), NEW a \in Nat, NEW b \in Nat, a <= b, b <= Len(s)
    PROVE  /\ Slice(s, a, b) \in Seq(S) /\ Len(Slice(s, a, b)) = b - a
           /\ \A i \in 1..(b - a) : Slice(s, a, b)[i] = s[a + i]
<1>1. a + 1 \in Int /\ b \in Int /\ b - (a + 1) + 1 = b - a /\ Len(s) \in Nat  OBVIOUS
<1>2. \A i \in (a + 1)..b : s[i] \in S
  <2>1. \A i \in (a + 1)..b : i \in 1..Len(s)  BY <1>1
  <2> QED  BY <2>1, ElementOfSeq
<1>3. PICK u : u = SubSeq(s, a + 1, b)  OBVIOUS
<1>4. /\ u \in Seq(S) /\ Len(u) = IF a + 1 <= b THEN b - (a + 1) + 1 ELSE 0
      /\ \A i \in 1..(b - (a + 1) + 1) : u[i] = s[(a + 1) + i - 1]
  BY <1>1, <1>2, <1>3, SubSeqProperties
<1>5. Len(u) = b - a  BY <1>4
<1>6. ASSUME NEW i \in 1..(b - a)  PROVE u[i] = s[a + i]
  <2>1. (a + 1) + i - 1 = a + i /\ i \in 1..(b - (a + 1) + 1)  BY <1>1
  <2> QED  BY <1>4, <2>1
<1> QED  BY <1>3, <1>4, <1>5, <1>6 DEF Slice

LEMMA SliceEmpty == \A s : \A a \in Nat : Slice(s, a, a) = <<>>
<1> SUFFICES ASSUME NEW s, NEW a \in Nat PROVE Slice(s, a, a) = <<>>  OBVIOUS
<1>1. a + 1 \in Int /\ a \in Int /\ a < a + 1  OBVIOUS
<1> QED  BY <1>1, SubSeqEmpty DEF Slice

(* One frame more at the end of the sequence.                              *)
LEMMA SliceAppend ==
    ASSUME NEW S, NEW s \in Seq(S), NEW x \in S, NEW a \in Nat, NEW b \in Nat, a <= b, b <= Len(s)
    PROVE  /\ Slice(Append(s, x), a, b) = Slice(s, a, b)
           /\ Slice(Append(s, x), b, Len(s) + 1) = Append(Slice(s, b, Len(s)), x)
<1>0. Append(s, x) \in Seq(S) /\ Len(s) \in Nat  BY AppendProperties
<1>1. PICK n \in Nat, u \in Seq(S) : n = Len(s) /\ u = Append(s, x)  BY <1>0, Zenon
<1>2. Len(u) = n + 1 /\ u[n + 1] = x /\ \A i \in 1..n : u[i] = s[i]  BY <1>1, AppendProperties
<1>3. Slice(u, a, b) = Slice(s, a, b)
  <2>1. b <= Len(u)  BY <1>1, <1>2
  <2>2. /\ Slice(u, a, b) \in Seq(S) /\ Len(Slice(u, a, b)) = b - a
        /\ \A i \in 1..(b - a) : Slice(u, a, b)[i] = u[a + i]
    BY <2>1, SliceType
  <2>3. /\ Slice(s, a, b) \in Seq(S) /\ Len(Slice(s, a, b)) = b - a
        /\ \A i \in 1..(b - a) : Slice(s, a, b)[i] = s[a + i]
    BY SliceType
  <2>4. ASSUME NEW i \in 1..(b - a)  PROVE Slice(u, a, b)[i] = Slice(s, a, b)[i]
    <3>1. a + i \in 1..n  BY <1>1
    <3>2. u[a + i] = s[a + i]  BY <1>2, <3>1
    <3> QED  BY <2>2, <2>3, <3>2
  <2> QED  BY <2>2, <2>3, <2>4, SeqEqual
<1>4. Slice(u, b, n + 1) = Append(Slice(s, b, n), x)
  <2>1. n + 1 \in Nat /\ b <= n + 1 /\ n + 1 <= Len(u) /\ b <= n /\ n <= Len(s)  BY <1>1, <1>2
  <2>0. PICK m \in Nat : m = n + 1 /\ b <= m /\ m <= Len(u)  BY <2>1
  <2>2. PICK p \in Seq(S) : p = Slice(u, b, n + 1) /\ Len(p) = n + 1 - b
                            /\ \A i \in 1..(n + 1 - b) : p[i] = u[b + i]
    <3>1. /\ Slice(u, b, m) \in Seq(S) /\ Len(Slice(u, b, m)) = m - b
          /\ \A i \in 1..(m - b) : Slice(u, b, m)[i] = u[b + i]
      BY <2>0, SliceType
    <3>2. PICK p \in Seq(S) : p = Slice(u, b, m)  BY <3>1, Zenon
    <3>3. Len(p) = m - b /\ \A i \in 1..(m - b) : p[i] = u[b + i]  BY <3>1, <3>2, Zenon
    <3> QED  BY <2>0, <3>2, <3>3
  <2>3. PICK r \in Seq(S) : r = Slice(s, b, n) /\ Len(r) = n - b
                            /\ \A i \in 1..(n - b) : r[i] = s[b + i]
    BY <2>1, SliceType
  <2>4. PICK q \in Seq(S) : q = Append(r, x) /\ Len(q) = Len(r) + 1 /\ q[Len(r) + 1] = x
                            /\ \A i \in 1..Len(r) : q[i] = r[i]
    <3>1. /\ Append(r, x) \in Seq(S) /\ Len(Append(r, x)) = Len(r) + 1
          /\ Append(r, x)[Len(r) + 1] = x /\ \A i \in 1..Len(r) : Append(r, x)[i] = r[i]
      BY AppendProperties
    <3> QED  BY <3>1, Zenon
  <2>5. Len(p) = Len(q)  BY <2>1, <2>2, <2>3, <2>4
  <2>6. ASSUME NEW i \in 1..Len(p)  PROVE p[i] = q[i]
    <3>1. CASE i \in 1..(n - b)
      <4>1. b + i \in 1..n /\ i \in 1..(n + 1 - b)  BY <2>1, <3>1
      <4>2. p[i] = s[b + i]  BY <1>2, <2>2, <4>1
      <4>3. q[i] = s[b + i]  BY <2>3, <2>4, <3>1
      <4> QED  BY <4>2, <4>3
    <3>2. CASE i = n - b + 1
      <4>1. b + i = n + 1 /\ i \in 1..(n + 1 - b) /\ i = Len(r) + 1  BY <2>1, <2>3, <3>2
      <4> QED  BY <1>2, <2>2, <2>4, <4>1
    <3>3. i \in 1..(n - b) \/ i = n - b + 1  BY <2>1, <2>2
    <3> QED  BY <3>1, <3>2, <3>3
  <2>7. p = q  BY <2>5, <2>6, SeqEqual
  <2> QED  BY <2>2, <2>3, <2>4, <2>7, Zenon
<1> QED  BY <1>1, <1>3, <1>4, Zenon

(* Frames move from the buffer to the pipe.                                *)
LEMMA SliceMoves ==
    ASSUME NEW S, NEW s \in Seq(S), NEW a \in Nat, NEW b \in Nat, NEW c \in Nat,
           a <= b, b < c, c <= Len(s)
    PROVE  /\ c - b \in 1..Len(Slice(s, b, Len(s)))
           /\ Slice(s, a, b) \o SubSeq(Slice(s, b, Len(s)), 1, c - b) = Slice(s, a, c)
           /\ SubSeq(Slice(s, b, Len(s)), (c - b) + 1, Len(Slice(s, b, Len(s)))) = Slice(s, c, Len(s))
<1>1. PICK n \in Nat : n = Len(s) /\ b <= n /\ n <= Len(s)  OBVIOUS
<1>2. PICK u \in Seq(S) : u = Slice(s, b, n) /\ Len(u) = n - b
  <2>1. b <= Len(s)  BY <1>1
  <2>2. Slice(s, b, Len(s)) \in Seq(S) /\ Len(Slice(s, b, Len(s))) = Len(s) - b
    BY <2>1, Suffix, Zenon DEF Slice
  <2> QED  BY <1>1, <2>2, Zenon
<1>3. SubSeq(u, 1, c - b) = SubSeq(s, b + 1, c)
  <2>1. /\ b + 1 \in 1..Len(s) /\ n \in 1..Len(s) /\ 1 \in 1..(n - (b + 1) + 1)
        /\ c - b \in 1..(n - (b + 1) + 1)
    BY <1>1
  <2>2. SubSeq(SubSeq(s, b + 1, n), 1, c - b) = SubSeq(s, (b + 1) + 1 - 1, (b + 1) + (c - b) - 1)
    BY <2>1, SubSeqOfSubSeq
  <2>3. (b + 1) + 1 - 1 = b + 1 /\ (b + 1) + (c - b) - 1 = c  OBVIOUS
  <2> QED  BY <1>2, <2>2, <2>3 DEF Slice
<1>4. SubSeq(s, a + 1, b) \o SubSeq(s, b + 1, c) = SubSeq(s, a + 1, c)
  <2>1. a + 1 \in 1..(Len(s) + 1) /\ b \in ((a + 1) - 1)..Len(s) /\ c \in b..Len(s)  BY <1>1
  <2> QED  BY <2>1, ConcatAdjacentSubSeq
<1>5. SubSeq(u, (c - b) + 1, n - b) = SubSeq(s, c + 1, n)
  <2>1. CASE c = n
    <3>1. /\ (c - b) + 1 \in Int /\ n - b \in Int /\ n - b < (c - b) + 1
          /\ c + 1 \in Int /\ n \in Int /\ n < c + 1
      BY <1>1, <2>1
    <3> QED  BY <3>1, SubSeqEmpty
  <2>2. CASE c < n
    <3>1. /\ b + 1 \in 1..Len(s) /\ n \in 1..Len(s) /\ (c - b) + 1 \in 1..(n - (b + 1) + 1)
          /\ n - b \in 1..(n - (b + 1) + 1)
      BY <1>1, <2>2
    <3>2. SubSeq(SubSeq(s, b + 1, n), (c - b) + 1, n - b) =
             SubSeq(s, (b + 1) + ((c - b) + 1) - 1, (b + 1) + (n - b) - 1)
      BY <3>1, SubSeqOfSubSeq
    <3>3. (b + 1) + ((c - b) + 1) - 1 = c + 1 /\ (b + 1) + (n - b) - 1 = n  OBVIOUS
    <3> QED  BY <1>2, <3>2, <3>3 DEF Slice
  <2> QED  BY <1>1, <2>1, <2>2
<1>6. c - b \in 1..(n - b)  BY <1>1
<1> QED  BY <1>1, <1>2, <1>3, <1>4, <1>5, <1>6, Zenon DEF Slice

(* The first of the frames that have crossed is taken.                     *)
Takable(S, s, a, b, t) ==
    s \in Seq(S) /\ t \in Seq(S) /\ a \in Nat /\ b \in Nat /\ a < b /\ b <= Len(s)

Taken(s, a, b, t) ==
    /\ Slice(s, a, b) \o t # <<>>
    /\ Head(Slice(s, a, b) \o t) = s[a + 1]
    /\ Tail(Slice(s, a, b) \o t) = Slice(s, a + 1, b) \o t

LEMMA SliceTaken ==
    ASSUME NEW S, NEW s, NEW a, NEW b, NEW t, Takable(S, s, a, b, t)
    PROVE  Taken(s, a, b, t)
<1>0. s \in Seq(S) /\ t \in Seq(S) /\ a \in Nat /\ b \in Nat /\ a < b /\ b <= Len(s)
  BY DEF Takable
<1>1. a + 1 \in 1..Len(s) /\ b \in (a + 1)..Len(s) /\ a + 1 \in Nat /\ a + 1 <= b /\ a <= b
  BY <1>0
<1>2. SubSeq(s, a + 1, b) = <<s[a + 1]>> \o SubSeq(s, (a + 1) + 1, b)  BY <1>0, <1>1, SubSeqRecursiveFirst
<1>3. PICK x \in S : x = s[a + 1]  BY <1>0, <1>1, ElementOfSeq
<1>4. PICK i \in Nat : i = a + 1 /\ i <= b  BY <1>1
<1>5. PICK u \in Seq(S) : u = Slice(s, i, b)
  <2>1. Slice(s, i, b) \in Seq(S)  BY <1>0, <1>4, SliceType
  <2> QED  BY <2>1, Zenon
<1>6. Slice(s, a, b) = <<x>> \o u  BY <1>2, <1>3, <1>4, <1>5, Zenon DEF Slice
<1>7. PICK v \in Seq(S) : v = u \o t  BY <1>0, InFront
<1>8. PICK h \in Seq(S) : h = <<x>>
  <2>1. <<x>> \in Seq(S)  OBVIOUS
  <2> QED  BY <2>1, Zenon
<1>9. (h \o u) \o t = h \o v
  <2>1. (h \o u) \o t = h \o (u \o t)  BY <1>0, ConcatAssociative, SMTT(30)
  <2> QED  BY <1>7, <2>1, Zenon
<1>10. PICK w \in Seq(S) : w = h \o v  BY InFront
<1>11. Len(h) = 1 /\ h[1] = x  BY <1>8
<1>12. Len(w) = 1 + Len(v) /\ w[1] = x /\ \A j \in 1..Len(v) : w[1 + j] = v[j]
  <2>1. Len(w) = Len(h) + Len(v) /\ (\A j \in 1..Len(h) : w[j] = h[j])
        /\ \A j \in 1..Len(v) : w[Len(h) + j] = v[j]
    BY <1>10, InFront
  <2> QED  BY <1>11, <2>1
<1>13. Len(v) \in Nat /\ w # <<>>
  <2>1. Len(v) \in Nat /\ Len(<<>>) = 0  OBVIOUS
  <2> QED  BY <1>12, <2>1
<1>14. Head(w) = x  BY <1>12, <1>13
<1>15. Tail(w) = v
  <2>1. /\ Tail(w) \in Seq(S) /\ Len(Tail(w)) = Len(w) - 1
        /\ \A j \in 1..Len(Tail(w)) : Tail(w)[j] = w[j + 1]
    BY <1>13, HeadTailProperties
  <2>2. Len(Tail(w)) = Len(v)  BY <1>12, <1>13, <2>1
  <2>3. ASSUME NEW j \in 1..Len(Tail(w))  PROVE Tail(w)[j] = v[j]
    <3>1. j \in 1..Len(v) /\ j + 1 = 1 + j  BY <2>2
    <3> QED  BY <1>12, <2>1, <3>1
  <2> QED  BY <2>1, <2>2, <2>3, SeqEqual
<1>16. Slice(s, a, b) \o t = w  BY <1>6, <1>8, <1>9, <1>10, Zenon
<1> QED  BY <1>3, <1>4, <1>5, <1>7, <1>13, <1>14, <1>15, <1>16, Zenon DEF Taken

(* A sequence that is long enough holds all of what it begins with.        *)
BothBegin(a, t, b, q) ==
    /\ a \in Seq(Byte) /\ t \in Seq(Byte) /\ b \in Seq(Byte) /\ q \in Seq(Byte)
    /\ a \o t = b \o q /\ Len(b) <= Len(a)

LEMMA Within ==
    ASSUME NEW a, NEW t, NEW b, NEW q, BothBegin(a, t, b, q)
    PROVE  After(a, Len(b)) \in Seq(Byte) /\ a = b \o After(a, Len(b))
<1>0. /\ a \in Seq(Byte) /\ t \in Seq(Byte) /\ b \in Seq(Byte) /\ q \in Seq(Byte)
      /\ a \o t = b \o q /\ Len(b) <= Len(a)
  BY DEF BothBegin
<1>1. CASE Len(b) = 0
  <2>1. b = <<>>  BY <1>0, <1>1, EmptySeq
  <2>2. b \o a = a  BY <1>0, <2>1, ConcatEmptySeq
  <2>3. After(a, Len(b)) = a
    <3>1. 0 + 1 = 1  OBVIOUS
    <3>2. SubSeq(a, 1, Len(a)) = a  BY <1>0, SubSeqFull
    <3> QED  BY <1>1, <3>1, <3>2 DEF After
  <2> QED  BY <1>0, <2>2, <2>3, Zenon
<1>2. CASE Len(b) # 0
  <2>1. PICK n \in 1..Len(a) : n = Len(b)  BY <1>0, <1>2
  <2>2. PICK u \in Seq(Byte), r \in Seq(Byte) :
          u \o r = a /\ Len(u) = n /\ r = After(a, n)
    <3>1. /\ SubSeq(a, 1, n) \in Seq(Byte) /\ Len(SubSeq(a, 1, n)) = n
          /\ After(a, n) \in Seq(Byte) /\ SubSeq(a, 1, n) \o After(a, n) = a
      BY <1>0, Cut
    <3> QED  BY <3>1, Zenon
  <2>3. ASSUME NEW i \in 1..n  PROVE u[i] = b[i]
    <3>1. i \in 1..Len(u) /\ i \in 1..Len(a) /\ i \in 1..Len(b)  BY <1>0, <2>1, <2>2
    <3>2. (u \o r)[i] = u[i] /\ (a \o t)[i] = a[i] /\ (b \o q)[i] = b[i]  BY <1>0, <3>1, InFront
    <3> QED  BY <1>0, <2>2, <3>2
  <2>4. u = b  BY <1>0, <2>1, <2>2, <2>3, SeqEqual
  <2> QED  BY <2>1, <2>2, <2>4, Zenon
<1> QED  BY <1>1, <1>2

(* Nothing can be decoded behind the end of the stream.                    *)
LEMMA NothingThere ==
    ASSUME NEW s \in Seq(Byte), NEW i \in Nat, Len(s) <= i
    PROVE  DecodeWithLimit(After(s, i), max_frame_size).item = <<>>
<1>1. After(s, i) = <<>>
  <2>1. i + 1 \in Int /\ Len(s) \in Int /\ Len(s) < i + 1  OBVIOUS
  <2> QED  BY <2>1, SubSeqEmpty DEF After
<1>2. DecodeWithLimit(<<>>, max_frame_size) = Pending(<<>>)
  <2>1. Len(<<>>) < 2  OBVIOUS
  <2> QED  BY <2>1, DecodeIs, Zenon
<1>3. Pending(<<>>).item = <<>>  BY DEF Pending
<1> QED  BY <1>1, <1>2, <1>3, Zenon

(* A frame whose bytes are all in the stream has crossed.                  *)
LEMMA WholeDecodes ==
    ASSUME Base, NEW all \in Seq(Byte), NEW e \in Seq(Nat), Written(all, e), Sent(all),
           NEW k \in 1..Len(fed), e[k] + Len(Bytes(fed[k])) <= Len(stream)
    PROVE  DecodeWithLimit(After(stream, e[k]), max_frame_size).item # <<>>
<1>1. PICK s \in Seq(Byte) : s = stream /\ fed \in Seq(Frames)  BY DEF Base, Typed
<1>2. PICK t \in Seq(Byte) : all = s \o t  BY <1>1 DEF Sent
<1>3. PICK f \in Frames : f = fed[k]  BY <1>1
<1>4. PICK i \in Nat : i = e[k]
  <2>1. Len(e) = Len(fed) + 1  BY DEF Written
  <2>2. k \in 1..Len(e)  BY <1>1, <2>1
  <2> QED  BY <2>2
<1>5. PICK b \in Seq(Byte) : b = Bytes(f)  BY FrameDecodes, EmptySeq
<1>6. PICK q \in Seq(Byte) : After(s \o t, i) = b \o q  BY <1>2, <1>3, <1>4, <1>5 DEF Written
<1>7. i + Len(b) <= Len(s) /\ Len(b) \in Nat /\ Len(s) \in Nat  BY <1>1, <1>3, <1>4, <1>5
<1>8. i <= Len(s)  BY <1>7
<1>9. PICK a \in Seq(Byte) : a = After(s, i) /\ Len(a) = Len(s) - i /\ After(s \o t, i) = a \o t
  <2>1. /\ After(s, i) \in Seq(Byte) /\ Len(After(s, i)) = Len(s) - i
        /\ After(s \o t, i) = After(s, i) \o t
    BY <1>8, AfterConcat
  <2> QED  BY <2>1, Zenon
<1>10. a \o t = b \o q  BY <1>6, <1>9, Zenon
<1>11. Len(b) <= Len(a)  BY <1>7, <1>9
<1>12. PICK r \in Seq(Byte) : a = b \o r
  <2>1. BothBegin(a, t, b, q)  BY <1>10, <1>11 DEF BothBegin
  <2>2. After(a, Len(b)) \in Seq(Byte) /\ a = b \o After(a, Len(b))  BY <2>1, Within, Zenon
  <2> QED  BY <2>2, Zenon
<1>13. DecodeWithLimit(b \o r, max_frame_size).item = <<Limited(f)>>  BY <1>5, FrameDecodes
<1>14. DecodeWithLimit(a, max_frame_size).item # <<>>  BY <1>12, <1>13
<1> QED  BY <1>1, <1>4, <1>9, <1>14, Zenon

(* The position of a frame, and what has crossed by it.                    *)
LEMMA BeginsAt ==
    ASSUME OrderInv, NEW k \in 1..Len(fed)
    PROVE  /\ begins[k] \in Nat
           /\ HasCrossed(k) <=>
                /\ DecodeWithLimit(After(stream, begins[k]), max_frame_size).item # <<>>
                /\ \A j \in 1..(k - 1) : Limited(fed[j]).type # "X"
           /\ HasCrossed(k) => begins[k] < Len(stream)
<1>1. begins \in Seq(Nat) /\ Len(begins) = Len(fed) /\ stream \in Seq(Byte)
  BY DEF OrderInv, Ordered, Begun, CutInv, Base, Typed
<1>2. PICK i \in Nat : i = begins[k]  BY <1>1
<1>3. HasCrossed(k) <=>
         /\ DecodeWithLimit(After(stream, i), max_frame_size).item # <<>>
         /\ \A j \in 1..(k - 1) : Limited(fed[j]).type # "X"
  BY <1>2, Zenon DEF HasCrossed, DecodeAt, From, After
<1>4. HasCrossed(k) => i < Len(stream)
  <2>1. Len(stream) <= i => DecodeWithLimit(After(stream, i), max_frame_size).item = <<>>
    BY <1>1, NothingThere
  <2>2. Len(stream) \in Nat  BY <1>1
  <2> QED  BY <1>3, <2>1, <2>2
<1> QED  BY <1>2, <1>3, <1>4, Zenon

(* Frames cross in order.                                                  *)
LEMMA CrossedBefore ==
    ASSUME OrderInv, NEW k \in 1..Len(fed), k + 1 \in 1..Len(fed), HasCrossed(k + 1)
    PROVE  HasCrossed(k)
<1>1. Base  BY DEF OrderInv, CutInv
<1>2. PICK all \in Seq(Byte), e \in Seq(Nat) :
        Written(all, e) /\ Sent(all) /\ Matched(e) /\ Begun(e)
  BY DEF OrderInv, Ordered
<1>3. PICK m \in 1..Len(fed) : m = k + 1 /\ HasCrossed(m)  OBVIOUS
<1>4. begins[m] < Len(stream) /\ \A j \in 1..(m - 1) : Limited(fed[j]).type # "X"
  BY <1>3, BeginsAt
<1>5. begins[m] = e[m] /\ begins[k] = e[k]  BY <1>2 DEF Begun
<1>6. e[k] + Len(Bytes(fed[k])) <= Len(stream)
  <2>1. e[k + 1] = e[k] + Len(Bytes(fed[k]))  BY <1>2 DEF Written
  <2>2. begins[m] \in Nat /\ Len(stream) \in Nat  BY <1>1, BeginsAt DEF Base, Typed
  <2>3. begins[m] = e[k] + Len(Bytes(fed[k]))  BY <1>3, <1>5, <2>1, Zenon
  <2>4. begins[m] <= Len(stream)  BY <1>4, <2>2
  <2> QED  BY <2>3, <2>4, Zenon
<1>7. DecodeWithLimit(After(stream, e[k]), max_frame_size).item # <<>>
  BY <1>1, <1>2, <1>6, WholeDecodes
<1>8. \A j \in 1..(k - 1) : Limited(fed[j]).type # "X"
  <2>1. \A j \in 1..(k - 1) : j \in 1..(m - 1)  BY <1>3
  <2> QED  BY <1>4, <2>1, Zenon
<1> QED  BY <1>5, <1>7, <1>8, BeginsAt, Zenon

(* So what has crossed are the first Crossed of them.                      *)
LEMMA CrossedIs ==
    OrderInv => /\ Len(fed) \in Nat /\ Crossed \in 0..Len(fed)
                /\ \A k \in 1..Len(fed) : HasCrossed(k) <=> k <= Crossed
<1> SUFFICES ASSUME OrderInv
             PROVE  /\ Len(fed) \in Nat /\ Crossed \in 0..Len(fed)
                    /\ \A k \in 1..Len(fed) : HasCrossed(k) <=> k <= Crossed
  OBVIOUS
<1>1. PICK n \in Nat : n = Len(fed) /\ DOMAIN fed = 1..n  BY DEF OrderInv, CutInv, Base, Typed
<1>2. PICK S \in SUBSET (1..n) : S = {k \in 1..n : HasCrossed(k)}  OBVIOUS
<1>3. ASSUME NEW k \in 1..n, k + 1 \in S  PROVE k \in S
  BY <1>1, <1>2, <1>3, CrossedBefore
<1>4. PICK c \in 0..n : \A k \in 1..n : k \in S <=> k <= c  BY <1>3, FirstOnes
<1>5. \A k \in 1..n : HasCrossed(k) <=> k <= c  BY <1>2, <1>4
<1>6. \E m \in 0..Len(fed) : \A k \in DOMAIN fed : HasCrossed(k) <=> k <= m  BY <1>1, <1>5, Zenon
<1>7. Crossed \in 0..Len(fed) /\ \A k \in DOMAIN fed : HasCrossed(k) <=> k <= Crossed
  BY <1>6, Zenon DEF Crossed
<1> QED  BY <1>1, <1>7, Zenon

LEMMA CrossedOnly ==
    OrderInv => \A c \in 0..Len(fed) :
                   (\A k \in 1..Len(fed) : HasCrossed(k) <=> k <= c) => Crossed = c
<1> SUFFICES ASSUME OrderInv, NEW c \in 0..Len(fed),
                    \A k \in 1..Len(fed) : HasCrossed(k) <=> k <= c
             PROVE  Crossed = c
  OBVIOUS
<1>1. PICK n \in Nat, d \in Nat : n = Len(fed) /\ d = Crossed /\ d <= n
  BY CrossedIs
<1>2. \A k \in 1..n : k <= d <=> k <= c  BY <1>1, CrossedIs
<1>3. c \in 0..n  BY <1>1
<1>4. c = d
  <2>1. c < d => FALSE
    <3>1. c < d => d \in 1..n /\ d <= d /\ ~(d <= c)  BY <1>1, <1>3
    <3> QED  BY <1>2, <3>1
  <2>2. d < c => FALSE
    <3>1. d < c => c \in 1..n /\ c <= c /\ ~(c <= d)  BY <1>3
    <3> QED  BY <1>2, <3>1
  <2> QED  BY <1>3, <2>1, <2>2
<1> QED  BY <1>1, <1>4

(* The inductive invariant, last part: what was returned had crossed.      *)
Arrived == \A k \in 1..Len(got) : HasCrossed(k) \/ (wEnd = "closed" /\ rEnd = "failed")

PipeInv == OrderInv /\ Arrived

(* What has crossed stays crossed, whatever is written behind it.          *)
LEMMA StaysCrossed ==
    ASSUME OrderInv, NEW k \in 1..Len(fed), HasCrossed(k), NEW t \in Seq(Byte),
           stream' = stream \o t, begins'[k] = begins[k],
           \A j \in 1..Len(fed) : fed'[j] = fed[j]
    PROVE  HasCrossed(k)'
<1>1. PICK s \in Seq(Byte), i \in Nat, n \in Nat :
        s = stream /\ i = begins[k] /\ i < Len(s) /\ n = Len(fed)
  BY BeginsAt DEF OrderInv, CutInv, Base, Typed
<1>2. /\ DecodeWithLimit(After(s, i), max_frame_size).item # <<>>
      /\ \A j \in 1..(k - 1) : Limited(fed[j]).type # "X"
  BY <1>1, BeginsAt, Zenon
<1>3. i <= Len(s)
  <2>1. Len(s) \in Nat  OBVIOUS
  <2> QED  BY <1>1, <2>1
<1>4. PICK a \in Seq(Byte) : a = After(s, i) /\ After(s \o t, i) = a \o t
  <2>1. After(s, i) \in Seq(Byte) /\ After(s \o t, i) = After(s, i) \o t  BY <1>3, AfterConcat
  <2> QED  BY <2>1, Zenon
<1>5. DecodeWithLimit(a, max_frame_size).item # <<>>  BY <1>2, <1>4, Zenon
<1>6. PICK x, m : Decides(a, x, m)  BY <1>5, Stable
<1>7. DecodeWithLimit(a \o t, max_frame_size) = Takes(x, m, a \o t)  BY <1>6 DEF Decides
<1>8. DecodeWithLimit(a \o t, max_frame_size).item # <<>>  BY <1>7 DEF Takes
<1>9. \A j \in 1..(k - 1) : Limited(fed'[j]).type # "X"
  <2>1. \A j \in 1..(k - 1) : j \in 1..Len(fed)  BY <1>1
  <2> QED  BY <1>2, <2>1, Zenon
<1>10. SubSeq(stream', begins'[k] + 1, Len(stream')) = a \o t  BY <1>1, <1>4, Zenon DEF After
<1> QED  BY <1>8, <1>9, <1>10, Zenon DEF HasCrossed, DecodeAt, From

(* Steps that write nothing.                                               *)
LEMMA SameCrossed ==
    ASSUME fed' = fed, begins' = begins, stream' = stream
    PROVE  /\ Crossed' = Crossed /\ (TornNext' <=> TornNext)
           /\ \A k : HasCrossed(k)' <=> HasCrossed(k)
<1>1. \A k : HasCrossed(k)' <=> HasCrossed(k)  BY Zenon DEF HasCrossed, DecodeAt, From
<1>2. Crossed' = Crossed  BY Zenon DEF Crossed, HasCrossed, DecodeAt, From
<1>3. TornNext' <=> TornNext  BY <1>2, Zenon DEF TornNext
<1> QED  BY <1>1, <1>2, <1>3, Zenon

(* A reader that reads has had only frames that crossed, none of them      *)
(* refused.                                                                *)
LEMMA ReadingPast ==
    ASSUME PipeInv, rEnd = "reading"
    PROVE  /\ Len(got) \in Nat /\ Len(got) <= Crossed /\ Crossed <= Len(fed)
           /\ \A k \in 1..Len(got) : Limited(fed[k]).type # "X"
<1>1. OrderInv /\ Arrived /\ Base /\ Ended  BY DEF PipeInv, OrderInv, CutInv
<1>2. PICK g \in Nat, n \in Nat, c \in Nat : g = Len(got) /\ n = Len(fed) /\ c = Crossed /\ c <= n
  BY <1>1, CrossedIs DEF Base, Typed
<1>3. g <= n  BY <1>1, <1>2 DEF OrderInv, Ordered, Matched
<1>4. CASE g = 0  BY <1>2, <1>4
<1>5. CASE g > 0
  <2>1. g \in 1..Len(got) /\ g \in 1..n  BY <1>2, <1>3, <1>5
  <2>2. HasCrossed(g)  BY <1>1, <2>1 DEF Arrived
  <2>3. g <= c  BY <1>1, <1>2, <2>1, <2>2, CrossedIs
  <2>4. got[g].type # "X"
    <3>1. ~Failed  BY <1>1 DEF Ended
    <3> QED  BY <1>2, <2>1, <3>1 DEF Failed
  <2>5. got[g] = Limited(fed[g])
    <3>1. \A k \in 1..Len(got) : ~(got[k] = Bad("Io") /\ k = Len(got) /\ wEnd = "closed")
      BY <1>1, NoneTorn
    <3> QED  BY <1>1, <2>1, <3>1 DEF OrderInv, Ordered, Matched
  <2>6. Limited(fed[g]).type # "X"  BY <2>4, <2>5, Zenon
  <2>7. \A j \in 1..(g - 1) : Limited(fed[j]).type # "X"  BY <1>1, <1>2, <2>1, <2>2, BeginsAt
  <2>8. ASSUME NEW k \in 1..g  PROVE Limited(fed[k]).type # "X"
    <3>1. k \in 1..(g - 1) \/ k = g  OBVIOUS
    <3> QED  BY <2>6, <2>7, <3>1, Zenon
  <2> QED  BY <1>2, <2>3, <2>8
<1> QED  BY <1>2, <1>4, <1>5

(* The frame that is returned next has crossed once it can be decoded.     *)
LEMMA NextCrosses ==
    ASSUME PipeInv, rEnd = "reading", Len(got) < Len(fed)
    PROVE  /\ Len(got) + 1 \in 1..Len(fed) /\ begins[Len(got) + 1] = Position
           /\ HasCrossed(Len(got) + 1) <=>
                DecodeWithLimit(After(stream, Position), max_frame_size).item # <<>>
<1>1. OrderInv /\ Base  BY DEF PipeInv, OrderInv, CutInv
<1>2. PICK g \in Nat, n \in Nat : g = Len(got) /\ n = Len(fed)  BY <1>1 DEF Base, Typed
<1>3. PICK k \in 1..n : k = g + 1 /\ k - 1 = g  BY <1>2
<1>4. begins[k] = Position
  <2>1. PICK all \in Seq(Byte), e \in Seq(Nat) :
          Written(all, e) /\ Sent(all) /\ Matched(e) /\ Begun(e)
    BY <1>1 DEF OrderInv, Ordered
  <2>2. Position = e[Len(got) + 1]  BY <2>1 DEF Matched
  <2>3. begins[k] = e[k]  BY <1>2, <2>1 DEF Begun
  <2> QED  BY <1>2, <1>3, <2>2, <2>3, Zenon
<1>5. \A j \in 1..(k - 1) : Limited(fed[j]).type # "X"
  <2>1. \A j \in 1..(k - 1) : j \in 1..Len(got)  BY <1>2, <1>3
  <2> QED  BY <2>1, ReadingPast, Zenon
<1>6. HasCrossed(k) <=>
         /\ DecodeWithLimit(After(stream, begins[k]), max_frame_size).item # <<>>
         /\ \A j \in 1..(k - 1) : Limited(fed[j]).type # "X"
  BY <1>1, <1>2, BeginsAt, Zenon
<1>7. HasCrossed(k) <=> DecodeWithLimit(After(stream, Position), max_frame_size).item # <<>>
  BY <1>4, <1>5, <1>6, Zenon
<1> QED  BY <1>2, <1>3, <1>4, <1>7, Zenon

LEMMA CrossedNext ==
    ASSUME OrderInv'
    PROVE  /\ Len(fed') \in Nat /\ Crossed' \in 0..Len(fed')
           /\ \A k \in 1..Len(fed') : HasCrossed(k)' <=> k <= Crossed'
           /\ \A c \in 0..Len(fed') :
                (\A k \in 1..Len(fed') : HasCrossed(k)' <=> k <= c) => Crossed' = c
<1>1. (/\ Len(fed) \in Nat /\ Crossed \in 0..Len(fed)
       /\ \A k \in 1..Len(fed) : HasCrossed(k) <=> k <= Crossed)'
  BY CrossedIs, PTL
<1>2. (\A c \in 0..Len(fed) :
         (\A k \in 1..Len(fed) : HasCrossed(k) <=> k <= c) => Crossed = c)'
  BY CrossedOnly, PTL
<1> QED  BY <1>1, <1>2, Zenon

(* A frame that is written to the buffer has not crossed.                  *)
LEMMA FeedCrossed ==
    ASSUME OrderInv, OrderInv', NEW f \in Frames, Feed(f)
    PROVE  Crossed' = Crossed
<1>1. Base  BY DEF OrderInv, CutInv
<1>2. PICK n \in Nat, c \in Nat : n = Len(fed) /\ c = Crossed /\ c <= n /\ fed \in Seq(Frames)
  BY <1>1, CrossedIs DEF Base, Typed
<1>3. Len(fed') = n + 1 /\ \A k \in 1..n : fed'[k] = fed[k]
  <2>1. fed' = Append(fed, f)  BY DEF Feed
  <2> QED  BY <1>2, <2>1, AppendProperties
<1>4. PICK d \in Seq(Nat) : d = begins /\ Len(d) = n
  BY <1>2 DEF OrderInv, Ordered, Begun
<1>5. PICK s \in Seq(Byte), m \in Nat : s = stream /\ m = Len(stream) + Len(wbuf) /\ Len(s) <= m
  <2>1. stream \in Seq(Byte) /\ Len(stream) \in Nat /\ Len(wbuf) \in Nat  BY <1>1 DEF Base, Typed
  <2>2. Len(stream) + Len(wbuf) \in Nat /\ Len(stream) <= Len(stream) + Len(wbuf)  BY <2>1
  <2> QED  BY <2>1, <2>2, Zenon
<1>6. stream' = s /\ begins' = Append(d, m)  BY <1>4, <1>5 DEF Feed
<1>7. begins'[n + 1] = m /\ \A k \in 1..n : begins'[k] = d[k]  BY <1>4, <1>6, AppendProperties
<1>8. ASSUME NEW k \in 1..n  PROVE HasCrossed(k)' <=> HasCrossed(k)
  <2>1. begins'[k] = begins[k]  BY <1>4, <1>7
  <2>2. \A j \in 1..(k - 1) : fed'[j] = fed[j]
    <3>1. \A j \in 1..(k - 1) : j \in 1..n  OBVIOUS
    <3> QED  BY <1>3, <3>1, Zenon
  <2>3. stream' = stream  BY DEF Feed
  <2> QED  BY <2>1, <2>2, <2>3, Zenon DEF HasCrossed, DecodeAt, From
<1>9. ~HasCrossed(n + 1)'
  <2>1. DecodeWithLimit(After(s, m), max_frame_size).item = <<>>  BY <1>5, NothingThere
  <2>2. SubSeq(stream', begins'[n + 1] + 1, Len(stream')) = After(s, m)
    BY <1>6, <1>7, Zenon DEF After
  <2> QED  BY <2>1, <2>2, Zenon DEF HasCrossed, DecodeAt, From
<1>10. ASSUME NEW k \in 1..(n + 1)  PROVE HasCrossed(k)' <=> k <= c
  <2>1. CASE k \in 1..n
    <3>1. HasCrossed(k) <=> k <= c  BY <1>2, <2>1, CrossedIs
    <3> QED  BY <1>8, <2>1, <3>1
  <2>2. CASE k = n + 1
    <3>1. ~(k <= c)  BY <1>2, <2>2
    <3> QED  BY <1>9, <2>2, <3>1, Zenon
  <2>3. k \in 1..n \/ k = n + 1  OBVIOUS
  <2> QED  BY <2>1, <2>2, <2>3
<1>11. c \in 0..(n + 1)  BY <1>2
<1> QED  BY <1>2, <1>3, <1>10, <1>11, CrossedNext, Zenon

(* The bytes of one write may bring any number of frames across, but none  *)
(* once the reader has refused one.                                        *)
LEMMA WriteOutCrossed ==
    ASSUME PipeInv, OrderInv', NEW n \in 1..Len(wbuf), WriteOut(n)
    PROVE  /\ wEnd = "open" /\ Crossed <= Crossed' /\ Crossed' <= Len(fed)
           /\ rEnd # "reading" => Crossed' = Crossed
<1>1. OrderInv /\ Arrived /\ Base /\ Ended  BY DEF PipeInv, OrderInv, CutInv
<1>2. PICK t \in Seq(Byte) : stream' = stream \o t /\ wbuf # <<>>  BY <1>1, WriteOutBase
<1>3. wEnd = "open" /\ rEnd # "ended"  BY <1>1, <1>2 DEF Ended, Base, Typed
<1>4. fed' = fed /\ begins' = begins /\ rEnd' = rEnd  BY DEF WriteOut
<1>5. PICK m \in Nat, c \in Nat, d \in Nat :
        m = Len(fed) /\ c = Crossed /\ c <= m /\ d = Crossed' /\ d <= m
  BY <1>1, <1>4, CrossedIs, CrossedNext
<1>6. \A k \in 1..m : (HasCrossed(k) <=> k <= c) /\ (HasCrossed(k)' <=> k <= d)
  BY <1>1, <1>4, <1>5, CrossedIs, CrossedNext
<1>7. ASSUME NEW k \in 1..m, HasCrossed(k)  PROVE HasCrossed(k)'
  BY <1>1, <1>2, <1>4, <1>5, <1>7, StaysCrossed
<1>8. c <= d
  <2>1. CASE c = 0  BY <2>1
  <2>2. CASE c > 0
    <3>1. c \in 1..m /\ c <= c  BY <1>5, <2>2
    <3> QED  BY <1>6, <1>7, <3>1
  <2> QED  BY <2>1, <2>2
<1>9. ASSUME rEnd # "reading"  PROVE d = c
  <2>1. rEnd = "failed"  BY <1>1, <1>3, <1>9 DEF Base, Typed
  <2>2. PICK g \in 1..Len(got) : got[g].type = "X" /\ g = Len(got)  BY <1>1, <2>1 DEF Ended, Failed
  <2>3. Len(got) <= m /\ got[g] = Limited(fed[g])
    BY <1>1, <1>3, <1>5, <2>2 DEF OrderInv, Ordered, Matched
  <2>4. g \in 1..m  BY <1>5, <2>2, <2>3
  <2>5. HasCrossed(g)  BY <1>1, <1>3, <2>2 DEF Arrived
  <2>6. g <= c  BY <1>6, <2>4, <2>5
  <2>7. ~(g < d)
    <3>1. SUFFICES ASSUME g < d PROVE FALSE  OBVIOUS
    <3>2. PICK k \in 1..m : k = g + 1 /\ k <= d /\ g \in 1..(k - 1)  BY <1>5, <2>4, <3>1
    <3>3. HasCrossed(k)'  BY <1>6, <3>2
    <3>4. \A j \in 1..(k - 1) : Limited(fed'[j]).type # "X"  BY <3>3, Zenon DEF HasCrossed
    <3> QED  BY <1>4, <2>2, <2>3, <3>2, <3>4, Zenon
  <2> QED  BY <1>5, <1>8, <2>4, <2>6, <2>7
<1> QED  BY <1>3, <1>5, <1>8, <1>9

LEMMA InitPipe == Init => PipeInv
<1> SUFFICES ASSUME Init PROVE PipeInv  OBVIOUS
<1>1. OrderInv  BY InitOrder
<1>2. Len(got) = 0  BY DEF Init
<1> QED  BY <1>1, <1>2 DEF PipeInv, Arrived

LEMMA NextPipe == PipeInv /\ [Next]_vars => PipeInv'
<1> SUFFICES ASSUME PipeInv, [Next]_vars PROVE Arrived'
  BY NextOrder DEF PipeInv
<1>1. OrderInv /\ Arrived /\ Base /\ Ended /\ OrderInv'
  BY NextOrder DEF PipeInv, OrderInv, CutInv
<1>2. PICK e \in Seq(Byte) : e = <<>> /\ stream \o e = stream
  <2>1. stream \in Seq(Byte)  BY <1>1 DEF Base, Typed
  <2>2. stream \o <<>> = stream  BY <2>1, ConcatEmptySeq
  <2> QED  BY <2>2, EmptySeq, Zenon
<1>3. PICK g \in Nat, m \in Nat : g = Len(got) /\ m = Len(fed) /\ g <= m
  <2>1. Len(got) \in Nat /\ Len(fed) \in Nat  BY <1>1 DEF Base, Typed
  <2>2. Len(got) <= Len(fed)  BY <1>1, Zenon DEF OrderInv, Ordered, Matched
  <2> QED  BY <2>1, <2>2, Zenon
<1>4. \A k \in 1..g : k \in 1..m  BY <1>3
<1>5. ASSUME NEW f \in Frames, Feed(f)  PROVE Arrived'
  <2>1. wEnd = "open" /\ got' = got /\ stream' = stream  BY <1>5 DEF Feed
  <2>2. \A k \in 1..m : fed'[k] = fed[k]
    <3>1. fed \in Seq(Frames) /\ fed' = Append(fed, f)  BY <1>1, <1>5 DEF Feed, Base, Typed
    <3> QED  BY <1>3, <3>1, AppendProperties
  <2>3. \A k \in 1..m : begins'[k] = begins[k]
    <3>1. begins \in Seq(Nat) /\ Len(begins) = m  BY <1>1, <1>3 DEF OrderInv, Ordered, Begun
    <3>2. Len(stream) + Len(wbuf) \in Nat
      <4>1. Len(stream) \in Nat /\ Len(wbuf) \in Nat  BY <1>1 DEF Base, Typed
      <4> QED  BY <4>1
    <3>3. begins' = Append(begins, Len(stream) + Len(wbuf))  BY <1>5 DEF Feed
    <3> QED  BY <3>1, <3>2, <3>3, AppendProperties
  <2>4. ASSUME NEW k \in 1..g  PROVE HasCrossed(k)'
    <3>1. k \in 1..Len(fed) /\ HasCrossed(k)  BY <1>1, <1>3, <1>4, <2>1 DEF Arrived
    <3>2. begins'[k] = begins[k]  BY <1>4, <2>3
    <3> QED  BY <1>1, <1>2, <1>3, <2>1, <2>2, <3>1, <3>2, StaysCrossed
  <2> QED  BY <1>3, <2>1, <2>4 DEF Arrived
<1>6. ASSUME NEW n \in 1..Len(wbuf), WriteOut(n)  PROVE Arrived'
  <2>1. PICK t \in Seq(Byte) : stream' = stream \o t  BY <1>1, <1>6, WriteOutBase
  <2>2. wEnd = "open"  BY <1>1, <1>6, WriteOutCrossed
  <2>3. got' = got /\ fed' = fed /\ begins' = begins  BY <1>6 DEF WriteOut
  <2>4. ASSUME NEW k \in 1..g  PROVE HasCrossed(k)'
    <3>1. k \in 1..Len(fed) /\ HasCrossed(k)  BY <1>1, <1>3, <1>4, <2>2 DEF Arrived
    <3> QED  BY <1>1, <2>1, <2>3, <3>1, StaysCrossed
  <2> QED  BY <1>3, <2>3, <2>4 DEF Arrived
<1>7. ASSUME fed' = fed, begins' = begins, stream' = stream, got' = got,
             wEnd' = wEnd \/ wEnd = "open", rEnd' = rEnd \/ rEnd = "reading"
      PROVE  Arrived'
  <2>1. \A k : HasCrossed(k)' <=> HasCrossed(k)  BY <1>7, SameCrossed
  <2>2. ASSUME NEW k \in 1..Len(got)
        PROVE  HasCrossed(k)' \/ (wEnd' = "closed" /\ rEnd' = "failed")
    <3>1. HasCrossed(k) \/ (wEnd = "closed" /\ rEnd = "failed")  BY <1>1 DEF Arrived
    <3> QED  BY <1>7, <2>1, <3>1
  <2> QED  BY <1>7, <2>2, Zenon DEF Arrived
<1>8. CASE CloseWriter  BY <1>7, <1>8 DEF CloseWriter
<1>9. CASE Yield
  <2>1. rEnd = "reading" /\ fed' = fed /\ begins' = begins /\ stream' = stream  BY <1>9 DEF Yield
  <2>2. \A k : HasCrossed(k)' <=> HasCrossed(k)  BY <2>1, SameCrossed
  <2>3. PICK x : /\ Len(got) < Len(fed) /\ x \in Item /\ Returns(x)
                 /\ ItemAt(stream, Position, Position', x)
    <3>1. PICK all \in Seq(Byte), e1 \in Seq(Nat) :
            Written(all, e1) /\ Sent(all) /\ Matched(e1) /\ Begun(e1)
      BY <1>1 DEF OrderInv, Ordered
    <3> QED  BY <1>1, <1>9, <3>1, YieldFrame
  <2>4. DecodeWithLimit(After(stream, Position), max_frame_size).item # <<>>
    BY <2>3, NotEmpty, Zenon DEF ItemAt
  <2>5. HasCrossed(Len(got) + 1)  BY <2>1, <2>3, <2>4, NextCrosses, Zenon
  <2>6. Len(got') = g + 1  BY <1>1, <1>3, <2>1, <2>3, ReturnsBase
  <2>7. ASSUME NEW k \in 1..Len(got')  PROVE HasCrossed(k)'
    <3>1. k \in 1..g \/ k = g + 1  BY <2>6
    <3>2. k \in 1..g => HasCrossed(k)  BY <1>1, <1>3, <2>1 DEF Arrived
    <3> QED  BY <1>3, <2>2, <2>5, <3>1, <3>2, Zenon
  <2> QED  BY <2>7, Zenon DEF Arrived
<1>10. CASE ReadEof
  <2>1. /\ rEnd = "reading" /\ fed' = fed /\ begins' = begins /\ stream' = stream
        /\ wEnd = "closed" /\ wEnd' = wEnd
    BY <1>10 DEF ReadEof
  <2>2. \/ got' = got
        \/ Returns(Bad("Io"))
    BY <1>1, <1>10, EofBase
  <2>3. Returns(Bad("Io")) => rEnd' = "failed"
    <3>1. Bad("Io").type = "X"  BY DEF Bad
    <3> QED  BY <3>1 DEF Returns
  <2>4. CASE got' = got  BY <1>7, <2>1, <2>4
  <2>5. CASE Returns(Bad("Io"))  BY <2>1, <2>3, <2>5 DEF Arrived
  <2> QED  BY <2>2, <2>4, <2>5
<1>11. ASSUME NEW n \in 1..Len(wire), Read(n)  PROVE Arrived'  BY <1>7, <1>11 DEF Read
<1>12. CASE UNCHANGED vars  BY <1>7, <1>12 DEF vars
<1> QED  BY <1>5, <1>6, <1>8, <1>9, <1>10, <1>11, <1>12 DEF Next, Runtime, Over

(* The refinement mapping.                                                 *)
TornTail == IF wEnd = "closed" /\ TornNext THEN <<Bad("Io")>> ELSE <<>>

Pieces ==
    /\ rEnd # "reading" => InPipe = <<>>
    /\ rEnd = "reading" => InPipe = Slice(fed, Len(got), Crossed) \o TornTail
    /\ wEnd = "closed" => Unsent = <<>>
    /\ wEnd # "closed" => Unsent = Slice(fed, Crossed, Len(fed)) /\ TornTail = <<>>

LEMMA PiecesNow == Pieces
<1>1. rEnd # "reading" => InPipe = <<>>  BY Zenon DEF InPipe
<1>2. rEnd = "reading" => InPipe = Slice(fed, Len(got), Crossed) \o TornTail
  BY Zenon DEF InPipe, Slice, TornTail
<1>3. wEnd = "closed" => Unsent = <<>>  BY Zenon DEF Unsent
<1>4. wEnd # "closed" => Unsent = Slice(fed, Crossed, Len(fed)) /\ TornTail = <<>>
  BY Zenon DEF Unsent, Slice, TornTail
<1> QED  BY <1>1, <1>2, <1>3, <1>4, Zenon DEF Pieces

LEMMA PiecesNext ==
    /\ rEnd' # "reading" => InPipe' = <<>>
    /\ rEnd' = "reading" => InPipe' = Slice(fed', Len(got'), Crossed') \o TornTail'
    /\ wEnd' = "closed" => Unsent' = <<>>
    /\ wEnd' # "closed" => Unsent' = Slice(fed', Crossed', Len(fed')) /\ TornTail' = <<>>
<1>1. Pieces'  BY PiecesNow, PTL
<1> QED  BY <1>1, Zenon DEF Pieces, Slice

LEMMA PipeInit == Init => Pipe!Init
<1> SUFFICES ASSUME Init PROVE Pipe!Init  OBVIOUS
<1>1. OrderInv  BY InitOrder
<1>2. got = <<>> /\ fed = <<>> /\ wEnd = "open" /\ rEnd = "reading"  BY DEF Init
<1>3. Len(got) = 0 /\ Len(fed) = 0  BY <1>2
<1>4. Crossed = 0  BY <1>1, <1>3, CrossedIs
<1>5. Slice(fed, 0, 0) = <<>>  BY SliceEmpty
<1>6. Unsent = <<>> /\ TornTail = <<>>  BY <1>2, <1>3, <1>4, <1>5, PiecesNow, Zenon DEF Pieces
<1>7. <<>> \o <<>> = <<>>  OBVIOUS
<1>8. InPipe = <<>>  BY <1>2, <1>3, <1>4, <1>5, <1>6, <1>7, PiecesNow, Zenon DEF Pieces
<1> QED  BY <1>2, <1>6, <1>8 DEF Pipe!Init

LEMMA FeedPuts ==
    ASSUME PipeInv, OrderInv', NEW f \in Frames, Feed(f)
    PROVE  Pipe!Put(f)
<1>1. OrderInv /\ Base  BY DEF PipeInv, OrderInv, CutInv
<1>2. Crossed' = Crossed  BY <1>1, FeedCrossed
<1>3. wEnd = "open" /\ wEnd' = "open" /\ got' = got /\ rEnd' = rEnd /\ fed' = Append(fed, f)
  BY DEF Feed
<1>4. PICK s \in Seq(Frames), c \in Nat : s = fed /\ c = Crossed /\ c <= Len(s)
  BY <1>1, CrossedIs DEF Base, Typed
<1>5. Unsent' = Append(Unsent, f)
  <2>1. c <= c  OBVIOUS
  <2>2. Slice(Append(s, f), c, Len(s) + 1) = Append(Slice(s, c, Len(s)), f)
    BY <1>4, <2>1, SliceAppend
  <2>3. Len(Append(s, f)) = Len(s) + 1  BY AppendProperties
  <2>4. Unsent' = Slice(Append(s, f), c, Len(s) + 1)
    BY <1>2, <1>3, <1>4, <2>3, PiecesNext
  <2>5. Unsent = Slice(s, c, Len(s))  BY <1>3, <1>4, PiecesNow DEF Pieces
  <2> QED  BY <2>2, <2>4, <2>5, Zenon
<1>6. InPipe' = InPipe
  <2>1. CASE rEnd # "reading"  BY <1>3, <2>1, PiecesNow, PiecesNext DEF Pieces
  <2>2. CASE rEnd = "reading"
    <3>1. PICK g \in Nat : g = Len(got) /\ g <= c  BY <1>4, <2>2, ReadingPast
    <3>2. Slice(Append(s, f), g, c) = Slice(s, g, c)  BY <1>4, <3>1, SliceAppend
    <3>3. TornTail' = <<>> /\ TornTail = <<>>  BY <1>3, PiecesNow, PiecesNext DEF Pieces
    <3>4. InPipe' = Slice(Append(s, f), g, c) \o <<>>
      BY <1>2, <1>3, <1>4, <2>2, <3>1, <3>3, PiecesNext, Zenon
    <3>5. InPipe = Slice(s, g, c) \o <<>>  BY <1>4, <2>2, <3>1, <3>3, PiecesNow, Zenon DEF Pieces
    <3> QED  BY <3>2, <3>4, <3>5, Zenon
  <2> QED  BY <2>1, <2>2
<1> QED  BY <1>3, <1>5, <1>6, Zenon DEF Pipe!Put

LEMMA WriteOutMoves ==
    ASSUME PipeInv, OrderInv', NEW n \in 1..Len(wbuf), WriteOut(n)
    PROVE  Pipe!Next \/ UNCHANGED Pipe!vars
<1>1. OrderInv /\ Base  BY DEF PipeInv, OrderInv, CutInv
<1>2. fed' = fed /\ got' = got /\ rEnd' = rEnd /\ wEnd' = wEnd  BY DEF WriteOut
<1>3. PICK s \in Seq(Frames), c \in Nat, d \in Nat :
        /\ s = fed /\ c = Crossed /\ d = Crossed' /\ c <= d /\ d <= Len(s) /\ wEnd = "open"
        /\ rEnd # "reading" => d = c
  <2>1. fed \in Seq(Frames) /\ Crossed \in Nat /\ Crossed' \in Nat
    BY <1>1, CrossedIs, CrossedNext DEF Base, Typed
  <2>2. /\ wEnd = "open" /\ Crossed <= Crossed' /\ Crossed' <= Len(fed)
        /\ rEnd # "reading" => Crossed' = Crossed
    BY WriteOutCrossed
  <2> QED  BY <2>1, <2>2, Zenon
<1>4. Unsent = Slice(s, c, Len(s)) /\ Unsent' = Slice(s, d, Len(s)) /\ TornTail = <<>> /\ TornTail' = <<>>
  BY <1>2, <1>3, PiecesNow, PiecesNext DEF Pieces
<1>5. CASE d = c
  <2>1. Unsent' = Unsent  BY <1>4, <1>5
  <2>2. InPipe' = InPipe
    BY <1>2, <1>3, <1>4, <1>5, PiecesNow, PiecesNext, Zenon DEF Pieces
  <2> QED  BY <1>2, <2>1, <2>2 DEF Pipe!vars
<1>6. CASE c < d
  <2>1. rEnd = "reading"  BY <1>3, <1>6
  <2>2. PICK g \in Nat : g = Len(got) /\ g <= c  BY <1>3, <2>1, ReadingPast
  <2>3. /\ d - c \in 1..Len(Slice(s, c, Len(s)))
        /\ Slice(s, g, c) \o SubSeq(Slice(s, c, Len(s)), 1, d - c) = Slice(s, g, d)
        /\ SubSeq(Slice(s, c, Len(s)), (d - c) + 1, Len(Slice(s, c, Len(s)))) = Slice(s, d, Len(s))
    <3>1. g <= c /\ c < d /\ d <= Len(s)  BY <1>3, <1>6, <2>2
    <3> QED  BY <3>1, SliceMoves, ZenonT(40)
  <2>5. PICK m \in 1..Len(Unsent) : m = d - c  BY <1>4, <2>3, Zenon
  <2>6. Slice(s, g, c) \o <<>> = Slice(s, g, c) /\ Slice(s, g, d) \o <<>> = Slice(s, g, d)
    <3>1. g <= d /\ c <= Len(s)  BY <1>3, <1>6, <2>2
    <3>2. Slice(s, g, c) \in Seq(Frames) /\ Slice(s, g, d) \in Seq(Frames)
      BY <1>3, <2>2, <3>1, SliceType
    <3> QED  BY <3>2, ConcatEmptySeq
  <2>7. InPipe = Slice(s, g, c) /\ InPipe' = Slice(s, g, d)
    <3>1. InPipe = Slice(s, g, c) \o <<>>
      BY <1>3, <1>4, <2>1, <2>2, PiecesNow, Zenon DEF Pieces
    <3>2. InPipe' = Slice(s, g, d) \o <<>>
      BY <1>2, <1>3, <1>4, <2>1, <2>2, PiecesNext, Zenon
    <3> QED  BY <2>6, <3>1, <3>2, Zenon
  <2>8. InPipe' = InPipe \o SubSeq(Unsent, 1, m)  BY <1>4, <2>3, <2>5, <2>7, Zenon
  <2>9. Unsent' = SubSeq(Unsent, m + 1, Len(Unsent))  BY <1>4, <2>3, <2>5, Zenon
  <2>10. Pipe!Move(m)  BY <1>2, <2>8, <2>9 DEF Pipe!Move
  <2> QED  BY <2>10, Zenon DEF Pipe!Next
<1> QED  BY <1>3, <1>5, <1>6

LEMMA CloseCloses ==
    ASSUME PipeInv, CloseWriter
    PROVE  Pipe!Close
<1>1. OrderInv /\ Base  BY DEF PipeInv, OrderInv, CutInv
<1>2. /\ wEnd = "open" /\ wEnd' = "closed" /\ got' = got /\ rEnd' = rEnd /\ fed' = fed
      /\ begins' = begins /\ stream' = stream
  BY DEF CloseWriter
<1>3. Crossed' = Crossed /\ (TornNext' <=> TornNext)  BY <1>2, SameCrossed
<1>4. PICK s \in Seq(Frames), c \in Nat : s = fed /\ c = Crossed /\ c <= Len(s)
  BY <1>1, CrossedIs DEF Base, Typed
<1>5. Unsent = Slice(s, c, Len(s)) /\ Unsent' = <<>> /\ TornTail = <<>>
  BY <1>2, <1>4, PiecesNow, PiecesNext DEF Pieces
<1>6. InPipe' = InPipe \/ (Unsent # <<>> /\ InPipe' = Append(InPipe, Bad("Io")))
  <2>1. CASE rEnd # "reading"  BY <1>2, <2>1, PiecesNow, PiecesNext, Zenon DEF Pieces
  <2>2. CASE rEnd = "reading"
    <3>1. PICK g \in Nat : g = Len(got) /\ g <= c  BY <1>4, <2>2, ReadingPast
    <3>2. PICK p \in Seq(Frames) : p = Slice(s, g, c)
      <4>1. Slice(s, g, c) \in Seq(Frames)  BY <1>4, <3>1, SliceType
      <4> QED  BY <4>1, Zenon
    <3>3. InPipe = p \o <<>>  BY <1>4, <1>5, <2>2, <3>1, <3>2, PiecesNow, Zenon DEF Pieces
    <3>4. InPipe' = p \o TornTail'  BY <1>2, <1>3, <1>4, <2>2, <3>1, <3>2, PiecesNext, Zenon
    <3>5. CASE TornNext
      <4>1. TornTail' = <<Bad("Io")>>  BY <1>2, <1>3, <3>5 DEF TornTail, Bad
      <4>2. Unsent # <<>>
        <5>1. c < Len(s)  BY <1>4, <3>5 DEF TornNext
        <5>2. Len(Slice(s, c, Len(s))) = Len(s) - c  BY <1>4, Suffix, Zenon DEF Slice
        <5>3. Len(<<>>) = 0 /\ Len(s) - c # 0
          <6>1. Len(s) \in Nat  OBVIOUS
          <6> QED  BY <5>1, <6>1
        <5> QED  BY <1>5, <5>2, <5>3, Zenon
      <4>3. Append(p, Bad("Io")) = p \o <<Bad("Io")>>
        <5> DEFINE Things == Frames \cup {Bad("Io")}
        <5>1. p \in Seq(Things)  BY SeqMonotonic
        <5>2. Bad("Io") \in Things  OBVIOUS
        <5> HIDE DEF Things
        <5> QED  BY <5>1, <5>2, AppendIsConcat
      <4>4. InPipe = p  BY <3>3, ConcatEmptySeq
      <4> QED  BY <3>4, <4>1, <4>2, <4>3, <4>4, Zenon
    <3>6. CASE ~TornNext
      <4>1. TornTail' = <<>>  BY <1>3, <3>6, Zenon DEF TornTail
      <4> QED  BY <3>3, <3>4, <4>1, Zenon
    <3> QED  BY <3>5, <3>6
  <2> QED  BY <2>1, <2>2
<1> QED  BY <1>2, <1>5, <1>6, Zenon DEF Pipe!Close

LEMMA YieldTakes ==
    ASSUME PipeInv, OrderInv', Yield
    PROVE  Pipe!Take
<1>1. OrderInv /\ Base  BY DEF PipeInv, OrderInv, CutInv
<1>2. /\ rEnd = "reading" /\ fed' = fed /\ begins' = begins /\ stream' = stream /\ wEnd' = wEnd
  BY DEF Yield
<1>3. Crossed' = Crossed /\ (TornNext' <=> TornNext)  BY <1>2, SameCrossed
<1>4. PICK s \in Seq(Frames), c \in Nat, g \in Nat :
        s = fed /\ c = Crossed /\ c <= Len(s) /\ g = Len(got) /\ g <= c
  BY <1>1, <1>2, CrossedIs, ReadingPast DEF Base, Typed
<1>5. PICK x \in Item : /\ Len(got) < Len(fed) /\ Returns(x) /\ x = Limited(fed[Len(got) + 1])
                        /\ ItemAt(stream, Position, Position', x)
  <2>1. PICK all \in Seq(Byte), e \in Seq(Nat) :
          Written(all, e) /\ Sent(all) /\ Matched(e) /\ Begun(e)
    BY <1>1 DEF OrderInv, Ordered
  <2> QED  BY <1>1, <2>1, YieldFrame
<1>6. g < c
  <2>1. DecodeWithLimit(After(stream, Position), max_frame_size).item # <<>>
    BY <1>5, NotEmpty, Zenon DEF ItemAt
  <2>2. Len(got) + 1 \in 1..Len(fed) /\ HasCrossed(Len(got) + 1)
    BY <1>2, <1>5, <2>1, NextCrosses, Zenon
  <2>3. Len(got) + 1 <= Crossed  BY <1>1, <2>2, CrossedIs
  <2> QED  BY <1>4, <2>3
<1>7. TornTail' = TornTail  BY <1>2, <1>3 DEF TornTail, Bad
<1>8. PICK q : q = TornTail  OBVIOUS
<1>9. PICK T : s \in Seq(T) /\ q \in Seq(T)
  <2> DEFINE T == Frames \cup {Bad("Io")}
  <2>1. <<Bad("Io")>> \in Seq(T) /\ <<>> \in Seq(T)  OBVIOUS
  <2>2. TornTail \in Seq(T)  BY <2>1, Zenon DEF TornTail
  <2>3. s \in Seq(T)  BY SeqMonotonic
  <2> QED  BY <1>8, <2>2, <2>3, Zenon
<1>10. /\ Slice(s, g, c) \o q # <<>> /\ Head(Slice(s, g, c) \o q) = s[g + 1]
       /\ Tail(Slice(s, g, c) \o q) = Slice(s, g + 1, c) \o q
  <2>1. Takable(T, s, g, c, q)  BY <1>4, <1>6, <1>9 DEF Takable
  <2>2. Taken(s, g, c, q)  BY <2>1, SliceTaken, Zenon
  <2> QED  BY <2>2, Zenon DEF Taken
<1>11. InPipe = Slice(s, g, c) \o q  BY <1>2, <1>4, <1>8, PiecesNow, Zenon DEF Pieces
<1>12. InPipe # <<>> /\ Limited(Head(InPipe)) = x  BY <1>4, <1>5, <1>10, <1>11, Zenon
<1>13. /\ got' = Append(got, x) /\ Len(got') = g + 1
       /\ rEnd' = IF x.type = "X" THEN "failed" ELSE rEnd
  BY <1>1, <1>2, <1>4, <1>5, ReturnsBase
<1>14. Unsent' = Unsent  BY <1>2, <1>3, PiecesNow, PiecesNext, Zenon DEF Pieces
<1>15. CASE x.type = "X"
  <2>1. rEnd' = "failed" /\ InPipe' = <<>>  BY <1>13, <1>15, PiecesNext
  <2> QED  BY <1>2, <1>12, <1>13, <1>14, <1>15, <2>1 DEF Pipe!Take
<1>16. CASE x.type # "X"
  <2>1. rEnd' = rEnd /\ rEnd' = "reading"  BY <1>2, <1>13, <1>16
  <2>2. InPipe' = Slice(s, g + 1, c) \o q
    BY <1>2, <1>3, <1>4, <1>7, <1>8, <1>13, <2>1, PiecesNext, Zenon
  <2>3. InPipe' = Tail(InPipe)  BY <1>10, <1>11, <2>2, Zenon
  <2> QED  BY <1>2, <1>12, <1>13, <1>14, <1>16, <2>1, <2>3 DEF Pipe!Take
<1> QED  BY <1>15, <1>16

LEMMA EofEnds ==
    ASSUME PipeInv, OrderInv', ReadEof
    PROVE  Pipe!Take \/ Pipe!End
<1>1. OrderInv /\ Base  BY DEF PipeInv, OrderInv, CutInv
<1>2. /\ rEnd = "reading" /\ fed' = fed /\ begins' = begins /\ stream' = stream
      /\ wEnd = "closed" /\ wEnd' = wEnd
  BY DEF ReadEof
<1>3. /\ rbuf = After(stream, Position) /\ Decode.item = <<>>
      /\ \/ rbuf = <<>> /\ rEnd' = "ended" /\ got' = got
         \/ rbuf # <<>> /\ Returns(Bad("Io")) /\ Bad("Io") \in Item
  BY <1>1, EofBase
<1>4. DecodeWithLimit(After(stream, Position), max_frame_size).item = <<>>
  BY <1>3, Zenon DEF Decode
<1>5. PICK c \in Nat, g \in Nat, n \in Nat :
        c = Crossed /\ g = Len(got) /\ n = Len(fed) /\ g <= c /\ c <= n
  BY <1>1, <1>2, CrossedIs, ReadingPast
<1>6. c = g
  <2>1. SUFFICES ASSUME g < c PROVE FALSE  BY <1>5
  <2>2. Len(got) < Len(fed) /\ Len(got) + 1 <= Crossed  BY <1>5, <2>1
  <2>3. Len(got) + 1 \in 1..Len(fed) /\ ~HasCrossed(Len(got) + 1)
    BY <1>2, <1>4, <2>2, NextCrosses, Zenon
  <2> QED  BY <1>1, <2>2, <2>3, CrossedIs
<1>7. InPipe = TornTail
  <2>1. Slice(fed, g, g) = <<>>  BY SliceEmpty
  <2>2. InPipe = <<>> \o TornTail  BY <1>2, <1>5, <1>6, <2>1, PiecesNow, Zenon DEF Pieces
  <2>3. TornTail \in Seq({Bad("Io")})
    <3>1. <<Bad("Io")>> \in Seq({Bad("Io")}) /\ <<>> \in Seq({Bad("Io")})  OBVIOUS
    <3> QED  BY <3>1, Zenon DEF TornTail
  <2>4. <<>> \o TornTail = TornTail  BY <2>3, ConcatEmptySeq
  <2> QED  BY <2>2, <2>4, Zenon
<1>8. Unsent = <<>> /\ Unsent' = <<>>  BY <1>2, PiecesNow, PiecesNext DEF Pieces
<1>9. PICK s \in Seq(Byte), r \in Seq(Byte), p \in Nat :
        s = stream /\ r = rbuf /\ p = Position /\ p <= Len(s) /\ Len(r) = Len(s) - p
  <2>1. /\ stream \in Seq(Byte) /\ rbuf \in Seq(Byte) /\ Position \in Nat
        /\ Position <= Len(stream)
    BY <1>1 DEF Base, Typed, Aligned
  <2>2. <<>> \in Seq(Byte)  OBVIOUS
  <2>3. Len(After(stream, Position)) = Len(stream) - Position  BY <2>1, <2>2, AfterConcat
  <2> QED  BY <1>3, <2>1, <2>3, Zenon
<1>10. TornNext <=> g < n /\ p < Len(s)
  <2>1. CASE g < n
    <3>1. begins[Len(got) + 1] = Position  BY <1>2, <1>5, <2>1, NextCrosses
    <3>2. g > 0 => Limited(fed[g]).type # "X"
      <4>1. g > 0 => g \in 1..Len(got)  BY <1>5
      <4> QED  BY <1>2, <4>1, ReadingPast
    <3> QED  BY <1>5, <1>6, <1>9, <2>1, <3>1, <3>2, Zenon DEF TornNext
  <2>2. CASE ~(g < n)  BY <1>5, <1>6, <2>2 DEF TornNext
  <2> QED  BY <2>1, <2>2
<1>11. CASE rbuf = <<>> /\ rEnd' = "ended" /\ got' = got
  <2>1. ~(p < Len(s))
    <3>1. Len(r) = 0 /\ Len(s) \in Nat  BY <1>9, <1>11
    <3> QED  BY <1>9, <3>1
  <2>2. InPipe = <<>>  BY <1>7, <1>10, <2>1, Zenon DEF TornTail
  <2>3. InPipe' = <<>>  BY <1>11, PiecesNext
  <2> QED  BY <1>2, <1>8, <1>11, <2>2, <2>3 DEF Pipe!End
<1>12. CASE rbuf # <<>> /\ Returns(Bad("Io")) /\ Bad("Io") \in Item
  <2>1. p < Len(s)
    <3>1. Len(r) \in Nat \ {0} /\ Len(s) \in Nat  BY <1>9, <1>12, EmptySeq
    <3> QED  BY <1>9, <3>1
  <2>2. g < n
    <3>1. PICK all \in Seq(Byte), e \in Seq(Nat) :
            Written(all, e) /\ Sent(all) /\ Matched(e) /\ Begun(e)
      BY <1>1 DEF OrderInv, Ordered
    <3>2. Position < Len(stream)  BY <1>9, <2>1
    <3>3. Len(got) < Len(fed)  BY <1>1, <1>2, <3>1, <3>2, AtFrame
    <3> QED  BY <1>5, <3>3
  <2>3. InPipe = <<Bad("Io")>>  BY <1>2, <1>7, <1>10, <2>1, <2>2, Zenon DEF TornTail
  <2>4. InPipe # <<>> /\ Head(InPipe) = Bad("Io")  BY <2>3
  <2>5. Limited(Bad("Io")) = Bad("Io") /\ Bad("Io").type = "X"  BY DEF Limited, Bad
  <2>6. got' = Append(got, Bad("Io")) /\ rEnd' = "failed"  BY <1>12, <2>5 DEF Returns
  <2>7. InPipe' = <<>>  BY <2>6, PiecesNext
  <2> QED  BY <1>2, <1>8, <2>4, <2>5, <2>6, <2>7 DEF Pipe!Take
<1> QED  BY <1>3, <1>11, <1>12

LEMMA NextPipes ==
    ASSUME PipeInv, OrderInv', [Next]_vars
    PROVE  Pipe!Next \/ UNCHANGED Pipe!vars
<1>1. ASSUME NEW f \in Frames, Feed(f)  PROVE Pipe!Next
  <2>1. Pipe!Put(f)  BY <1>1, FeedPuts
  <2> QED  BY <2>1, Zenon DEF Pipe!Next
<1>2. CASE CloseWriter
  <2>1. Pipe!Close  BY <1>2, CloseCloses
  <2> QED  BY <2>1, Zenon DEF Pipe!Next
<1>3. ASSUME NEW n \in 1..Len(wbuf), WriteOut(n)  PROVE Pipe!Next \/ UNCHANGED Pipe!vars
  BY <1>3, WriteOutMoves
<1>4. CASE Yield
  <2>1. Pipe!Take  BY <1>4, YieldTakes
  <2> QED  BY <2>1, Zenon DEF Pipe!Next
<1>5. CASE ReadEof
  <2>1. Pipe!Take \/ Pipe!End  BY <1>5, EofEnds
  <2> QED  BY <2>1, Zenon DEF Pipe!Next
<1>6. ASSUME fed' = fed, begins' = begins, stream' = stream, got' = got, wEnd' = wEnd, rEnd' = rEnd
      PROVE  UNCHANGED Pipe!vars
  <2>1. Crossed' = Crossed /\ (TornNext' <=> TornNext)  BY <1>6, SameCrossed
  <2>2. TornTail' = TornTail  BY <1>6, <2>1, Zenon DEF TornTail
  <2>3. InPipe' = InPipe /\ Unsent' = Unsent
    BY <1>6, <2>1, <2>2, PiecesNow, PiecesNext, Zenon DEF Pieces
  <2> QED  BY <1>6, <2>3 DEF Pipe!vars
<1>7. ASSUME NEW n \in 1..Len(wire), Read(n)  PROVE UNCHANGED Pipe!vars  BY <1>6, <1>7 DEF Read
<1>8. CASE UNCHANGED vars  BY <1>6, <1>8 DEF vars
<1> QED  BY <1>1, <1>2, <1>3, <1>4, <1>5, <1>7, <1>8 DEF Next, Runtime, Over

(* The codec over a byte stream implements the FIFO of whole frames that   *)
(* Transport, Client and Connection are written against, for every set of  *)
(* frames, every limit and every way the bytes are cut: a frame crosses at *)
(* once, a refused one is the last, a close tears at most one.             *)
THEOREM StreamIsPipe == Spec => ImplementsPipe
<1>1. Init => PipeInv /\ Pipe!Init  BY InitPipe, PipeInit
<1>2. PipeInv /\ [Next]_vars => PipeInv'  BY NextPipe
<1>3. PipeInv /\ PipeInv' /\ [Next]_vars => [Pipe!Next]_(Pipe!vars)
  BY NextPipes DEF PipeInv
<1> QED  BY <1>1, <1>2, <1>3, PTL DEF Spec, ImplementsPipe, Pipe!Spec
=============================================================================
