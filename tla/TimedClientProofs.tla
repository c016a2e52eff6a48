-------------------------- MODULE TimedClientProofs --------------------------
(***************************************************************************)
(* The client against a server that does what it likes, on a clock: what a *)
(* send may conclude from what it read, what it leaves on the wire, and    *)
(* how long it can be writing, for every server, every batch, every bound  *)
(* and every setting of the builder.                                       *)
(***************************************************************************)
EXTENDS TimedClient, ClientProofs

(* As many results as calls, less the one under way or given up.           *)
Counted(c) ==
    /\ Len(outcome[c]) <= Len(sent[c])
    /\ InSend(c) => Len(sent[c]) = Len(outcome[c]) + 1 /\ sent[c][Len(sent[c])] # <<>>
    /\ cpc[c] # "closed" /\ ~InSend(c) => Len(sent[c]) = Len(outcome[c])
    /\ cpc[c] # "closed" => cEnd[c] = "open"
    /\ \A k \in DOMAIN sent[c] : Len(sent[c][k]) < U32

(* What the call under way has read, and what those before it had.         *)
Reads(c) ==
    /\ \A i \in DOMAIN seen[c] : seen[c][i][1] \in Nat /\ seen[c][i][1] <= Len(sent[c])
    /\ InSend(c) => \A i \in ReadBy(seen[c], Len(sent[c])) :
           cpc[c] = "wait" /\ PartialAck(seen[c][i][2], Len(sent[c][Len(sent[c])]))
    /\ \A k \in DOMAIN outcome[c] :
           outcome[c][k].ok /\ sent[c][k] # <<>> =>
               CoveredFirst(seen[c], k, Len(sent[c][k]))

(* What the client wrote and still has to write are its batches; what it   *)
(* still has to feed is of the last.                                       *)
Batched(c) ==
    /\ tofeed[c] # <<>> => /\ InSend(c)
                           /\ Len(tofeed[c]) <= Len(BatchFrames(c, sent[c][Len(sent[c])]))
    /\ cpc[c] \in {"flush", "wait"} => tofeed[c] = <<>>
    /\ InSend(c) /\ c \notin Reusing => ~Broken(c)
    /\ c \notin Reusing /\ cEnd[c] = "open" /\ sEnd[c] = "open" =>
           CutInto(Row(c), BatchesOf(c), Broken(c))

AnyServerTypes ==
    /\ seen \in [Conns -> Seq(Nat \X FrameSet)]
    /\ taken \in [Conns -> Seq(FrameSet)]
    /\ s2c \in [Conns -> Seq(Answers)]

AnyServerInv ==
    /\ ClientInv /\ AnyServerTypes
    /\ \A c \in Conns : Counted(c) /\ Reads(c) /\ Batched(c)

-----------------------------------------------------------------------------
(* Sequences *)

(* One frame moves from the front of y to the end of x.                    *)
LEMMA Shift ==
    ASSUME NEW S, NEW x \in Seq(S), NEW y \in Seq(S), y # <<>>
    PROVE  /\ Head(y) \in S /\ Tail(y) \in Seq(S) /\ Append(x, Head(y)) \in Seq(S)
           /\ Append(x, Head(y)) \o Tail(y) = x \o y
<1>1. Head(y) \in S /\ Tail(y) \in Seq(S)  BY HeadTailProperties
<1>2. PICK h \in S : h = Head(y)  BY <1>1
<1>3. PICK r \in Seq(S) : r = Tail(y)  BY <1>1
<1>4. y[1] = h /\ Len(r) = Len(y) - 1 /\ \A i \in 1..Len(r) : r[i] = y[i + 1]
  BY <1>2, <1>3, HeadTailProperties
<1>5. Append(x, h) \in Seq(S)  BY AppendProperties
<1>6. PICK a \in Seq(S) : a = Append(x, h)  BY <1>5
<1>7. /\ Len(a) = Len(x) + 1 /\ a[Len(x) + 1] = h
      /\ \A i \in 1..Len(x) : a[i] = x[i]
  BY <1>6, AppendProperties
<1>8. /\ a \o r \in Seq(S) /\ Len(a \o r) = Len(a) + Len(r)
      /\ \A i \in 1..(Len(a) + Len(r)) : (a \o r)[i] = IF i <= Len(a) THEN a[i] ELSE r[i - Len(a)]
  BY ConcatProperties
<1>9. /\ x \o y \in Seq(S) /\ Len(x \o y) = Len(x) + Len(y)
      /\ \A i \in 1..(Len(x) + Len(y)) : (x \o y)[i] = IF i <= Len(x) THEN x[i] ELSE y[i - Len(x)]
  BY ConcatProperties
<1>10. Len(x) \in Nat /\ Len(y) \in Nat /\ Len(y) >= 1  OBVIOUS
<1>11. Len(a \o r) = Len(x \o y)  BY <1>4, <1>7, <1>8, <1>9, <1>10
<1>12. ASSUME NEW i \in 1..Len(x \o y)  PROVE (a \o r)[i] = (x \o y)[i]
  <2>1. CASE i <= Len(x)  BY <1>7, <1>8, <1>9, <1>10, <1>11, <2>1
  <2>2. CASE i = Len(x) + 1  BY <1>4, <1>7, <1>8, <1>9, <1>10, <1>11, <2>2
  <2>3. CASE i > Len(x) + 1
    <3>1. i - Len(a) \in 1..Len(r) /\ (i - Len(a)) + 1 = i - Len(x)
      BY <1>4, <1>7, <1>9, <1>10, <2>3
    <3>2. ~(i <= Len(a)) /\ ~(i <= Len(x)) /\ i \in 1..(Len(a) + Len(r))
      BY <1>4, <1>7, <1>9, <1>10, <2>3
    <3>3. (a \o r)[i] = r[i - Len(a)]  BY <1>8, <3>2
    <3>4. (x \o y)[i] = y[i - Len(x)]  BY <1>9, <3>2
    <3> QED  BY <1>4, <3>1, <3>3, <3>4
  <2>4. i <= Len(x) \/ i = Len(x) + 1 \/ i > Len(x) + 1  BY <1>9, <1>10
  <2> QED  BY <2>1, <2>2, <2>3, <2>4, Zenon
<1>13. a \o r = x \o y
  BY <1>8, <1>9, <1>11, <1>12, SeqEqual
<1> QED  BY <1>1, <1>2, <1>3, <1>5, <1>6, <1>13

(* What a call read is not changed by what another one reads.              *)
LEMMA CoveredStays ==
    ASSUME NEW S, NEW s \in Seq(S), NEW r \in S, NEW k, NEW n, r[1] # k, CoveredFirst(s, k, n)
    PROVE  CoveredFirst(Append(s, r), k, n)
<1>1. PICK a \in Seq(S) : a = Append(s, r)  BY AppendProperties
<1>2. /\ DOMAIN a = DOMAIN s \cup {Len(s) + 1} /\ a[Len(s) + 1] = r
      /\ \A i \in DOMAIN s : a[i] = s[i]
  BY <1>1
<1>3. ReadBy(a, k) = ReadBy(s, k) /\ \A i \in ReadBy(s, k) : a[i] = s[i]
  BY <1>2 DEF ReadBy
<1> QED  BY <1>1, <1>3 DEF CoveredFirst

(* The first covering Ack ends a call that has read only partial ones.     *)
LEMMA CoveredNow ==
    ASSUME NEW S, NEW s \in Seq(S), NEW k, NEW n, NEW f, <<k, f>> \in S, CoveringAck(f, n),
           \A j \in ReadBy(s, k) : PartialAck(s[j][2], n)
    PROVE  CoveredFirst(Append(s, <<k, f>>), k, n)
<1>1. PICK a \in Seq(S) : a = Append(s, <<k, f>>)  BY AppendProperties
<1>2. PICK z \in Nat : z = Len(s) + 1  OBVIOUS
<1>3. /\ DOMAIN a = DOMAIN s \cup {z} /\ a[z] = <<k, f>>
      /\ \A i \in DOMAIN s : a[i] = s[i] /\ i < z
  BY <1>1, <1>2
<1>4. z \in ReadBy(a, k) /\ CoveringAck(a[z][2], n)  BY <1>3 DEF ReadBy
<1>5. ASSUME NEW j \in ReadBy(a, k) \ {z}  PROVE j < z /\ PartialAck(a[j][2], n)
  <2>1. j \in DOMAIN s /\ a[j] = s[j] /\ j < z  BY <1>3 DEF ReadBy
  <2>2. j \in ReadBy(s, k)  BY <2>1 DEF ReadBy
  <2> QED  BY <2>1, <2>2
<1> QED  BY <1>1, <1>4, <1>5 DEF CoveredFirst

(* The frames of a sequence from the (m + 1)-th to the n-th.               *)
LEMMA PartIs ==
    ASSUME NEW S, NEW s \in Seq(S), NEW m \in Nat, NEW n \in Nat, m <= n, n <= Len(s)
    PROVE  /\ SubSeq(s, m + 1, n) \in Seq(S) /\ Len(SubSeq(s, m + 1, n)) = n - m
           /\ \A i \in 1..(n - m) : SubSeq(s, m + 1, n)[i] = s[m + i]
<1>1. m + 1 \in Int /\ n \in Int /\ n - (m + 1) + 1 = n - m  OBVIOUS
<1>2. \A i \in m + 1..n : s[i] \in S
  <2>1. \A i \in m + 1..n : i \in 1..Len(s)  OBVIOUS
  <2> QED  BY <2>1, ElementOfSeq
<1>3. PICK a : a = SubSeq(s, m + 1, n)  OBVIOUS
<1>4. /\ a \in Seq(S) /\ Len(a) = IF m + 1 <= n THEN n - (m + 1) + 1 ELSE 0
      /\ \A i \in 1..(n - (m + 1) + 1) : a[i] = s[(m + 1) + i - 1]
  BY <1>1, <1>2, <1>3, SubSeqProperties
<1>5. Len(a) = n - m  BY <1>4
<1>6. ASSUME NEW i \in 1..(n - m)  PROVE a[i] = s[m + i]
  <2>1. (m + 1) + i - 1 = m + i /\ i \in 1..(n - (m + 1) + 1)  BY <1>1
  <2> QED  BY <1>4, <2>1
<1> QED  BY <1>3, <1>4, <1>5, <1>6

(* A beginning of a part.                                                  *)
LEMMA PartPrefix ==
    ASSUME NEW S, NEW s \in Seq(S), NEW u \in Nat, NEW p \in Nat, NEW n \in Nat,
           u <= p, p <= n, n <= Len(s)
    PROVE  IsPrefix(SubSeq(s, u + 1, p), SubSeq(s, u + 1, n))
<1>1. u <= n /\ p <= Len(s)  OBVIOUS
<1>2. PICK a \in Seq(S) : a = SubSeq(s, u + 1, p)  BY <1>1, PartIs
<1>3. Len(a) = p - u /\ \A i \in 1..(p - u) : a[i] = s[u + i]  BY <1>1, <1>2, PartIs
<1>4. PICK b \in Seq(S) : b = SubSeq(s, u + 1, n)  BY <1>1, PartIs
<1>5. Len(b) = n - u /\ \A i \in 1..(n - u) : b[i] = s[u + i]  BY <1>1, <1>4, PartIs
<1>6. Len(a) \in Nat /\ Len(a) <= Len(b)  BY <1>3, <1>5
<1>7. 0 \in Nat /\ 0 <= Len(a) /\ 0 + 1 = 1 /\ Len(a) - 0 = Len(a)  BY <1>6
<1>8. PICK d \in Seq(S) : d = SubSeq(b, 1, Len(a))
  <2>1. SubSeq(b, 0 + 1, Len(a)) \in Seq(S)  BY <1>6, <1>7, PartIs
  <2> QED  BY <1>7, <2>1
<1>9. Len(d) = Len(a) /\ \A i \in 1..Len(a) : d[i] = b[0 + i]
  <2>1. /\ Len(SubSeq(b, 0 + 1, Len(a))) = Len(a) - 0
        /\ \A i \in 1..(Len(a) - 0) : SubSeq(b, 0 + 1, Len(a))[i] = b[0 + i]
    BY <1>6, <1>7, PartIs
  <2> QED  BY <1>7, <1>8, <2>1
<1>10. ASSUME NEW i \in 1..Len(d)  PROVE d[i] = a[i]
  <2>1. i \in 1..(p - u) /\ i \in 1..(n - u) /\ 0 + i = i /\ i \in 1..Len(a)  BY <1>3, <1>9
  <2> QED  BY <1>3, <1>5, <1>9, <2>1
<1>11. d = a  BY <1>9, <1>10, SeqEqual
<1>12. SubSeq(a, 1, Len(a)) = a  BY SubSeqFull
<1> QED  BY <1>2, <1>4, <1>6, <1>8, <1>11, <1>12 DEF IsPrefix

(* A part of the first of two sequences, and all of the second.            *)
LEMMA PartOfConcat ==
    ASSUME NEW S, NEW s \in Seq(S), NEW t \in Seq(S), NEW m \in Nat, NEW n \in Nat,
           m <= n, n <= Len(s)
    PROVE  SubSeq(s \o t, m + 1, n) = SubSeq(s, m + 1, n)
<1>1. CASE m = n
  <2>1. n < m + 1 /\ m + 1 \in Int /\ n \in Int  BY <1>1
  <2> QED  BY <2>1, SubSeqEmpty
<1>2. CASE m < n
  <2>1. m + 1 \in 1..Len(s) /\ n \in 1..Len(s)  BY <1>2
  <2> QED  BY <2>1, SubSeqOfConcat1
<1> QED  BY <1>1, <1>2

LEMMA RestOfConcat ==
    ASSUME NEW S, NEW s \in Seq(S), NEW t \in Seq(S)
    PROVE  SubSeq(s \o t, Len(s) + 1, Len(s) + Len(t)) = t
<1>1. Len(s) \in Nat /\ Len(t) \in Nat  OBVIOUS
<1>2. CASE t = <<>>
  <2>1. Len(t) = 0  BY <1>2
  <2>2. Len(s) + Len(t) < Len(s) + 1 /\ Len(s) + 1 \in Int /\ Len(s) + Len(t) \in Int
    BY <1>1, <2>1
  <2> QED  BY <1>2, <2>2, SubSeqEmpty
<1>3. CASE t # <<>>
  <2>1. Len(t) >= 1  BY <1>3
  <2>2. /\ Len(s) + 1 \in Len(s) + 1..Len(s) + Len(t)
        /\ Len(s) + Len(t) \in Len(s) + 1..Len(s) + Len(t)
    BY <1>1, <2>1
  <2>3. (Len(s) + 1) - Len(s) = 1 /\ (Len(s) + Len(t)) - Len(s) = Len(t)  BY <1>1
  <2>4. SubSeq(s \o t, Len(s) + 1, Len(s) + Len(t)) = SubSeq(t, 1, Len(t))
    BY <2>2, <2>3, SubSeqOfConcat2
  <2> QED  BY <2>4, SubSeqFull
<1> QED  BY <1>2, <1>3

(* A row of whole batches, and one more.                                   *)
LEMMA CutNext ==
    ASSUME NEW S, NEW w \in Seq(S), NEW b \in Seq(S), NEW bs \in Seq(Seq(S)),
           CutInto(w, bs, FALSE)
    PROVE  CutInto(w \o b, Append(bs, b), FALSE)
<1>1. PICK n \in Nat : n = Len(bs)  OBVIOUS
<1>2. PICK cut \in [0..n -> 0..Len(w)] :
        /\ cut[0] = 0 /\ cut[n] = Len(w)
        /\ \A j, k \in 0..n : j <= k => cut[j] <= cut[k]
        /\ \A k \in 1..n : SubSeq(w, cut[k - 1] + 1, cut[k]) = bs[k]
  BY <1>1 DEF CutInto
<1>3. PICK x \in Seq(S) : x = w \o b  BY ConcatProperties
<1>4. PICK p \in Nat : p = Len(w)  OBVIOUS
<1>5. PICK q \in Nat : q = Len(x)  OBVIOUS
<1>6. q = p + Len(b) /\ Len(b) \in Nat /\ p <= q  BY <1>3, <1>4, <1>5, ConcatProperties
<1>7. PICK cs \in Seq(Seq(S)) : cs = Append(bs, b)  BY AppendProperties
<1>8. Len(cs) = n + 1 /\ cs[n + 1] = b /\ \A k \in 1..n : cs[k] = bs[k]
  BY <1>1, <1>7, AppendProperties
<1> DEFINE new == [k \in 0..(n + 1) |-> IF k <= n THEN cut[k] ELSE q]
<1>9. /\ new \in [0..(n + 1) -> 0..q]
      /\ new[n + 1] = q /\ \A k \in 0..n : new[k] = cut[k] /\ cut[k] \in Nat /\ cut[k] <= p
  <2>1. \A k \in 0..n : cut[k] \in Nat /\ cut[k] <= p  BY <1>2, <1>4
  <2>2. ASSUME NEW k \in 0..(n + 1)  PROVE (IF k <= n THEN cut[k] ELSE q) \in 0..q
    <3>1. k <= n => k \in 0..n  OBVIOUS
    <3> QED  BY <1>6, <2>1, <3>1
  <2>3. new \in [0..(n + 1) -> 0..q]  BY <2>2
  <2>4. n + 1 \in 0..(n + 1) /\ ~(n + 1 <= n)  OBVIOUS
  <2>5. ASSUME NEW k \in 0..n  PROVE k \in 0..(n + 1) /\ k <= n  OBVIOUS
  <2> QED  BY <2>1, <2>3, <2>4, <2>5
<1> HIDE DEF new
<1>10. new[0] = 0  BY <1>2, <1>9
<1>11. ASSUME NEW j \in 0..(n + 1), NEW k \in 0..(n + 1), j <= k  PROVE new[j] <= new[k]
  <2>1. CASE k = n + 1
    <3>1. j \in 0..n \/ j = n + 1  OBVIOUS
    <3> QED  BY <1>6, <1>9, <2>1, <3>1
  <2>2. CASE k # n + 1
    <3>1. k \in 0..n /\ j \in 0..n  BY <1>11, <2>2
    <3> QED  BY <1>2, <1>9, <1>11, <3>1
  <2> QED  BY <2>1, <2>2
<1>12. ASSUME NEW k \in 1..(n + 1)  PROVE SubSeq(x, new[k - 1] + 1, new[k]) = cs[k]
  <2>1. CASE k = n + 1
    <3>1. new[k - 1] = p /\ new[k] = p + Len(b)  BY <1>2, <1>4, <1>6, <1>9, <2>1
    <3>2. SubSeq(x, p + 1, p + Len(b)) = b  BY <1>3, <1>4, RestOfConcat
    <3> QED  BY <1>8, <2>1, <3>1, <3>2
  <2>2. CASE k # n + 1
    <3>1. k \in 1..n /\ k - 1 \in 0..n /\ k \in 0..n /\ k - 1 <= k  BY <2>2
    <3>2. /\ new[k - 1] = cut[k - 1] /\ new[k] = cut[k]
          /\ cut[k - 1] \in Nat /\ cut[k] \in Nat /\ cut[k - 1] <= cut[k] /\ cut[k] <= Len(w)
      BY <1>2, <1>4, <1>9, <3>1
    <3>3. SubSeq(x, cut[k - 1] + 1, cut[k]) = SubSeq(w, cut[k - 1] + 1, cut[k])
      <4>1. PICK u \in Nat : u = cut[k - 1]  BY <3>2
      <4>2. PICK v \in Nat : v = cut[k]  BY <3>2
      <4>3. u <= v /\ v <= Len(w)  BY <3>2, <4>1, <4>2
      <4>4. SubSeq(w \o b, u + 1, v) = SubSeq(w, u + 1, v)  BY <4>3, PartOfConcat
      <4> QED  BY <1>3, <4>1, <4>2, <4>4
    <3> QED  BY <1>2, <1>8, <3>1, <3>2, <3>3
  <2> QED  BY <2>1, <2>2
<1>13. CutInto(x, cs, FALSE)  BY <1>5, <1>8, <1>9, <1>10, <1>11, <1>12 DEF CutInto
<1> QED  BY <1>3, <1>7, <1>13

(* Nothing is made of no batches.                                          *)
LEMMA CutNone ==
    ASSUME NEW torn
    PROVE  CutInto(<<>>, <<>>, torn)
<1>1. PICK w : w = <<>>  OBVIOUS
<1>2. Len(w) = 0  BY <1>1
<1> DEFINE cut == [k \in 0..0 |-> 0]
<1>3. cut \in [0..0 -> 0..0] /\ cut[0] = 0  OBVIOUS
<1>4. \A k \in 1..0 : FALSE  OBVIOUS
<1>5. \A j, k \in 0..0 : j <= k => cut[j] <= cut[k]  OBVIOUS
<1> HIDE DEF cut
<1>6. CutInto(w, w, torn)  BY <1>2, <1>3, <1>4, <1>5 DEF CutInto
<1> QED  BY <1>1, <1>6

(* Whole batches may be called torn.                                       *)
LEMMA CutAnyway ==
    ASSUME NEW w, NEW bs, NEW torn, CutInto(w, bs, FALSE)
    PROVE  CutInto(w, bs, torn)
  BY DEF CutInto

(* The end of the last batch is given up.                                  *)
LEMMA CutTorn ==
    ASSUME NEW S, NEW w \in Seq(S), NEW t \in Seq(S), NEW bs \in Seq(Seq(S)), bs # <<>>,
           CutInto(w \o t, bs, FALSE), Len(t) <= Len(bs[Len(bs)])
    PROVE  CutInto(w, bs, TRUE)
<1>1. PICK n \in Nat : n = Len(bs)  OBVIOUS
<1>2. PICK x \in Seq(S) : x = w \o t  BY ConcatProperties
<1>3. PICK p \in Nat : p = Len(w)  OBVIOUS
<1>4. Len(x) = p + Len(t) /\ Len(t) \in Nat /\ n >= 1  BY <1>1, <1>2, <1>3, ConcatProperties
<1>5. PICK cut \in [0..n -> 0..Len(x)] :
        /\ cut[0] = 0 /\ cut[n] = Len(x)
        /\ \A j, k \in 0..n : j <= k => cut[j] <= cut[k]
        /\ \A k \in 1..n : SubSeq(x, cut[k - 1] + 1, cut[k]) = bs[k]
  BY <1>1, <1>2 DEF CutInto
<1>6. \A k \in 0..n : cut[k] \in Nat  BY <1>5
<1>7. PICK u \in Nat : u = cut[n - 1]  BY <1>4, <1>6
<1>8. u <= Len(x)  BY <1>4, <1>5, <1>7
<1>9. Len(bs[n]) = Len(x) - u
  <2>1. n \in 1..n /\ Len(x) \in Nat /\ Len(x) <= Len(x)  BY <1>4
  <2>2. bs[n] = SubSeq(x, u + 1, Len(x))  BY <1>5, <1>7, <2>1
  <2>3. Len(SubSeq(x, u + 1, Len(x))) = Len(x) - u  BY <1>8, <2>1, PartIs
  <2> QED  BY <2>2, <2>3
<1>10. u <= p  BY <1>1, <1>4, <1>8, <1>9
<1>11. \A k \in 0..(n - 1) : cut[k] <= p
  <2>1. ASSUME NEW k \in 0..(n - 1)  PROVE cut[k] <= u /\ cut[k] \in Nat
    <3>1. k \in 0..n /\ n - 1 \in 0..n /\ k <= n - 1  BY <1>4
    <3> QED  BY <1>5, <1>6, <1>7, <3>1
  <2> QED  BY <1>10, <2>1
<1> DEFINE new == [k \in 0..n |-> IF k = n THEN p ELSE cut[k]]
<1>12. /\ new \in [0..n -> 0..p]
       /\ new[n] = p /\ \A k \in 0..(n - 1) : new[k] = cut[k]
  <2>1. ASSUME NEW k \in 0..n  PROVE (IF k = n THEN p ELSE cut[k]) \in 0..p
    <3>1. k # n => k \in 0..(n - 1)  OBVIOUS
    <3> QED  BY <1>6, <1>11, <3>1
  <2>2. new \in [0..n -> 0..p]  BY <2>1
  <2>3. n \in 0..n  BY <1>4
  <2>4. ASSUME NEW k \in 0..(n - 1)  PROVE k \in 0..n /\ k # n  OBVIOUS
  <2> QED  BY <2>2, <2>3, <2>4
<1> HIDE DEF new
<1>13. new[0] = 0
  <2>1. 0 \in 0..(n - 1)  BY <1>4
  <2> QED  BY <1>5, <1>12, <2>1
<1>14. ASSUME NEW j \in 0..n, NEW k \in 0..n, j <= k  PROVE new[j] <= new[k]
  <2>1. CASE k = n
    <3>1. new[j] \in 0..p  BY <1>12
    <3> QED  BY <1>12, <2>1, <3>1
  <2>2. CASE k # n
    <3>1. k \in 0..(n - 1) /\ j \in 0..(n - 1)  BY <1>14, <2>2
    <3> QED  BY <1>5, <1>12, <1>14, <3>1
  <2> QED  BY <2>1, <2>2
<1>15. ASSUME NEW k \in 1..n, k # n  PROVE SubSeq(w, new[k - 1] + 1, new[k]) = bs[k]
  <2>1. k - 1 \in 0..(n - 1) /\ k \in 0..(n - 1) /\ k - 1 \in 0..n /\ k \in 0..n /\ k - 1 <= k
    BY <1>15
  <2>2. PICK a \in Nat : a = cut[k - 1]  BY <1>6, <2>1
  <2>3. PICK b \in Nat : b = cut[k]  BY <1>6, <2>1
  <2>4. a <= b /\ b <= Len(w)  BY <1>3, <1>5, <1>11, <2>1, <2>2, <2>3
  <2>5. SubSeq(w \o t, a + 1, b) = SubSeq(w, a + 1, b)  BY <2>4, PartOfConcat
  <2> QED  BY <1>2, <1>5, <1>12, <2>1, <2>2, <2>3, <2>5
<1>16. IsPrefix(SubSeq(w, u + 1, p), bs[n])
  <2>1. n \in 1..n /\ Len(x) \in Nat /\ p <= Len(x) /\ Len(x) <= Len(x) /\ p <= Len(w)
    BY <1>3, <1>4
  <2>2. bs[n] = SubSeq(x, u + 1, Len(x))  BY <1>5, <1>7, <2>1
  <2>3. IsPrefix(SubSeq(x, u + 1, p), SubSeq(x, u + 1, Len(x)))  BY <1>10, <2>1, PartPrefix
  <2>4. SubSeq(w \o t, u + 1, p) = SubSeq(w, u + 1, p)  BY <1>10, <2>1, PartOfConcat
  <2> QED  BY <1>2, <2>2, <2>3, <2>4
<1>17. n - 1 \in 0..(n - 1)  BY <1>4
<1>18. \A k \in 1..n : \/ SubSeq(w, new[k - 1] + 1, new[k]) = bs[k]
                       \/ k = n /\ IsPrefix(SubSeq(w, new[k - 1] + 1, new[k]), bs[k])
  <2>1. new[n - 1] = u /\ new[n] = p  BY <1>7, <1>12, <1>17
  <2> QED  BY <1>15, <1>16, <2>1
<1> QED  BY <1>1, <1>3, <1>12, <1>13, <1>14, <1>18 DEF CutInto

-----------------------------------------------------------------------------
(* What a client has written and has still to write *)

LEMMA ConcatAppend ==
    ASSUME NEW S, NEW x \in Seq(S), NEW y \in Seq(S), NEW h \in S
    PROVE  x \o Append(y, h) = Append(x \o y, h)
<1>1. x \o y \in Seq(S) /\ <<h>> \in Seq(S)  BY ConcatProperties
<1>2. Append(y, h) = y \o <<h>>  BY AppendIsConcat
<1>3. Append(x \o y, h) = (x \o y) \o <<h>>  BY <1>1, AppendIsConcat
<1>4. x \o (y \o <<h>>) = (x \o y) \o <<h>>  BY <1>1, ConcatAssociative
<1> QED  BY <1>2, <1>3, <1>4

(* What the types say about one connection.                                *)
LEMMA AnyTypesAt ==
    ASSUME ClientInv, AnyServerTypes, NEW c \in Conns
    PROVE  /\ taken[c] \in Seq(FrameSet) /\ c2s[c] \in Seq(FrameSet)
           /\ wbuf[c] \in Seq(FrameSet) /\ tofeed[c] \in Seq(FrameSet)
           /\ sent[c] \in Seq(Seq(Event)) /\ outcome[c] \in Seq(Results)
           /\ seen[c] \in Seq(Nat \X FrameSet) /\ s2c[c] \in Seq(Answers)
           /\ cpc[c] \in ClientPcs
           /\ cEnd[c] \in {"open", "closed"} /\ sEnd[c] \in {"open", "closed"}
  BY DEF ClientInv, TransportTypeOK, ClientTypeOK, AnyServerTypes, Ends

(* The row of a connection, and the batches it is made of.                 *)
LEMMA RowType ==
    ASSUME ClientInv, AnyServerTypes, NEW c \in Conns
    PROVE  /\ taken[c] \o c2s[c] \in Seq(FrameSet)
           /\ (taken[c] \o c2s[c]) \o wbuf[c] \in Seq(FrameSet)
           /\ Row(c) \in Seq(FrameSet)
<1>1. /\ taken[c] \in Seq(FrameSet) /\ c2s[c] \in Seq(FrameSet)
      /\ wbuf[c] \in Seq(FrameSet) /\ tofeed[c] \in Seq(FrameSet)
  BY AnyTypesAt
<1>2. taken[c] \o c2s[c] \in Seq(FrameSet)  BY <1>1, ConcatProperties
<1>3. (taken[c] \o c2s[c]) \o wbuf[c] \in Seq(FrameSet)  BY <1>1, <1>2, ConcatProperties
<1>4. ((taken[c] \o c2s[c]) \o wbuf[c]) \o tofeed[c] \in Seq(FrameSet)
  BY <1>1, <1>3, ConcatProperties
<1> QED  BY <1>2, <1>3, <1>4 DEF Row

LEMMA BatchesType ==
    ASSUME ClientInv, AnyServerTypes, NEW c \in Conns
    PROVE  /\ BatchesOf(c) \in Seq(Seq(FrameSet)) /\ Len(BatchesOf(c)) = Len(sent[c])
           /\ \A k \in 1..Len(sent[c]) : BatchesOf(c)[k] = BatchOf(c, k)
<1>1. sent[c] \in Seq(Seq(Event)) /\ Len(sent[c]) \in Nat  BY AnyTypesAt
<1>2. ASSUME NEW k \in 1..Len(sent[c])  PROVE BatchOf(c, k) \in Seq(FrameSet)
  <2>1. sent[c][k] \in Seq(Event)  BY <1>1
  <2>2. BatchFrames(c, sent[c][k]) \in Seq(FrameSet)  BY <2>1, BatchFramesType
  <2>3. <<>> \in Seq(FrameSet)  OBVIOUS
  <2> QED  BY <2>2, <2>3 DEF BatchOf
<1> QED  BY <1>1, <1>2 DEF BatchesOf

-----------------------------------------------------------------------------
(* What a step can do to a connection *)

(* What the invariant says of one connection.                              *)
Good(c) == Counted(c) /\ Reads(c) /\ Batched(c)

(* Nothing of the connection changes.                                      *)
LEMMA Untouched ==
    ASSUME NEW c, Good(c),
           cpc'[c] = cpc[c], sent'[c] = sent[c], outcome'[c] = outcome[c],
           seen'[c] = seen[c], tofeed'[c] = tofeed[c], cEnd'[c] = cEnd[c],
           sEnd'[c] = sEnd[c], Row(c)' = Row(c)
    PROVE  Good(c)'
<1>1. BatchesOf(c)' = BatchesOf(c)  BY DEF BatchesOf, BatchOf, BatchFrames
<1>2. Counted(c)'  BY DEF Good, Counted, InSend
<1>3. Reads(c)'  BY DEF Good, Reads, InSend, ReadBy, CoveredFirst
<1>4. Batched(c)'  BY <1>1 DEF Good, Batched, InSend, Broken
<1> QED  BY <1>2, <1>3, <1>4 DEF Good

(* No call is under way any more, and none has returned.                   *)
LEMMA Quiet ==
    ASSUME NEW c, Good(c), ~InSend(c)', tofeed'[c] = <<>>,
           sent'[c] = sent[c], outcome'[c] = outcome[c], seen'[c] = seen[c],
           cpc'[c] # "closed" => ~InSend(c) /\ cpc[c] # "closed" /\ cEnd'[c] = "open",
           cEnd'[c] = "open" /\ sEnd'[c] = "open" =>
               cEnd[c] = "open" /\ sEnd[c] = "open" /\ Row(c)' = Row(c)
    PROVE  Good(c)'
<1>1. BatchesOf(c)' = BatchesOf(c)  BY DEF BatchesOf, BatchOf, BatchFrames
<1>2. Counted(c)'  BY DEF Good, Counted
<1>3. Reads(c)'  BY DEF Good, Reads, ReadBy, CoveredFirst
<1>4. Batched(c)'  BY <1>1 DEF Good, Batched, InSend, Broken
<1> QED  BY <1>2, <1>3, <1>4 DEF Good

(* The call under way goes on, or the server does something: nothing was   *)
(* read, and no frame was added to the row or taken from it.               *)
LEMMA Moves ==
    ASSUME NEW c, Good(c), InSend(c)' <=> InSend(c),
           cpc'[c] = "closed" <=> cpc[c] = "closed",
           cpc[c] = "wait" => cpc'[c] = "wait",
           cpc'[c] \in {"flush", "wait"} => tofeed'[c] = <<>>,
           Len(tofeed[c]) \in Nat, Len(tofeed'[c]) \in Nat,
           Len(tofeed'[c]) <= Len(tofeed[c]), tofeed[c] = <<>> => tofeed'[c] = <<>>,
           Len(BatchFrames(c, sent[c][Len(sent[c])])) \in Nat,
           sent'[c] = sent[c], outcome'[c] = outcome[c], seen'[c] = seen[c],
           cEnd'[c] = cEnd[c],
           sEnd'[c] = "open" => sEnd[c] = "open" /\ Row(c)' = Row(c)
    PROVE  Good(c)'
<1>1. BatchesOf(c)' = BatchesOf(c)  BY DEF BatchesOf, BatchOf, BatchFrames
<1>2. Counted(c)'  BY DEF Good, Counted
<1>3. Reads(c)'
  <2>1. InSend(c)' => \A i \in ReadBy(seen'[c], Len(sent'[c])) :
           cpc'[c] = "wait" /\ PartialAck(seen'[c][i][2], Len(sent'[c][Len(sent'[c])]))
    BY DEF Good, Reads
  <2> QED  BY <2>1 DEF Good, Reads
<1>4. Batched(c)'
  <2>1. tofeed'[c] # <<>> => InSend(c)' /\ tofeed[c] # <<>>  BY DEF Good, Batched
  <2>2. BatchFrames(c, sent'[c][Len(sent'[c])]) = BatchFrames(c, sent[c][Len(sent[c])])
    OBVIOUS
  <2>3. Len(tofeed'[c]) <= Len(BatchFrames(c, sent[c][Len(sent[c])])) \/ tofeed'[c] = <<>>
    BY <2>1 DEF Good, Batched
  <2>4. Broken(c)' = Broken(c)  BY DEF Broken
  <2>5. InSend(c)' /\ c \notin Reusing => ~Broken(c)'  BY <2>4 DEF Good, Batched
  <2>6. c \notin Reusing /\ cEnd'[c] = "open" /\ sEnd'[c] = "open" =>
           CutInto(Row(c)', BatchesOf(c)', Broken(c)')
    BY <1>1, <2>4, ZenonT(30) DEF Good, Batched
  <2> QED  BY <2>1, <2>2, <2>3, <2>5, <2>6 DEF Batched
<1> QED  BY <1>2, <1>3, <1>4 DEF Good

(* The call under way returns r.  Of the row only t is given up, frames of *)
(* its own batch, and nothing if it returns Ok.                            *)
LEMMA Returns ==
    ASSUME ClientInv, AnyServerTypes, NEW c \in Conns, Good(c), InSend(c),
           NEW r \in Results, Return(c, r), sent'[c] = sent[c], cEnd'[c] = cEnd[c],
           sEnd'[c] = sEnd[c],
           IF r.ok THEN r.err = "none" ELSE r.err \notin {"none", "Serialization"},
           seen'[c] = seen[c] \/ \E f \in FrameSet : seen'[c] = Append(seen[c], <<Len(sent[c]), f>>),
           r.ok => CoveredFirst(seen'[c], Len(sent[c]), Len(sent[c][Len(sent[c])])),
           NEW w \in Seq(FrameSet), NEW t \in Seq(FrameSet), Row(c) = w \o t, Row(c)' = w,
           Len(t) <= Len(tofeed[c]), r.ok => t = <<>>
    PROVE  Good(c)'
<1>0. /\ tofeed[c] \in Seq(FrameSet) /\ sent[c] \in Seq(Seq(Event))
      /\ outcome[c] \in Seq(Results) /\ seen[c] \in Seq(Nat \X FrameSet)
  BY AnyTypesAt
<1>1. PICK n \in Nat : n = Len(sent[c])  BY <1>0
<1>2. Len(outcome[c]) + 1 = n /\ sent[c][n] # <<>>  BY <1>1 DEF Good, Counted
<1>3. n >= 1 /\ Len(outcome[c]) = n - 1  BY <1>0, <1>1, <1>2
<1>4. cpc'[c] = "idle" /\ tofeed'[c] = <<>> /\ outcome'[c] = Append(outcome[c], r)
  BY DEF Return, ClientInv, ClientTypeOK
<1>5. PICK o \in Seq(Results) : o = outcome[c]  BY <1>0
<1>6. /\ Len(outcome'[c]) = n /\ outcome'[c][n] = r /\ DOMAIN outcome'[c] = 1..n
      /\ \A k \in 1..(n - 1) : outcome'[c][k] = outcome[c][k]
  BY <1>3, <1>4, <1>5, AppendProperties
<1>7. ~InSend(c)'  BY <1>4 DEF InSend
<1>8. Counted(c)'
  <2>1. cEnd'[c] = "open"  BY DEF Good, Counted, InSend
  <2> QED  BY <1>1, <1>6, <1>7, <2>1 DEF Good, Counted
<1>9. Reads(c)'
  <2>1. \A i \in DOMAIN seen'[c] : seen'[c][i][1] \in Nat /\ seen'[c][i][1] <= n
    <3>1. \A i \in DOMAIN seen[c] : seen[c][i][1] \in Nat /\ seen[c][i][1] <= n
      BY <1>1 DEF Good, Reads
    <3>2. ASSUME NEW f \in FrameSet, seen'[c] = Append(seen[c], <<n, f>>),
                 NEW i \in DOMAIN seen'[c]
          PROVE  seen'[c][i][1] \in Nat /\ seen'[c][i][1] <= n
      <4>1. PICK s \in Seq(Nat \X FrameSet) : s = seen[c]  BY <1>0
      <4>2. <<n, f>> \in Nat \X FrameSet  OBVIOUS
      <4>3. PICK p \in Nat \X FrameSet : p = <<n, f>>  BY <4>2
      <4>4. i \in 1..Len(s) + 1 /\ DOMAIN s = 1..Len(s)
        BY <3>2, <4>1, <4>3, AppendProperties
      <4>5. CASE i = Len(s) + 1
        BY <3>2, <4>1, <4>3, <4>5, AppendProperties
      <4>6. CASE i # Len(s) + 1
        <5>1. i \in 1..Len(s)  BY <4>4, <4>6
        <5>2. seen'[c][i] = s[i]  BY <3>2, <4>1, <4>3, <5>1, AppendProperties
        <5> QED  BY <3>1, <4>1, <4>4, <5>1, <5>2
      <4> QED  BY <4>5, <4>6
    <3> QED  BY <1>1, <3>1, <3>2
  <2>2. ASSUME NEW k \in 1..n, outcome'[c][k].ok, sent'[c][k] # <<>>
        PROVE  CoveredFirst(seen'[c], k, Len(sent'[c][k]))
    <3>1. CASE k = n  BY <1>1, <1>6, <2>2, <3>1
    <3>2. CASE k # n
      <4>1. k \in 1..(n - 1) /\ k \in DOMAIN outcome[c]  BY <1>0, <1>3, <3>2
      <4>2. CoveredFirst(seen[c], k, Len(sent[c][k]))
        BY <1>6, <2>2, <4>1 DEF Good, Reads
      <4>3. ASSUME NEW f \in FrameSet, seen'[c] = Append(seen[c], <<n, f>>)
            PROVE  CoveredFirst(seen'[c], k, Len(sent[c][k]))
        <5>1. PICK p \in Nat \X FrameSet : p = <<n, f>>  OBVIOUS
        <5>2. p[1] # k  BY <3>2, <5>1
        <5> QED  BY <1>0, <4>2, <4>3, <5>1, <5>2, CoveredStays
      <4> QED  BY <1>1, <4>2, <4>3
    <3> QED  BY <3>1, <3>2
  <2> QED  BY <1>1, <1>6, <1>7, <2>1, <2>2 DEF Reads
<1>10. Batched(c)'
  <2>1. ASSUME NEW k \in 1..n  PROVE BatchOf(c, k)' = BatchOf(c, k)
    <3>1. BatchFrames(c, sent'[c][k]) = BatchFrames(c, sent[c][k])  OBVIOUS
    <3>2. CASE k = n
      <4>1. ~(k \in DOMAIN outcome[c])  BY <1>0, <1>3, <3>2
      <4>2. outcome'[c][k].err # "Serialization"  BY <1>6, <3>2
      <4> QED  BY <3>1, <4>1, <4>2 DEF BatchOf
    <3>3. CASE k # n
      <4>1. k \in 1..(n - 1) /\ k \in DOMAIN outcome[c] /\ k \in DOMAIN outcome'[c]
        BY <1>0, <1>3, <1>6, <3>3
      <4> QED  BY <1>6, <3>1, <4>1 DEF BatchOf
    <3> QED  BY <3>2, <3>3
  <2>2. BatchesOf(c)' = BatchesOf(c)  BY <1>1, <2>1 DEF BatchesOf
  <2>3. ASSUME c \notin Reusing, cEnd'[c] = "open", sEnd'[c] = "open"
        PROVE  CutInto(Row(c)', BatchesOf(c)', Broken(c)')
    <3>1. Broken(c) = FALSE /\ CutInto(Row(c), BatchesOf(c), Broken(c))
      BY <2>3 DEF Good, Batched
    <3>2. CutInto(Row(c), BatchesOf(c), FALSE)  BY <3>1
    <3>3. CASE r.ok
      <4>1. w \o <<>> = w  BY ConcatEmptySeq
      <4> QED  BY <2>2, <3>2, <3>3, <4>1, CutAnyway
    <3>4. CASE ~r.ok
      <4>1. Broken(c)' = TRUE
        <5>1. n \in DOMAIN outcome'[c] /\ outcome'[c][n].err \notin {"none", "Serialization"}
          BY <1>3, <1>6, <3>4
        <5> QED  BY <5>1 DEF Broken
      <4>2. /\ BatchesOf(c) \in Seq(Seq(FrameSet)) /\ Len(BatchesOf(c)) = n
            /\ BatchesOf(c)[n] = BatchOf(c, n)
        BY <1>1, <1>3, BatchesType
      <4>3. BatchOf(c, n) = BatchFrames(c, sent[c][n])
        <5>1. ~(n \in DOMAIN outcome[c])  BY <1>0, <1>3
        <5> QED  BY <1>2, <5>1 DEF BatchOf
      <4>4. Len(t) <= Len(BatchFrames(c, sent[c][n]))
        <5>1. sent[c][n] \in Seq(Event)  BY <1>0, <1>1, <1>3
        <5>2. BatchFrames(c, sent[c][n]) \in Seq(FrameSet)  BY <5>1, BatchFramesType
        <5>3. CASE tofeed[c] = <<>>
          BY <1>0, <5>2, <5>3
        <5>4. CASE tofeed[c] # <<>>
          <6>1. Len(tofeed[c]) <= Len(BatchFrames(c, sent[c][n]))
            BY <1>1, <5>4 DEF Good, Batched
          <6> QED  BY <1>0, <5>2, <6>1
        <5> QED  BY <5>3, <5>4
      <4>5. BatchesOf(c) # <<>>  BY <1>3, <4>2
      <4>6. CutInto(w, BatchesOf(c), TRUE)
        <5>1. PICK bs \in Seq(Seq(FrameSet)) : bs = BatchesOf(c)  BY <4>2
        <5>2. Len(t) <= Len(bs[Len(bs)])  BY <4>2, <4>3, <4>4, <5>1
        <5> QED  BY <3>2, <4>5, <5>1, <5>2, CutTorn
      <4> QED  BY <2>2, <4>1, <4>6
    <3> QED  BY <3>3, <3>4
  <2> QED  BY <1>4, <1>7, <2>3 DEF Batched
<1> QED  BY <1>8, <1>9, <1>10 DEF Good

(* One more call, with its batch b: nothing that was read is its own, and  *)
(* the batches of those before stay as they were.                          *)
LEMMA OneMore ==
    ASSUME ClientInv, AnyServerTypes, NEW c \in Conns, Good(c), cpc[c] = "idle",
           NEW evs \in Seq(Event), sent'[c] = Append(sent[c], evs), seen'[c] = seen[c],
           NEW m \in Nat, m = Len(sent[c]) + 1, NEW b \in Seq(FrameSet), b = BatchOf(c, m)',
           \A k \in DOMAIN sent[c] : k \in DOMAIN outcome'[c] /\ outcome'[c][k] = outcome[c][k]
    PROVE  /\ Len(sent'[c]) = Len(sent[c]) + 1 /\ sent'[c][Len(sent[c]) + 1] = evs
           /\ \A k \in DOMAIN sent[c] : sent'[c][k] = sent[c][k]
           /\ Len(outcome[c]) = Len(sent[c])
           /\ DOMAIN outcome[c] = DOMAIN sent[c]
           /\ ReadBy(seen'[c], Len(sent'[c])) = {}
           /\ \A i \in DOMAIN seen'[c] : seen'[c][i][1] \in Nat
                                            /\ seen'[c][i][1] <= Len(sent'[c])
           /\ BatchesOf(c)' = Append(BatchesOf(c), b)
<1>0. /\ sent[c] \in Seq(Seq(Event)) /\ outcome[c] \in Seq(Results)
      /\ seen[c] \in Seq(Nat \X FrameSet)
  BY AnyTypesAt
<1>1. PICK n \in Nat : n = Len(sent[c])  BY <1>0
<1>2. Len(outcome[c]) = n  BY <1>1 DEF Good, Counted, InSend
<1>3. /\ Len(sent'[c]) = n + 1 /\ sent'[c][n + 1] = evs
      /\ \A k \in 1..n : sent'[c][k] = sent[c][k]
  <2>1. PICK s \in Seq(Seq(Event)) : s = sent[c]  BY <1>0
  <2> QED  BY <1>1, <2>1, AppendProperties
<1>4. DOMAIN sent[c] = 1..n /\ DOMAIN outcome[c] = 1..n  BY <1>0, <1>1, <1>2
<1>5. \A i \in DOMAIN seen[c] : seen[c][i][1] \in Nat /\ seen[c][i][1] <= n
  BY <1>1 DEF Good, Reads
<1>6. /\ ReadBy(seen'[c], n + 1) = {}
      /\ \A i \in DOMAIN seen'[c] : seen'[c][i][1] \in Nat /\ seen'[c][i][1] <= n + 1
  BY <1>5 DEF ReadBy
<1>7. ASSUME NEW k \in 1..n  PROVE BatchOf(c, k)' = BatchOf(c, k)
  <2>1. sent'[c][k] = sent[c][k]  BY <1>3
  <2>2. k \in DOMAIN outcome[c] /\ k \in DOMAIN outcome'[c] /\ outcome'[c][k] = outcome[c][k]
    BY <1>4
  <2> QED  BY <2>1, <2>2 DEF BatchOf
<1>8. BatchesOf(c)' = Append(BatchesOf(c), b)
  <2>1. PICK bs \in Seq(Seq(FrameSet)) : bs = BatchesOf(c)  BY BatchesType
  <2>2. Len(bs) = n /\ \A k \in 1..n : bs[k] = BatchOf(c, k)  BY <1>1, <2>1, BatchesType
  <2>3. PICK cs \in Seq(Seq(FrameSet)) : cs = Append(bs, b)  BY AppendProperties
  <2>4. Len(cs) = n + 1 /\ cs[n + 1] = b /\ \A k \in 1..n : cs[k] = bs[k]
    BY <2>2, <2>3, AppendProperties
  <2>5. BatchesOf(c)' = [k \in 1..(n + 1) |-> BatchOf(c, k)']  BY <1>3 DEF BatchesOf
  <2>6. ASSUME NEW k \in 1..(n + 1)  PROVE cs[k] = BatchOf(c, k)'
    <3>1. CASE k = n + 1  BY <1>1, <2>4, <3>1
    <3>2. CASE k # n + 1
      <4>1. k \in 1..n  BY <3>2
      <4> QED  BY <1>7, <2>2, <2>4, <4>1
    <3> QED  BY <3>1, <3>2
  <2>7. cs = [k \in 1..(n + 1) |-> cs[k]]  BY <2>3, <2>4
  <2>8. cs = [k \in 1..(n + 1) |-> BatchOf(c, k)']  BY <2>6, <2>7
  <2> QED  BY <2>1, <2>3, <2>5, <2>8
<1> QED  BY <1>1, <1>2, <1>3, <1>4, <1>6, <1>8

(* A call with something to write begins.                                  *)
LEMMA Begins ==
    ASSUME ClientInv, AnyServerTypes, NEW c \in Conns, Good(c), cpc[c] = "idle",
           c \in Reusing \/ ~Broken(c),
           NEW evs \in Seq(Event), evs # <<>>, Len(evs) < U32,
           sent'[c] = Append(sent[c], evs), outcome'[c] = outcome[c], seen'[c] = seen[c],
           cEnd'[c] = cEnd[c], sEnd'[c] = sEnd[c],
           tofeed'[c] = BatchFrames(c, evs), cpc'[c] \in {"feed", "drain"},
           Row(c)' = Row(c) \o BatchFrames(c, evs)
    PROVE  Good(c)'
<1>0. /\ sent[c] \in Seq(Seq(Event)) /\ outcome[c] \in Seq(Results)
      /\ BatchFrames(c, evs) \in Seq(FrameSet) /\ Row(c) \in Seq(FrameSet)
  BY AnyTypesAt, BatchFramesType, RowType
<1>1. PICK n \in Nat : n = Len(sent[c])  BY <1>0
<1>2. Len(outcome[c]) = n  BY <1>1 DEF Good, Counted, InSend
<1>3. DOMAIN sent[c] = 1..n /\ DOMAIN outcome[c] = 1..n  BY <1>0, <1>1, <1>2
<1>4. sent'[c][n + 1] = evs
  <2>1. PICK s \in Seq(Seq(Event)) : s = sent[c]  BY <1>0
  <2> QED  BY <1>1, <2>1, AppendProperties
<1>5. BatchOf(c, n + 1)' = BatchFrames(c, evs)
  <2>1. ~(n + 1 \in DOMAIN outcome'[c])  BY <1>3
  <2> QED  BY <1>1, <1>4, <2>1 DEF BatchOf
<1>6. /\ Len(sent'[c]) = n + 1
      /\ \A k \in 1..n : sent'[c][k] = sent[c][k]
      /\ ReadBy(seen'[c], n + 1) = {}
      /\ \A i \in DOMAIN seen'[c] : seen'[c][i][1] \in Nat /\ seen'[c][i][1] <= n + 1
      /\ BatchesOf(c)' = Append(BatchesOf(c), BatchFrames(c, evs))
  <2>1. PICK m \in Nat : m = n + 1  OBVIOUS
  <2> QED  BY <1>0, <1>1, <1>3, <1>5, <2>1, OneMore, ZenonT(40)
<1>7. InSend(c)' /\ cpc'[c] # "closed" /\ cEnd'[c] = "open"
  BY DEF InSend, Good, Counted
<1>8. Counted(c)'
  <2>1. \A k \in 1..(n + 1) : Len(sent'[c][k]) < U32
    <3>1. \A k \in 1..n : Len(sent[c][k]) < U32  BY <1>3 DEF Good, Counted
    <3>2. ASSUME NEW k \in 1..(n + 1)  PROVE k = n + 1 \/ k \in 1..n  OBVIOUS
    <3> QED  BY <1>4, <1>6, <3>1, <3>2
  <2>2. DOMAIN sent'[c] = 1..(n + 1)
    <3>1. PICK s \in Seq(Seq(Event)) : s = sent[c]  BY <1>0
    <3> QED  BY <1>1, <3>1, AppendProperties
  <2> QED  BY <1>2, <1>4, <1>6, <1>7, <2>1, <2>2 DEF Counted
<1>9. Reads(c)'
  <2>1. ASSUME NEW k \in DOMAIN outcome'[c], outcome'[c][k].ok, sent'[c][k] # <<>>
        PROVE  CoveredFirst(seen'[c], k, Len(sent'[c][k]))
    <3>1. k \in 1..n /\ sent'[c][k] = sent[c][k]  BY <1>3, <1>6
    <3> QED  BY <2>1, <3>1 DEF Good, Reads
  <2> QED  BY <1>6, <2>1 DEF Reads
<1>10. Batched(c)'
  <2>1. Len(tofeed'[c]) <= Len(BatchFrames(c, sent'[c][Len(sent'[c])]))
    BY <1>0, <1>4, <1>6
  <2>2. Broken(c)' = Broken(c)  BY DEF Broken
  <2>3. ASSUME c \notin Reusing, cEnd'[c] = "open", sEnd'[c] = "open"
        PROVE  CutInto(Row(c)', BatchesOf(c)', Broken(c)')
    <3>1. CutInto(Row(c), BatchesOf(c), Broken(c)) /\ Broken(c) = FALSE
      BY <2>3 DEF Good, Batched
    <3>2. CutInto(Row(c), BatchesOf(c), FALSE)  BY <3>1
    <3>3. BatchesOf(c) \in Seq(Seq(FrameSet))  BY BatchesType
    <3>4. CutInto(Row(c) \o BatchFrames(c, evs), Append(BatchesOf(c), BatchFrames(c, evs)), FALSE)
      BY <1>0, <3>2, <3>3, CutNext
    <3> QED  BY <1>6, <2>2, <3>1, <3>4
  <2> QED  BY <1>7, <2>1, <2>2, <2>3 DEF Batched
<1> QED  BY <1>8, <1>9, <1>10 DEF Good

(* A call that returns before it has written anything: an empty batch, or  *)
(* an event that cannot be serialized.                                     *)
LEMMA BeginsAndReturns ==
    ASSUME ClientInv, AnyServerTypes, NEW c \in Conns, Good(c), cpc[c] = "idle",
           c \in Reusing \/ ~Broken(c),
           NEW evs \in Seq(Event), Len(evs) < U32, NEW r \in Results,
           r.err \in {"none", "Serialization"},
           evs = <<>> \/ (r.err = "Serialization" /\ ~r.ok),
           sent'[c] = Append(sent[c], evs), outcome'[c] = Append(outcome[c], r),
           seen'[c] = seen[c], cEnd'[c] = cEnd[c], sEnd'[c] = sEnd[c],
           tofeed'[c] = <<>>, cpc'[c] = "idle", Row(c)' = Row(c)
    PROVE  Good(c)'
<1>0. /\ sent[c] \in Seq(Seq(Event)) /\ outcome[c] \in Seq(Results)
      /\ Row(c) \in Seq(FrameSet)
  BY AnyTypesAt, RowType
<1>1. PICK n \in Nat : n = Len(sent[c])
  <2>1. Len(sent[c]) \in Nat  BY <1>0, LenProperties, Zenon
  <2> QED  BY <2>1, Zenon
<1>2. Len(outcome[c]) = n  BY <1>1 DEF Good, Counted, InSend
<1>3. DOMAIN sent[c] = 1..n /\ DOMAIN outcome[c] = 1..n  BY <1>0, <1>1, <1>2
<1>4. sent'[c][n + 1] = evs /\ DOMAIN sent'[c] = 1..(n + 1)
  <2>1. PICK s \in Seq(Seq(Event)) : s = sent[c]  BY <1>0
  <2> QED  BY <1>1, <2>1, AppendProperties
<1>5. /\ Len(outcome'[c]) = n + 1 /\ outcome'[c][n + 1] = r /\ DOMAIN outcome'[c] = 1..(n + 1)
      /\ \A k \in 1..n : outcome'[c][k] = outcome[c][k]
  <2>1. PICK o \in Seq(Results) : o = outcome[c]  BY <1>0
  <2> QED  BY <1>2, <2>1, AppendProperties
<1>6. BatchOf(c, n + 1)' = <<>>
  <2>1. n + 1 \in DOMAIN outcome'[c]  BY <1>5
  <2> QED  BY <1>1, <1>4, <1>5, <2>1 DEF BatchOf
<1>7. \A k \in 1..n : k \in DOMAIN outcome'[c]  BY <1>5
<1>8. /\ Len(sent'[c]) = n + 1
      /\ \A k \in 1..n : sent'[c][k] = sent[c][k]
      /\ \A i \in DOMAIN seen'[c] : seen'[c][i][1] \in Nat /\ seen'[c][i][1] <= n + 1
      /\ BatchesOf(c)' = Append(BatchesOf(c), <<>>)
  <2>1. PICK m \in Nat : m = n + 1  OBVIOUS
  <2>2. PICK b \in Seq(FrameSet) : b = <<>>  BY EmptySeq, Zenon
  <2>3. b = BatchOf(c, m)'  BY <1>6, <2>1, <2>2
  <2>4. \A k \in DOMAIN sent[c] : k \in DOMAIN outcome'[c] /\ outcome'[c][k] = outcome[c][k]
    BY <1>3, <1>5, <1>7
  <2>5. BatchesOf(c)' = Append(BatchesOf(c), b)  BY <1>1, <2>1, <2>3, <2>4, OneMore
  <2> QED  BY <1>1, <1>3, <2>1, <2>2, <2>3, <2>4, <2>5, OneMore
<1>9. ~InSend(c)' /\ cpc'[c] # "closed" /\ cEnd'[c] = "open"
  BY DEF InSend, Good, Counted
<1>10. Counted(c)'
  <2>1. \A k \in 1..(n + 1) : Len(sent'[c][k]) < U32
    <3>1. \A k \in 1..n : Len(sent[c][k]) < U32  BY <1>3 DEF Good, Counted
    <3>2. ASSUME NEW k \in 1..(n + 1)  PROVE k = n + 1 \/ k \in 1..n  OBVIOUS
    <3> QED  BY <1>4, <1>8, <3>1, <3>2
  <2> QED  BY <1>4, <1>5, <1>8, <1>9, <2>1 DEF Counted
<1>11. Reads(c)'
  <2>1. ASSUME NEW k \in DOMAIN outcome'[c], outcome'[c][k].ok, sent'[c][k] # <<>>
        PROVE  CoveredFirst(seen'[c], k, Len(sent'[c][k]))
    <3>1. k # n + 1  BY <1>4, <1>5, <2>1
    <3>2. k \in 1..n  BY <1>5, <3>1
    <3>3. sent'[c][k] = sent[c][k] /\ outcome'[c][k] = outcome[c][k]  BY <1>5, <1>8, <3>2
    <3> QED  BY <1>3, <2>1, <3>2, <3>3 DEF Good, Reads
  <2> QED  BY <1>8, <1>9, <2>1 DEF Reads
<1>12. Batched(c)'
  <2>1. ASSUME c \notin Reusing, cEnd'[c] = "open", sEnd'[c] = "open"
        PROVE  CutInto(Row(c)', BatchesOf(c)', Broken(c)')
    <3>1. CutInto(Row(c), BatchesOf(c), Broken(c)) /\ Broken(c) = FALSE
      BY <2>1 DEF Good, Batched
    <3>2. CutInto(Row(c), BatchesOf(c), FALSE)  BY <3>1
    <3>3. BatchesOf(c) \in Seq(Seq(FrameSet))  BY BatchesType
    <3>4. CutInto(Row(c) \o <<>>, Append(BatchesOf(c), <<>>), FALSE)
      <4>1. PICK b \in Seq(FrameSet) : b = <<>>  BY EmptySeq, Zenon
      <4> QED  BY <1>0, <3>2, <3>3, <4>1, CutNext
    <3>5. Row(c) \o <<>> = Row(c)  BY <1>0, ConcatEmptySeq
    <3> QED  BY <1>8, <3>4, <3>5, CutAnyway
  <2> QED  BY <1>9, <2>1 DEF Batched, InSend
<1> QED  BY <1>10, <1>11, <1>12 DEF Good

-----------------------------------------------------------------------------
(* Every step is one of those *)

(* The state of connection d is what it was.                               *)
Same(d) ==
    /\ cpc'[d] = cpc[d] /\ wbuf'[d] = wbuf[d] /\ tofeed'[d] = tofeed[d]
    /\ sent'[d] = sent[d] /\ outcome'[d] = outcome[d] /\ cEnd'[d] = cEnd[d]
    /\ sEnd'[d] = sEnd[d] /\ c2s'[d] = c2s[d] /\ taken'[d] = taken[d] /\ seen'[d] = seen[d]

LEMMA SameGood ==
    ASSUME NEW d, Good(d), Same(d)
    PROVE  Good(d)'
<1>1. Row(d)' = Row(d)  BY DEF Same, Row
<1> QED  BY <1>1, Untouched DEF Same

(* A step of one connection is none of another.                            *)
LEMMA OthersReturn ==
    ASSUME ClientInv, NEW c \in Conns, NEW d \in Conns, d # c, NEW r, Return(c, r)
    PROVE  cpc'[d] = cpc[d] /\ outcome'[d] = outcome[d] /\ tofeed'[d] = tofeed[d]
  BY DEF Return, ClientInv, ClientTypeOK

LEMMA OthersFeedOn ==
    ASSUME ClientInv, NEW c \in Conns, NEW d \in Conns, d # c, NEW buf, NEW rest,
           FeedOn(c, buf, rest)
    PROVE  /\ cpc'[d] = cpc[d] /\ outcome'[d] = outcome[d] /\ tofeed'[d] = tofeed[d]
           /\ wbuf'[d] = wbuf[d]
<1>1. wbuf'[d] = wbuf[d]  BY DEF FeedOn, ClientInv, ClientTypeOK
<1>2. CASE Return(c, Err("FrameTooLarge"))  BY <1>1, <1>2, OthersReturn
<1>3. CASE ~Return(c, Err("FrameTooLarge"))
  <2> DEFINE pc == IF rest = <<>> THEN "flush"
                   ELSE IF Len(buf) >= Boundary THEN "drain" ELSE "feed"
  <2>1. /\ tofeed' = [tofeed EXCEPT ![c] = rest]
        /\ cpc' = [cpc EXCEPT ![c] = pc]
        /\ outcome' = outcome
    BY <1>3 DEF FeedOn
  <2> HIDE DEF pc
  <2> QED  BY <1>1, <2>1 DEF ClientInv, ClientTypeOK
<1> QED  BY <1>2, <1>3

LEMMA OthersSame ==
    ASSUME ClientInv, AnyServerTypes, NEW c \in Conns, NEW d \in Conns, d # c,
           ClientStep(c) \/ AnyServerStep(c)
    PROVE  Same(d)
<1> USE DEF Same
<1>1. CASE AnyServerStep(c)
  <2>1. UNCHANGED <<cpc, wbuf, tofeed, sent, outcome, seen>>
    BY <1>1 DEF AnyServerStep, clientVars
  <2>2. /\ cEnd'[d] = cEnd[d] /\ sEnd'[d] = sEnd[d] /\ c2s'[d] = c2s[d]
        /\ taken'[d] = taken[d]
    BY <1>1 DEF AnyServerStep, ServerAccepts, ServerReads, ServerCloses, ServerAnswers,
                ClientInv, TransportTypeOK, AnyServerTypes
  <2> QED  BY <2>1, <2>2
<1>2. CASE ClientStep(c)
  <2>1. seen'[d] = seen[d] /\ taken'[d] = taken[d]
    BY <1>2 DEF ClientStep, AnyServerTypes
  <2>2. CASE Connect(c, TRUE) \/ ClientHandshake(c) \/ Close(c) \/ CloseFails(c)
    BY <2>1, <2>2 DEF Connect, ClientHandshake, Close, CloseFails, ClientInv,
                      ClientTypeOK, TransportTypeOK
  <2>3. CASE WriteOut(c)
    <3>1. c2s'[d] = c2s[d]  BY <2>3 DEF WriteOut, Written, ClientInv, TransportTypeOK
    <3>2. cpc'[d] = cpc[d] /\ cEnd'[d] = cEnd[d] /\ wbuf'[d] = wbuf[d]
      BY <2>3 DEF WriteOut, ClientInv, ClientTypeOK, TransportTypeOK
    <3> QED  BY <2>1, <2>3, <3>1, <3>2 DEF WriteOut
  <2>4. CASE WriteError(c) \/ WriteTimeout(c) \/ ReceiveEnd(c) \/ AckTimeout(c) \/ Cancel(c)
    <3>1. UNCHANGED <<wbuf, sent, transportVars>> /\ \E r : Return(c, r)
      BY <2>4 DEF WriteError, WriteTimeout, ReceiveEnd, AckTimeout, Cancel
    <3> QED  BY <2>1, <3>1, OthersReturn DEF transportVars
  <2>5. CASE Receive(c)
    <3>1. UNCHANGED <<link, cEnd, sEnd, c2s, wbuf, sent>>  BY <2>5 DEF Receive
    <3>2. (\E r : Return(c, r)) \/ UNCHANGED <<cpc, outcome, tofeed>>  BY <2>5 DEF Receive
    <3> QED  BY <2>1, <3>1, <3>2, OthersReturn
  <2>6. CASE Drop(c)
    <3>1. c2s'[d] = c2s[d]  BY <2>6 DEF Drop, Written, ClientInv, TransportTypeOK
    <3> QED  BY <2>1, <2>6, <3>1 DEF Drop, ClientInv, ClientTypeOK, TransportTypeOK
  <2>7. CASE Feed(c)
    BY <2>1, <2>7, OthersFeedOn DEF Feed, transportVars
  <2>8. ASSUME NEW sizes \in Batches, Send(c, sizes) \/ SerializeFails(c, sizes)
        PROVE  Same(d)
    <3>1. sent'[d] = sent[d] /\ UNCHANGED transportVars
      BY <2>8 DEF Send, SerializeFails, ClientInv, ClientTypeOK
    <3>2. \/ wbuf' = wbuf /\ \E r : Return(c, r)
          \/ \E buf, rest : FeedOn(c, buf, rest)
      BY <2>8 DEF Send, SerializeFails
    <3> QED  BY <2>1, <3>1, <3>2, OthersReturn, OthersFeedOn DEF transportVars
  <2> QED  BY <1>2, <2>2, <2>3, <2>4, <2>5, <2>6, <2>7, <2>8
           DEF ClientStep, ClientRuntime, ClientChoice
<1> QED  BY <1>1, <1>2

(* The pipe to the client loses its first frame, or everything.            *)
LEMMA PipeOfClientStep ==
    ASSUME ClientInv, AnyServerTypes, NEW c \in Conns, ClientStep(c)
    PROVE  \/ s2c' = s2c
           \/ s2c' = [s2c EXCEPT ![c] = <<>>] /\ cEnd'[c] = "closed"
           \/ s2c[c] # <<>> /\ s2c' = [s2c EXCEPT ![c] = Tail(@)] /\ Receive(c)
<1>1. CASE Connect(c, TRUE) \/ ClientHandshake(c) \/ Close(c) \/ CloseFails(c)
  BY <1>1 DEF Connect, ClientHandshake, Close, CloseFails, ClientInv, TransportTypeOK
<1>2. CASE WriteOut(c)
  BY <1>2 DEF WriteOut, ClientInv, TransportTypeOK
<1>3. CASE WriteError(c) \/ WriteTimeout(c) \/ ReceiveEnd(c) \/ AckTimeout(c) \/ Cancel(c) \/ Feed(c)
  BY <1>3 DEF WriteError, WriteTimeout, ReceiveEnd, AckTimeout, Cancel, Feed, transportVars
<1>4. CASE Receive(c)  BY <1>4 DEF Receive, Readable
<1>5. CASE Drop(c)  BY <1>5 DEF Drop, ClientInv, TransportTypeOK
<1>6. ASSUME NEW sizes \in Batches, Send(c, sizes) \/ SerializeFails(c, sizes)
      PROVE  s2c' = s2c
  BY <1>6 DEF Send, SerializeFails, transportVars
<1> QED  BY <1>1, <1>2, <1>3, <1>4, <1>5, <1>6 DEF ClientStep, ClientRuntime, ClientChoice

(* A frame is seen exactly when the ack loop reads it.                     *)
LEMMA SeenOfClientStep ==
    ASSUME ClientInv, AnyServerTypes, NEW c \in Conns, ClientStep(c), Counted(c)
    PROVE  /\ Receive(c) => seen' = [seen EXCEPT ![c] = Append(@, <<Len(sent[c]), Head(s2c[c])>>)]
           /\ ~Receive(c) => seen' = seen
<1>1. s2c[c] \in Seq(Answers) /\ s2c \in [Conns -> Seq(Answers)]
  BY AnyTypesAt DEF AnyServerTypes
<1>2. CASE Receive(c)
  <2>1. s2c[c] # <<>> /\ s2c'[c] = Tail(s2c[c]) /\ cpc[c] = "wait" /\ cEnd' = cEnd
    BY <1>1, <1>2 DEF Receive, Readable
  <2>2. Tail(s2c[c]) # s2c[c]
    <3>1. PICK s \in Seq(Answers) : s = s2c[c]  BY <1>1
    <3>2. Len(Tail(s)) = Len(s) - 1 /\ Len(s) \in Nat  BY <2>1, <3>1
    <3>3. Len(Tail(s)) # Len(s)  BY <3>2, SMTT(30)
    <3> QED  BY <3>1, <3>3
  <2>3. cEnd'[c] = "open"  BY <2>1 DEF Counted
  <2> QED  BY <1>2, <2>1, <2>2, <2>3 DEF ClientStep
<1>3. CASE ~Receive(c)
  <2>1. s2c' = s2c \/ cEnd'[c] = "closed"  BY <1>3, PipeOfClientStep
  <2> QED  BY <1>3, <2>1 DEF ClientStep
<1> QED  BY <1>2, <1>3

LEMMA ClientStepTypes ==
    ASSUME ClientInv, AnyServerTypes, NEW c \in Conns, ClientStep(c), Counted(c)
    PROVE  ClientInv' /\ AnyServerTypes'
<1>1. ClientInv'
  <2>1. Connect(c, TRUE) => Sound  BY ConnectSound
  <2> QED  BY <2>1, ClientStepsSound DEF ClientStep, Sound
<1>2. s2c' \in [Conns -> Seq(Answers)]
  <2>1. s2c \in [Conns -> Seq(Answers)]  BY DEF AnyServerTypes
  <2>2. [s2c EXCEPT ![c] = <<>>] \in [Conns -> Seq(Answers)]  BY <2>1, Emptied
  <2>3. s2c[c] # <<>> => Tail(s2c[c]) \in Seq(Answers)  BY <2>1
  <2>4. s2c[c] # <<>> => [s2c EXCEPT ![c] = Tail(@)] \in [Conns -> Seq(Answers)]
    BY <2>1, <2>3
  <2> QED  BY <2>1, <2>2, <2>4, PipeOfClientStep
<1>3. seen' \in [Conns -> Seq(Nat \X FrameSet)]
  <2>1. seen \in [Conns -> Seq(Nat \X FrameSet)] /\ s2c[c] \in Seq(Answers)
    BY DEF AnyServerTypes
  <2>2. CASE Receive(c)
    <3>1. s2c[c] # <<>>  BY <2>2 DEF Receive, Readable
    <3>2. Head(s2c[c]) \in FrameSet  BY <2>1, <3>1, AnswersAssumption
    <3>3. Len(sent[c]) \in Nat
      <4>1. sent[c] \in Seq(Seq(Event))  BY AnyTypesAt
      <4> QED  BY <4>1
    <3>4. PICK p \in Nat \X FrameSet : p = <<Len(sent[c]), Head(s2c[c])>>  BY <3>2, <3>3
    <3>5. [seen EXCEPT ![c] = Append(@, p)] \in [Conns -> Seq(Nat \X FrameSet)]
      BY <2>1, AppendedTo
    <3> QED  BY <2>2, <3>4, <3>5, SeenOfClientStep
  <2>3. CASE ~Receive(c)  BY <2>1, <2>3, SeenOfClientStep
  <2> QED  BY <2>2, <2>3
<1>4. taken' \in [Conns -> Seq(FrameSet)]  BY DEF ClientStep, AnyServerTypes
<1> QED  BY <1>1, <1>2, <1>3, <1>4 DEF AnyServerTypes

(* The server's steps.                                                     *)
LEMMA ServerStepTypes ==
    ASSUME ClientInv, AnyServerTypes, NEW c \in Conns, AnyServerStep(c)
    PROVE  ClientInv' /\ AnyServerTypes'
<1>1. UNCHANGED <<cpc, wbuf, tofeed, sent, outcome, seen>>
  BY DEF AnyServerStep, clientVars
<1>2. ClientTypeOK'  BY <1>1 DEF ClientInv, ClientTypeOK
<1>3. c2s[c] \in Seq(FrameSet) /\ taken[c] \in Seq(FrameSet)  BY AnyTypesAt
<1>4. s2c' \in [Conns -> Seq(Answers)]
  <2>1. s2c \in [Conns -> Seq(Answers)]  BY DEF AnyServerTypes
  <2>2. \A f \in Answers : [s2c EXCEPT ![c] = Append(@, f)] \in [Conns -> Seq(Answers)]
    BY <2>1, AppendedTo
  <2>3. s2c' = s2c \/ \E f \in Answers : s2c' = [s2c EXCEPT ![c] = Append(@, f)]
    BY DEF AnyServerStep, ServerAccepts, ServerReads, ServerCloses, ServerAnswers, Written
  <2> QED  BY <2>1, <2>2, <2>3
<1>5. c2s' \in [Conns -> Seq(FrameSet)] /\ taken' \in [Conns -> Seq(FrameSet)]
  <2>1. c2s \in [Conns -> Seq(FrameSet)] /\ taken \in [Conns -> Seq(FrameSet)]
    BY DEF ClientInv, TransportTypeOK, AnyServerTypes
  <2>2. CASE ServerReads(c)
    <3>1. c2s[c] # <<>>  BY <2>2 DEF ServerReads
    <3>2. Head(c2s[c]) \in FrameSet /\ Tail(c2s[c]) \in Seq(FrameSet)  BY <1>3, <3>1
    <3>3. [taken EXCEPT ![c] = Append(@, Head(c2s[c]))] \in [Conns -> Seq(FrameSet)]
      BY <2>1, <3>2, AppendedTo
    <3> QED  BY <2>1, <2>2, <3>2, <3>3 DEF ServerReads
  <2>3. CASE ServerCloses(c)  BY <2>1, <2>3, Emptied DEF ServerCloses
  <2>4. CASE ServerAccepts(c) \/ \E f \in Answers : ServerAnswers(c, f)
    BY <2>1, <2>4 DEF ServerAccepts, ServerAnswers
  <2> QED  BY <2>2, <2>3, <2>4 DEF AnyServerStep
<1>6. TransportTypeOK'
  <2>1. Seq(Answers) \subseteq Seq(FrameSet)  BY AnswersAssumption
  <2>2. s2c' \in [Conns -> Seq(FrameSet)]  BY <1>4, <2>1
  <2>3. /\ link' \in [Conns -> {"none", "backlog", "up", "reset"}]
        /\ cEnd' \in [Conns -> Ends] /\ sEnd' \in [Conns -> Ends]
    BY DEF AnyServerStep, ServerAccepts, ServerReads, ServerCloses, ServerAnswers,
           ClientInv, TransportTypeOK, Ends
  <2> QED  BY <1>5, <2>2, <2>3 DEF TransportTypeOK
<1>7. ClientShape'
  <2>1. \A d \in Conns : link'[d] = link[d] \/ link[d] = "backlog"
    BY DEF AnyServerStep, ServerAccepts, ServerReads, ServerCloses, ServerAnswers,
           ClientInv, TransportTypeOK
  <2> QED  BY <1>1, <2>1 DEF ClientInv, ClientShape, InSend
<1> QED  BY <1>1, <1>2, <1>4, <1>5, <1>6, <1>7 DEF ClientInv, AnyServerTypes

LEMMA ServerStepGood ==
    ASSUME ClientInv, AnyServerTypes, NEW c \in Conns, AnyServerStep(c), Good(c)
    PROVE  Good(c)'
<1>1. UNCHANGED <<cpc, wbuf, tofeed, sent, outcome, seen>>
  BY DEF AnyServerStep, clientVars
<1>2. cEnd' = cEnd /\ (sEnd'[c] = "open" => sEnd[c] = "open" /\ ~ServerCloses(c))
  BY DEF AnyServerStep, ServerAccepts, ServerReads, ServerCloses, ServerAnswers,
         ClientInv, TransportTypeOK
<1>3. /\ taken[c] \in Seq(FrameSet) /\ c2s[c] \in Seq(FrameSet) /\ tofeed[c] \in Seq(FrameSet)
      /\ sent[c] \in Seq(Seq(Event))
  BY AnyTypesAt
<1>4. ASSUME ~ServerCloses(c)  PROVE Row(c)' = Row(c)
  <2>1. CASE ServerReads(c)
    <3>1. c2s[c] # <<>> /\ c2s'[c] = Tail(c2s[c]) /\ taken'[c] = Append(taken[c], Head(c2s[c]))
      BY <2>1 DEF ServerReads, ClientInv, TransportTypeOK, AnyServerTypes
    <3>2. PICK t \in Seq(FrameSet), q \in Seq(FrameSet) : t = taken[c] /\ q = c2s[c]  BY <1>3
    <3>3. q # <<>> /\ taken'[c] = Append(t, Head(q)) /\ c2s'[c] = Tail(q)  BY <3>1, <3>2
    <3>4. Append(t, Head(q)) \o Tail(q) = t \o q  BY <3>3, Shift
    <3> QED  BY <1>1, <3>2, <3>3, <3>4 DEF Row
  <2>2. CASE ~ServerReads(c)
    <3>1. c2s' = c2s /\ taken' = taken
      BY <1>4, <2>2 DEF AnyServerStep, ServerAccepts, ServerAnswers
    <3> QED  BY <1>1, <3>1 DEF Row
  <2> QED  BY <2>1, <2>2
<1>5. CASE InSend(c)
  <2>1. sent[c][Len(sent[c])] \in Seq(Event)
    <3>1. sent[c] # <<>>  BY <1>5 DEF ClientInv, ClientShape
    <3> QED  BY <1>3, <3>1
  <2>2. BatchFrames(c, sent[c][Len(sent[c])]) \in Seq(FrameSet)  BY <2>1, BatchFramesType
  <2>3. Len(BatchFrames(c, sent[c][Len(sent[c])])) \in Nat /\ Len(tofeed[c]) \in Nat
    BY <1>3, <2>2
  <2>4. cpc[c] \in {"flush", "wait"} => tofeed[c] = <<>>  BY DEF Good, Batched
  <2>5. InSend(c)' <=> InSend(c)  BY <1>1 DEF InSend
  <2> QED  BY <1>1, <1>2, <1>4, <2>3, <2>4, <2>5, Moves
<1>6. CASE ~InSend(c)
  <2>1. ~InSend(c)' /\ tofeed'[c] = <<>>  BY <1>1, <1>6 DEF Good, Batched, InSend
  <2>2. cpc[c] # "closed" => cEnd[c] = "open"  BY DEF Good, Counted
  <2> QED  BY <1>1, <1>2, <1>4, <1>6, <2>1, <2>2, Quiet
<1> QED  BY <1>5, <1>6

-----------------------------------------------------------------------------
(* The client's steps *)

(* The batch of the call under way.                                        *)
LEMMA CurrentFrames ==
    ASSUME ClientInv, AnyServerTypes, NEW c \in Conns, InSend(c)
    PROVE  /\ sent[c] # <<>> /\ Len(sent[c]) \in Nat /\ sent[c][Len(sent[c])] \in Seq(Event)
           /\ BatchFrames(c, sent[c][Len(sent[c])]) \in Seq(FrameSet)
           /\ Len(BatchFrames(c, sent[c][Len(sent[c])])) \in Nat
<1>1. sent[c] \in Seq(Seq(Event)) /\ sent[c] # <<>>
  BY AnyTypesAt DEF ClientInv, ClientShape
<1>2. sent[c][Len(sent[c])] \in Seq(Event)  BY <1>1
<1>3. BatchFrames(c, sent[c][Len(sent[c])]) \in Seq(FrameSet)  BY <1>2, BatchFramesType
<1> QED  BY <1>1, <1>2, <1>3

(* connect, the handshake, close and the end of a Client.                  *)
LEMMA QuietSteps ==
    ASSUME ClientInv, AnyServerTypes, NEW c \in Conns, ClientStep(c), Good(c),
           \/ Connect(c, TRUE) \/ ClientHandshake(c) \/ Close(c) \/ CloseFails(c)
           \/ Drop(c)
    PROVE  Good(c)'
<1>1. seen' = seen /\ taken' = taken
  <2>1. ~Receive(c)
    BY DEF Connect, ClientHandshake, Close, CloseFails, Drop, Receive, ClientInv, ClientTypeOK,
           Return
  <2> QED  BY <2>1, SeenOfClientStep DEF ClientStep, Good
<1>2. CASE Drop(c)
  <2>1. /\ sent' = sent /\ outcome' = outcome /\ cpc'[c] = "closed" /\ cEnd'[c] = "closed"
        /\ tofeed'[c] = <<>>
    BY <1>2 DEF Drop, ClientInv, ClientTypeOK, TransportTypeOK
  <2>2. ~InSend(c)'  BY <2>1 DEF InSend
  <2> QED  BY <1>1, <2>1, <2>2, Quiet
<1>3. CASE ~Drop(c)
  <2>1. UNCHANGED <<sEnd, c2s, wbuf, tofeed, sent, outcome>>
    BY <1>3 DEF Connect, ClientHandshake, Close, CloseFails
  <2>2. cpc[c] \in {"new", "handshake", "idle", "closing"}
    BY <1>3 DEF Connect, ClientHandshake, Close, CloseFails
  <2>3. /\ cpc'[c] \in {"handshake", "idle", "closing", "closed"}
        /\ cEnd'[c] = (IF cpc'[c] = "closed" THEN "closed" ELSE cEnd[c])
    BY <1>3 DEF Connect, ClientHandshake, Close, CloseFails, ClientInv, ClientTypeOK,
                TransportTypeOK
  <2>4. ~InSend(c) /\ ~InSend(c)' /\ cpc[c] # "closed"  BY <2>2, <2>3 DEF InSend
  <2>5. tofeed'[c] = <<>> /\ cEnd[c] = "open"  BY <2>1, <2>4 DEF Good, Batched, Counted
  <2>6. Row(c)' = Row(c)  BY <1>1, <2>1 DEF Row
  <2> QED  BY <2>1, <2>3, <2>4, <2>5, <2>6, <1>1, Quiet
<1> QED  BY <1>2, <1>3

(* A frame goes out.                                                       *)
LEMMA WriteOutGood ==
    ASSUME ClientInv, AnyServerTypes, NEW c \in Conns, ClientStep(c), Good(c), WriteOut(c)
    PROVE  Good(c)'
<1>1. seen' = seen /\ taken' = taken
  <2>1. ~Receive(c)  BY DEF WriteOut, Receive
  <2> QED  BY <2>1, SeenOfClientStep DEF ClientStep, Good
<1>2. /\ UNCHANGED <<sEnd, tofeed, sent, outcome>> /\ wbuf[c] # <<>>
      /\ cpc[c] \in {"drain", "flush", "closing"} /\ wbuf'[c] = Tail(wbuf[c])
  BY DEF WriteOut, ClientInv, ClientTypeOK
<1>3. ASSUME sEnd[c] = "open"  PROVE Row(c)' = Row(c)
  <2>1. PICK t \in Seq(FrameSet), q \in Seq(FrameSet), w \in Seq(FrameSet) :
          t = taken[c] /\ q = c2s[c] /\ w = wbuf[c]
    BY AnyTypesAt
  <2>2. c2s'[c] = Append(q, Head(w))
    BY <1>3, <2>1 DEF WriteOut, Written, ClientInv, TransportTypeOK
  <2>3. w # <<>> /\ wbuf'[c] = Tail(w) /\ taken'[c] = t  BY <1>1, <1>2, <2>1
  <2>4. (t \o Append(q, Head(w))) \o Tail(w) = (t \o q) \o w
    <3>1. w # <<>>  BY <2>3
    <3>2. PICK x \in Seq(FrameSet) : x = t \o q  BY ConcatProperties
    <3>3. Head(w) \in FrameSet /\ Append(x, Head(w)) \o Tail(w) = x \o w  BY <3>1, Shift
    <3>4. t \o Append(q, Head(w)) = Append(t \o q, Head(w))  BY <3>3, ConcatAppend
    <3> QED  BY <3>2, <3>3, <3>4
  <2>5. Row(c)' = ((t \o Append(q, Head(w))) \o Tail(w)) \o tofeed'[c]
    BY <2>2, <2>3, Zenon DEF Row
  <2>6. Row(c) = ((t \o q) \o w) \o tofeed[c]  BY <2>1, Zenon DEF Row
  <2>7. tofeed'[c] = tofeed[c]  BY <1>2
  <2> QED  BY <2>4, <2>5, <2>6, <2>7, Zenon
<1>4. /\ cpc'[c] = (IF Len(wbuf[c]) = 1 THEN WhenWritten(cpc[c]) ELSE cpc[c])
      /\ cEnd'[c] = (IF cpc'[c] = "closed" THEN "closed" ELSE cEnd[c])
  BY DEF WriteOut, ClientInv, ClientTypeOK, TransportTypeOK
<1>5. CASE cpc[c] = "closing"
  <2>1. cpc'[c] \in {"closing", "closed"} /\ ~InSend(c) /\ ~InSend(c)'
    BY <1>4, <1>5 DEF WhenWritten, InSend
  <2>2. tofeed'[c] = <<>> /\ cEnd[c] = "open"  BY <1>2, <1>5, <2>1 DEF Good, Batched, Counted
  <2> QED  BY <1>1, <1>2, <1>3, <1>4, <1>5, <2>1, <2>2, Quiet
<1>6. CASE cpc[c] # "closing"
  <2>1. /\ cpc[c] = "drain" => cpc'[c] \in {"drain", "feed"}
        /\ cpc[c] = "flush" => cpc'[c] \in {"flush", "wait"}
    BY <1>4, <1>6 DEF WhenWritten
  <2>2. InSend(c) /\ InSend(c)' /\ cpc'[c] # "closed" /\ cpc[c] # "closed" /\ cpc[c] # "wait"
    BY <1>2, <1>6, <2>1 DEF InSend
  <2>3. cEnd'[c] = cEnd[c]  BY <1>4, <2>2
  <2>4. tofeed[c] \in Seq(FrameSet)  BY AnyTypesAt
  <2>5. cpc'[c] \in {"flush", "wait"} => tofeed'[c] = <<>>
    BY <1>2, <1>6, <2>1 DEF Good, Batched
  <2>6. Len(BatchFrames(c, sent[c][Len(sent[c])])) \in Nat  BY <2>2, CurrentFrames
  <2>7. Len(tofeed[c]) \in Nat  BY <2>4
  <2> QED  BY <1>1, <1>2, <1>3, <2>2, <2>3, <2>5, <2>6, <2>7, Moves
<1> QED  BY <1>5, <1>6

(* A failure of the call under way in a write, a read or a timeout.        *)
LEMMA FailureGood ==
    ASSUME ClientInv, AnyServerTypes, NEW c \in Conns, ClientStep(c), Good(c),
           WriteError(c) \/ WriteTimeout(c) \/ ReceiveEnd(c) \/ AckTimeout(c) \/ Cancel(c)
    PROVE  Good(c)'
<1>1. seen' = seen /\ taken' = taken
  <2>1. ~Receive(c)
    <3>1. PICK s \in Seq(Answers) : s = s2c[c]  BY AnyTypesAt
    <3>2. s # <<>> => Tail(s) # s
      <4>1. s # <<>> => Len(Tail(s)) = Len(s) - 1 /\ Len(s) \in Nat  OBVIOUS
      <4>2. s # <<>> => Len(Tail(s)) # Len(s)  BY <4>1
      <4> QED  BY <4>2
    <3>3. s2c' = s2c
      BY DEF WriteError, WriteTimeout, ReceiveEnd, AckTimeout, Cancel, transportVars
    <3> QED  BY <3>1, <3>2, <3>3 DEF Receive, Readable, ClientInv, TransportTypeOK
  <2> QED  BY <2>1, SeenOfClientStep DEF ClientStep, Good
<1>2. PICK e \in {"Io", "WriteTimeout", "ConnectionClosed", "AckTimeout", "Cancelled"} :
        Return(c, Err(e)) /\ cpc[c] \in {"drain", "flush", "wait"}
  BY DEF WriteError, WriteTimeout, WriteTimed, ReceiveEnd, AckTimeout, AckTimed, Cancel
<1>3. UNCHANGED <<wbuf, sent, link, cEnd, sEnd, c2s, s2c>>
  BY DEF WriteError, WriteTimeout, ReceiveEnd, AckTimeout, Cancel, transportVars
<1>4. PICK r \in Results : r = Err(e) /\ ~r.ok /\ r.err = e
  <2>1. e \in Errors  BY DEF Errors
  <2>2. Err(e) \in Results /\ ~Err(e).ok /\ Err(e).err = e  BY <2>1, ResultTypes DEF Err
  <2> QED  BY <2>2
<1>5. PICK w \in Seq(FrameSet) : w = (taken[c] \o c2s[c]) \o wbuf[c]  BY RowType
<1>6. PICK t \in Seq(FrameSet) : t = tofeed[c]  BY AnyTypesAt
<1>7. Row(c) = w \o t  BY <1>5, <1>6 DEF Row
<1>8. Row(c)' = w
  <2>1. tofeed'[c] = <<>>  BY <1>2 DEF Return, ClientInv, ClientTypeOK
  <2>2. w \o <<>> = w  BY ConcatEmptySeq
  <2> QED  BY <1>1, <1>3, <1>5, <2>1, <2>2 DEF Row
<1>9. InSend(c)  BY <1>2 DEF InSend
<1>10. Return(c, r) /\ (IF r.ok THEN r.err = "none" ELSE r.err \notin {"none", "Serialization"})
  BY <1>2, <1>4
<1>11. Len(t) <= Len(tofeed[c])  BY <1>6
<1> QED  BY <1>1, <1>3, <1>4, <1>7, <1>8, <1>9, <1>10, <1>11, Returns

(* The ack loop reads a frame: an Ack that covers the batch ends the call, *)
(* another Ack is waited out, and anything else is an error.               *)
LEMMA ReceiveGood ==
    ASSUME ClientInv, AnyServerTypes, NEW c \in Conns, ClientStep(c), Good(c), Receive(c)
    PROVE  Good(c)'
<1>1. /\ cpc[c] = "wait" /\ s2c[c] # <<>> /\ InSend(c)
      /\ UNCHANGED <<link, cEnd, sEnd, c2s, wbuf, sent>> /\ taken' = taken
  BY DEF Receive, Readable, InSend, ClientStep
<1>2. s2c[c] \in Seq(Answers) /\ seen[c] \in Seq(Nat \X FrameSet)  BY AnyTypesAt
<1>3. PICK f \in Answers : f = Head(s2c[c])  BY <1>1, <1>2
<1>4. f \in FrameSet /\ (f.type = "X" => f.err \in DecodeErrors)  BY AnswersAssumption
<1>5. PICK n \in Nat : n = Len(sent[c])  BY <1>1, CurrentFrames
<1>6. PICK size \in Nat : size = Len(sent[c][n])
  <2>1. sent[c][n] \in Seq(Event)  BY <1>1, <1>5, CurrentFrames
  <2> QED  BY <2>1
<1>7. seen'[c] = Append(seen[c], <<n, f>>)
  <2>1. seen' = [seen EXCEPT ![c] = Append(@, <<Len(sent[c]), Head(s2c[c])>>)]
    BY SeenOfClientStep DEF Good
  <2> QED  BY <1>3, <1>5, <2>1 DEF AnyServerTypes
<1>8. n \in DOMAIN sent[c]
  <2>1. sent[c] \in Seq(Seq(Event)) /\ sent[c] # <<>>  BY <1>1, AnyTypesAt, CurrentFrames
  <2> QED  BY <1>5, <2>1
<1>9. Awaited(c) = size
  <2>1. size < U32  BY <1>6, <1>8 DEF Good, Counted
  <2>2. AsU32(size) = size  BY <2>1, AsU32Small
  <2> QED  BY <1>5, <1>6, <2>2 DEF Awaited
<1>10. \A j \in ReadBy(seen[c], n) : PartialAck(seen[c][j][2], size)
  BY <1>1, <1>5, <1>6 DEF Good, Reads
<1>11. f.type = "A" => f.seq \in Nat
  BY <1>4 DEF FrameSet, InnerFrames, WindowFrames, JsonFrames, AckFrames, BadFrames,
              CompressedFrames
<1>12. PICK w \in Seq(FrameSet) : w = Row(c)  BY RowType
<1>13. tofeed[c] = <<>>  BY <1>1 DEF Good, Batched
<1>14. ASSUME NEW r \in Results, Return(c, r),
              IF r.ok THEN r.err = "none" ELSE r.err \notin {"none", "Serialization"},
              r.ok => CoveringAck(f, size)
       PROVE  Good(c)'
  <2>1. tofeed'[c] = <<>>  BY <1>14 DEF Return, ClientInv, ClientTypeOK
  <2>2. Row(c)' = w  BY <1>1, <1>12, <1>13, <2>1, Zenon DEF Row
  <2>3. PICK t \in Seq(FrameSet) : t = <<>>  BY EmptySeq, Zenon
  <2>4. Row(c) = w \o t /\ Len(t) <= Len(tofeed[c])
    <3>1. w \o <<>> = w  BY ConcatEmptySeq
    <3>2. Len(tofeed[c]) = 0 /\ Len(t) = 0  BY <1>13, <2>3
    <3> QED  BY <1>12, <2>3, <3>1, <3>2
  <2>5. r.ok => CoveredFirst(seen'[c], n, size)
    <3>1. <<n, f>> \in Nat \X FrameSet  BY <1>4
    <3> QED  BY <1>2, <1>7, <1>10, <1>14, <3>1, CoveredNow
  <2>6. /\ r.ok => CoveredFirst(seen'[c], Len(sent[c]), Len(sent[c][Len(sent[c])]))
        /\ \E g \in FrameSet : seen'[c] = Append(seen[c], <<Len(sent[c]), g>>)
    BY <1>4, <1>5, <1>6, <1>7, <2>5
  <2>7. sent'[c] = sent[c] /\ cEnd'[c] = cEnd[c] /\ sEnd'[c] = sEnd[c] /\ (r.ok => t = <<>>)
    BY <1>1, <2>3
  <2> QED  BY <1>1, <1>14, <2>2, <2>4, <2>6, <2>7, Returns
<1>15. CASE f.type = "A" /\ f.seq >= size
  <2>1. Return(c, Ok(size))  BY <1>3, <1>9, <1>15 DEF Receive, AckCovers
  <2>2. PICK r \in Results : r = Ok(size) /\ r.ok /\ r.err = "none"
    <3>1. Ok(size) \in Results /\ Ok(size).ok /\ Ok(size).err = "none"
      BY ResultTypes DEF Ok
    <3> QED  BY <3>1
  <2>3. CoveringAck(f, size)  BY <1>15 DEF CoveringAck
  <2> QED  BY <1>14, <2>1, <2>2, <2>3
<1>16. CASE f.type # "A"
  <2>1. PICK e \in DecodeErrors \cup {"UnexpectedFrame"} : Return(c, Err(e))
    BY <1>3, <1>4, <1>16 DEF Receive
  <2>2. PICK r \in Results : r = Err(e) /\ ~r.ok /\ r.err = e
    <3>1. e \in Errors  BY <2>1 DEF DecodeErrors, Errors
    <3>2. Err(e) \in Results /\ ~Err(e).ok /\ Err(e).err = e  BY <3>1, ResultTypes DEF Err
    <3> QED  BY <3>2
  <2>3. e \notin {"none", "Serialization"}  BY <2>1 DEF DecodeErrors
  <2> QED  BY <1>14, <2>1, <2>2, <2>3
<1>17. CASE f.type = "A" /\ ~(f.seq >= size)
  <2>1. UNCHANGED <<cpc, outcome, tofeed>>  BY <1>3, <1>9, <1>17 DEF Receive, AckCovers
  <2>2. PartialAck(f, size)  BY <1>11, <1>17 DEF PartialAck
  <2>3. Row(c)' = Row(c)  BY <1>1, <2>1 DEF Row
  <2>4. BatchesOf(c)' = BatchesOf(c)  BY <1>1, <2>1 DEF BatchesOf, BatchOf, BatchFrames
  <2>5. Counted(c)'  BY <1>1, <2>1 DEF Good, Counted, InSend
  <2>6. Batched(c)'  BY <1>1, <2>1, <2>3, <2>4 DEF Good, Batched, InSend, Broken
  <2>7. Reads(c)'
    <3>1. PICK s \in Seq(Nat \X FrameSet) : s = seen[c]  BY <1>2
    <3>2. PICK p \in Nat \X FrameSet : p = <<n, f>> /\ p[1] = n /\ p[2] = f
      <4>1. <<n, f>> \in Nat \X FrameSet  BY <1>4
      <4>2. <<n, f>>[1] = n /\ <<n, f>>[2] = f  OBVIOUS
      <4> QED  BY <4>1, <4>2, Zenon
    <3>3. PICK z \in Nat : z = Len(s) + 1  OBVIOUS
    <3>4. PICK a \in Seq(Nat \X FrameSet) : a = Append(s, p)  BY AppendProperties
    <3>5. /\ DOMAIN a = DOMAIN s \cup {z} /\ a[z] = p
          /\ \A i \in DOMAIN s : a[i] = s[i]
      BY <3>3, <3>4
    <3>6. seen'[c] = a  BY <1>7, <3>1, <3>2, <3>4
    <3>7. \A i \in DOMAIN s : s[i][1] \in Nat /\ s[i][1] <= n
      BY <1>5, <3>1 DEF Good, Reads
    <3>8. \A i \in DOMAIN a : a[i][1] \in Nat /\ a[i][1] <= n
      BY <3>2, <3>5, <3>7
    <3>9. \A i \in ReadBy(a, n) : PartialAck(a[i][2], size)
      <4>1. ASSUME NEW i \in ReadBy(a, n), i # z  PROVE PartialAck(a[i][2], size)
        <5>1. i \in DOMAIN s /\ i \in ReadBy(s, n) /\ a[i] = s[i]
          BY <3>5, <4>1 DEF ReadBy
        <5> QED  BY <1>10, <3>1, <5>1
      <4> QED  BY <2>2, <3>2, <3>5, <4>1
    <3>10. ASSUME NEW k \in DOMAIN outcome[c], outcome[c][k].ok, sent[c][k] # <<>>
           PROVE  CoveredFirst(a, k, Len(sent[c][k]))
      <4>1. CoveredFirst(s, k, Len(sent[c][k]))  BY <3>1, <3>10 DEF Good, Reads
      <4>2. k # n
        <5>1. outcome[c] \in Seq(Results)  BY AnyTypesAt
        <5>2. n = Len(outcome[c]) + 1  BY <1>1, <1>5 DEF Good, Counted
        <5> QED  BY <5>1, <5>2
      <4>3. p[1] # k  BY <3>2, <4>2
      <4> QED  BY <3>4, <4>1, <4>3, CoveredStays
    <3> QED  BY <1>1, <1>5, <1>6, <2>1, <3>6, <3>8, <3>9, <3>10 DEF Reads
  <2> QED  BY <2>5, <2>6, <2>7 DEF Good
<1> QED  BY <1>15, <1>16, <1>17

(* Going on with rest, with buf in the write buffer, fails on an event     *)
(* that is too large, and otherwise waits at one of three points.          *)
LEMMA FeedOnEffect ==
    ASSUME ClientInv, NEW c \in Conns, NEW buf, NEW rest, FeedOn(c, buf, rest)
    PROVE  /\ wbuf'[c] = buf
           /\ \/ Return(c, Err("FrameTooLarge")) /\ rest # <<>> /\ Head(rest).type = "J"
              \/ /\ tofeed'[c] = rest /\ outcome' = outcome
                 /\ cpc'[c] \in {"flush", "drain", "feed"}
                 /\ cpc'[c] = "flush" <=> rest = <<>>
<1>1. wbuf'[c] = buf  BY DEF FeedOn, ClientInv, ClientTypeOK
<1>2. CASE rest # <<>> /\ Head(rest).type = "J" /\ Oversize(Head(rest), ClientMax)
  BY <1>1, <1>2 DEF FeedOn
<1>3. CASE ~(rest # <<>> /\ Head(rest).type = "J" /\ Oversize(Head(rest), ClientMax))
  <2> DEFINE pc == IF rest = <<>> THEN "flush"
                   ELSE IF Len(buf) >= Boundary THEN "drain" ELSE "feed"
  <2>1. tofeed' = [tofeed EXCEPT ![c] = rest] /\ cpc' = [cpc EXCEPT ![c] = pc] /\ outcome' = outcome
    BY <1>3 DEF FeedOn
  <2>2. pc \in {"flush", "drain", "feed"} /\ (pc = "flush" <=> rest = <<>>)  OBVIOUS
  <2> HIDE DEF pc
  <2>3. tofeed'[c] = rest /\ cpc'[c] = pc  BY <2>1 DEF ClientInv, ClientTypeOK
  <2> QED  BY <1>1, <2>1, <2>2, <2>3
<1> QED  BY <1>2, <1>3

LEMMA FeedGood ==
    ASSUME ClientInv, AnyServerTypes, NEW c \in Conns, ClientStep(c), Good(c), Feed(c)
    PROVE  Good(c)'
<1>1. /\ cpc[c] = "feed" /\ UNCHANGED <<sent, link, cEnd, sEnd, c2s, s2c>>
      /\ FeedOn(c, Append(wbuf[c], Head(tofeed[c])), Tail(tofeed[c]))
  BY DEF Feed, transportVars
<1>2. seen' = seen /\ taken' = taken
  <2>1. ~Receive(c)  BY <1>1 DEF Receive
  <2> QED  BY <2>1, SeenOfClientStep DEF ClientStep, Good
<1>3. InSend(c) /\ tofeed[c] # <<>>  BY <1>1 DEF InSend, ClientInv, ClientShape
<1>4. PICK x \in Seq(FrameSet), b \in Seq(FrameSet), t \in Seq(FrameSet) :
        x = taken[c] \o c2s[c] /\ b = wbuf[c] /\ t = tofeed[c]
  BY AnyTypesAt, RowType
<1>5. t # <<>>  BY <1>3, <1>4
<1>6. PICK h \in FrameSet, rest \in Seq(FrameSet) : h = Head(t) /\ rest = Tail(t)
  <2>1. Head(t) \in FrameSet /\ Tail(t) \in Seq(FrameSet)  BY <1>5
  <2> QED  BY <2>1, Zenon
<1>7. PICK buf \in Seq(FrameSet) : buf = Append(b, h)  BY AppendProperties
<1>8. FeedOn(c, buf, rest)  BY <1>1, <1>4, <1>6, <1>7
<1>9. wbuf'[c] = buf  BY <1>8, FeedOnEffect
<1>10. PICK w \in Seq(FrameSet) : w = x \o buf  BY ConcatProperties
<1>11. Row(c) = w \o rest
  <2>1. PICK y \in Seq(FrameSet) : y = x \o b  BY ConcatProperties
  <2>2. Append(y, Head(t)) \o Tail(t) = y \o t  BY <1>5, Shift
  <2>3. x \o Append(b, h) = Append(x \o b, h)  BY ConcatAppend
  <2>4. Row(c) = y \o t  BY <1>4, <2>1 DEF Row
  <2> QED  BY <1>6, <1>7, <1>10, <2>1, <2>2, <2>3, <2>4
<1>12. Len(rest) \in Nat /\ Len(t) \in Nat /\ Len(rest) <= Len(t)
  <2>1. Len(rest) = Len(t) - 1 /\ Len(t) \in Nat  BY <1>5, <1>6
  <2> QED  BY <2>1
<1>13. Row(c)' = w \o tofeed'[c]  BY <1>1, <1>2, <1>4, <1>9, <1>10, Zenon DEF Row
<1>14. CASE Return(c, Err("FrameTooLarge"))
  <2>1. PICK r \in Results : r = Err("FrameTooLarge") /\ ~r.ok /\ r.err = "FrameTooLarge"
    <3>1. "FrameTooLarge" \in Errors  BY DEF Errors
    <3>2. /\ Err("FrameTooLarge") \in Results /\ ~Err("FrameTooLarge").ok
          /\ Err("FrameTooLarge").err = "FrameTooLarge"
      BY <3>1, ResultTypes DEF Err
    <3> QED  BY <3>2
  <2>2. tofeed'[c] = <<>>  BY <1>14 DEF Return, ClientInv, ClientTypeOK
  <2>3. Row(c)' = w
    <3>1. w \o <<>> = w  BY ConcatEmptySeq
    <3> QED  BY <1>13, <2>2, <3>1
  <2>4. Return(c, r) /\ (IF r.ok THEN r.err = "none" ELSE r.err \notin {"none", "Serialization"})
    BY <1>14, <2>1
  <2>5. Len(rest) <= Len(tofeed[c])  BY <1>4, <1>12
  <2> QED  BY <1>1, <1>2, <1>3, <1>11, <2>1, <2>3, <2>4, <2>5, Returns
<1>15. CASE ~Return(c, Err("FrameTooLarge"))
  <2>1. /\ tofeed'[c] = rest /\ outcome' = outcome
        /\ cpc'[c] \in {"flush", "drain", "feed"}
        /\ cpc'[c] = "flush" => rest = <<>>
    BY <1>8, <1>15, FeedOnEffect
  <2>2. Row(c)' = Row(c)  BY <1>11, <1>13, <2>1
  <2>3. InSend(c)' /\ cpc'[c] # "closed" /\ cpc'[c] # "wait"  BY <2>1 DEF InSend
  <2>4. Len(BatchFrames(c, sent[c][Len(sent[c])])) \in Nat  BY <1>3, CurrentFrames
  <2>5. /\ Len(tofeed[c]) \in Nat /\ Len(tofeed'[c]) \in Nat
        /\ Len(tofeed'[c]) <= Len(tofeed[c])
    BY <1>4, <1>12, <2>1
  <2> QED  BY <1>1, <1>2, <1>3, <2>1, <2>2, <2>3, <2>4, <2>5, Moves
<1> QED  BY <1>14, <1>15

(* The events of a batch are as many as their sizes.                       *)
LEMMA EventsLen ==
    ASSUME NEW k \in Nat, NEW sizes \in Seq(Nat)
    PROVE  /\ EventsOf(k, sizes) \in Seq(Event) /\ Len(EventsOf(k, sizes)) = Len(sizes)
           /\ EventsOf(k, sizes) = <<>> <=> sizes = <<>>
<1>1. EventsOf(k, sizes) \in Seq(Event)  BY EventsType
<1>2. Len(EventsOf(k, sizes)) = Len(sizes)  BY DEF EventsOf
<1>3. PICK e \in Seq(Event) : e = EventsOf(k, sizes)  BY <1>1
<1>4. e = <<>> <=> Len(e) = 0  OBVIOUS
<1>5. sizes = <<>> <=> Len(sizes) = 0  OBVIOUS
<1> QED  BY <1>1, <1>2, <1>3, <1>4, <1>5

LEMMA SendGood ==
    ASSUME ClientInv, AnyServerTypes, NEW c \in Conns, ClientStep(c), Good(c),
           NEW sizes \in Batches, Send(c, sizes) \/ SerializeFails(c, sizes)
    PROVE  Good(c)'
<1>1. /\ cpc[c] = "idle" /\ (c \in Reusing \/ ~Broken(c))
      /\ UNCHANGED <<link, cEnd, sEnd, c2s, s2c>>
  BY DEF Send, SerializeFails, MaySend, transportVars
<1>2. seen' = seen /\ taken' = taken
  <2>1. ~Receive(c)  BY <1>1 DEF Receive
  <2> QED  BY <2>1, SeenOfClientStep DEF ClientStep, Good
<1>3. sent[c] \in Seq(Seq(Event)) /\ sizes \in Seq(Nat) /\ Len(sizes) < U32
  BY AnyTypesAt, ClientAssumption
<1>4. PICK k \in Nat : k = Len(sent[c]) + 1  BY <1>3
<1>5. PICK evs \in Seq(Event) : /\ evs = EventsOf(k, sizes) /\ Len(evs) < U32
                                /\ evs = <<>> <=> sizes = <<>>
  BY <1>3, EventsLen
<1>6. sent'[c] = Append(sent[c], evs)
  BY <1>4, <1>5 DEF Send, SerializeFails, ClientInv, ClientTypeOK
<1>7. tofeed[c] = <<>>  BY <1>1 DEF Good, Batched, InSend
<1>8. PICK w \in Seq(FrameSet) : w = (taken[c] \o c2s[c]) \o wbuf[c]  BY RowType
<1>9. Row(c) = w
  <2>1. w \o <<>> = w  BY ConcatEmptySeq
  <2> QED  BY <1>7, <1>8, <2>1 DEF Row
<1>10. ASSUME NEW r \in Results, Return(c, r), wbuf' = wbuf, r.err \in {"none", "Serialization"},
              evs = <<>> \/ (r.err = "Serialization" /\ ~r.ok)
       PROVE  Good(c)'
  <2>1. cpc'[c] = "idle" /\ tofeed'[c] = <<>> /\ outcome'[c] = Append(outcome[c], r)
    BY <1>10 DEF Return, ClientInv, ClientTypeOK
  <2>2. Row(c)' = Row(c)  BY <1>1, <1>2, <1>7, <1>10, <2>1, Zenon DEF Row
  <2> QED  BY <1>1, <1>2, <1>5, <1>6, <1>10, <2>1, <2>2, BeginsAndReturns
<1>11. CASE SerializeFails(c, sizes)
  <2>1. PICK r \in Results : r = Err("Serialization") /\ ~r.ok /\ r.err = "Serialization"
    <3>1. "Serialization" \in Errors  BY DEF Errors
    <3>2. /\ Err("Serialization") \in Results /\ ~Err("Serialization").ok
          /\ Err("Serialization").err = "Serialization"
      BY <3>1, ResultTypes DEF Err
    <3> QED  BY <3>2
  <2> QED  BY <1>10, <1>11, <2>1 DEF SerializeFails
<1>12. CASE Send(c, sizes) /\ sizes = <<>>
  <2>1. PICK r \in Results : r = Ok(0) /\ r.err = "none"
    <3>1. Ok(0) \in Results /\ Ok(0).err = "none"  BY ResultTypes DEF Ok
    <3> QED  BY <3>1
  <2>2. Return(c, Ok(0)) /\ wbuf' = wbuf  BY <1>12 DEF Send
  <2> QED  BY <1>5, <1>10, <1>12, <2>1, <2>2
<1>13. CASE Send(c, sizes) /\ sizes # <<>>
  <2>1. FeedOn(c, wbuf[c], BatchFrames(c, evs))  BY <1>4, <1>5, <1>13 DEF Send
  <2>2. PICK fs \in Seq(FrameSet) : fs = BatchFrames(c, evs) /\ fs # <<>>
    BY BatchFramesType
  <2>3. Head(fs).type # "J"
    <3>1. fs[1] = Window(Len(evs))  BY <1>5, <2>2, FramesOfBatch
    <3>2. Head(fs) = fs[1]  BY <2>2
    <3> QED  BY <3>1, <3>2 DEF Window
  <2>4. /\ wbuf'[c] = wbuf[c] /\ tofeed'[c] = fs /\ outcome' = outcome
        /\ cpc'[c] \in {"drain", "feed"}
    BY <2>1, <2>2, <2>3, FeedOnEffect
  <2>5. Row(c)' = Row(c) \o fs
    <3>1. Row(c)' = w \o fs  BY <1>1, <1>2, <1>8, <2>4, Zenon DEF Row
    <3> QED  BY <1>9, <3>1
  <2>6. evs # <<>>  BY <1>5, <1>13
  <2>7. outcome'[c] = outcome[c]  BY <2>4
  <2> QED  BY <1>1, <1>2, <1>5, <1>6, <2>2, <2>4, <2>5, <2>6, <2>7, Begins
<1> QED  BY <1>11, <1>12, <1>13

-----------------------------------------------------------------------------
(* The invariant *)

LEMMA AnyServerStart ==
    ASSUME Init
    PROVE  AnyServerInv
<1>1. ClientInv
  BY TransportAssumption DEF Init, TransportInit, ClientInit, ClientInv, TransportTypeOK,
     ClientTypeOK, ClientShape, ClientPcs, Ends, InSend
<1>2. AnyServerTypes  BY DEF Init, TransportInit, AnyServerTypes
<1>3. ASSUME NEW c \in Conns  PROVE Good(c)
  <2>1. /\ cpc[c] = "new" /\ cEnd[c] = "open" /\ sent[c] = <<>> /\ outcome[c] = <<>>
        /\ seen[c] = <<>> /\ tofeed[c] = <<>> /\ wbuf[c] = <<>> /\ c2s[c] = <<>>
        /\ taken[c] = <<>>
    BY <1>3 DEF Init, TransportInit, ClientInit
  <2>2. ~InSend(c)  BY <2>1 DEF InSend
  <2>3. Counted(c)  BY <2>1, <2>2 DEF Counted
  <2>4. Reads(c)  BY <2>1, <2>2 DEF Reads
  <2>5. Row(c) = <<>>
    <3>1. PICK e \in Seq(FrameSet) : e = <<>>  BY EmptySeq, Zenon
    <3>2. e \o e = e  BY <3>1, ConcatEmptySeq
    <3> QED  BY <2>1, <3>1, <3>2 DEF Row
  <2>6. BatchesOf(c) = <<>>
    <3>1. BatchesOf(c) \in Seq(Seq(FrameSet)) /\ Len(BatchesOf(c)) = 0
      BY <1>1, <1>2, <2>1, BatchesType
    <3> QED  BY <3>1
  <2>7. Batched(c)  BY <2>1, <2>2, <2>5, <2>6, CutNone DEF Batched
  <2> QED  BY <2>3, <2>4, <2>7 DEF Good
<1> QED  BY <1>1, <1>2, <1>3 DEF AnyServerInv, Good

LEMMA AnyServerNext ==
    ASSUME AnyServerInv, [Next]_vars
    PROVE  AnyServerInv'
<1>1. ClientInv /\ AnyServerTypes /\ \A c \in Conns : Good(c)  BY DEF AnyServerInv, Good
<1>2. ASSUME NEW c \in Conns, ClientStep(c)  PROVE Good(c)'
  BY <1>1, <1>2, QuietSteps, WriteOutGood, FailureGood, ReceiveGood, FeedGood, SendGood
  DEF ClientStep, ClientRuntime, ClientChoice
<1>3. ASSUME NEW c \in Conns, ClientStep(c) \/ AnyServerStep(c)
      PROVE  AnyServerInv'
  <2>1. Good(c)'  BY <1>1, <1>2, <1>3, ServerStepGood
  <2>2. ASSUME NEW d \in Conns, d # c  PROVE Good(d)'
    BY <1>1, <1>3, <2>2, OthersSame, SameGood
  <2>3. ClientInv' /\ AnyServerTypes'
    BY <1>1, <1>3, ClientStepTypes, ServerStepTypes DEF Good
  <2> QED  BY <2>1, <2>2, <2>3 DEF AnyServerInv, Good
<1>4. CASE UNCHANGED vars
  <2>1. ClientInv'
    BY <1>1, <1>4 DEF vars, transportVars, clientVars, ClientInv, TransportTypeOK,
       ClientTypeOK, ClientShape, InSend
  <2>2. AnyServerTypes'  BY <1>1, <1>4 DEF vars, transportVars, AnyServerTypes
  <2>3. \A d \in Conns : Good(d)'
    BY <1>1, <1>4, SameGood DEF vars, transportVars, clientVars, Same
  <2> QED  BY <2>1, <2>2, <2>3 DEF AnyServerInv, Good
<1> QED  BY <1>3, <1>4 DEF Next

-----------------------------------------------------------------------------
(* The clock *)

(* The frames of the current batch that were fed.                          *)
Fed(c) == Len(BatchFrames(c, sent[c][Len(sent[c])])) - Len(tofeed[c])

(* Every frame fed so far took one write_timeout at most, and the await    *)
(* under way what its timer shows.                                         *)
Paced(c) ==
    /\ ~Writing(c) => phase[c] = 0
    /\ c \in WriteTimeouts /\ cpc[c] \in {"drain", "flush"} =>
           timer[c] <= WriteLen /\ phase[c] <= WriteLen * Fed(c) + timer[c]
    /\ c \in WriteTimeouts /\ cpc[c] = "feed" => phase[c] <= WriteLen * (Fed(c) + 1)

TimedInv == /\ AnyServerInv
            /\ timer \in [Conns -> Nat] /\ phase \in [Conns -> Nat]
            /\ \A c \in Conns : Paced(c)

LEMMA OneTimeoutMore ==
    ASSUME NEW w \in Nat, NEW x \in Nat
    PROVE  w * x \in Nat /\ w * (x + 1) = w * x + w
  OBVIOUS

LEMMA AtMostAll ==
    ASSUME NEW w \in Nat, NEW x \in Nat, NEW y \in Nat
    PROVE  w * x <= w * (x + y)
<1>1. w * (x + y) = w * x + w * y  OBVIOUS
<1>2. w * x \in Nat /\ w * y \in Nat  OBVIOUS
<1> QED  BY <1>1, <1>2

LEMMA FedType ==
    ASSUME ClientInv, AnyServerTypes, NEW c \in Conns, Good(c), InSend(c)
    PROVE  /\ Fed(c) \in Nat /\ Len(tofeed[c]) \in Nat
           /\ Len(BatchFrames(c, sent[c][Len(sent[c])])) \in Nat
           /\ Fed(c) + Len(tofeed[c]) = Len(BatchFrames(c, sent[c][Len(sent[c])]))
<1>1. PICK l \in Nat : l = Len(BatchFrames(c, sent[c][Len(sent[c])]))  BY CurrentFrames
<1>2. tofeed[c] \in Seq(FrameSet)  BY AnyTypesAt
<1>3. PICK t \in Nat : t = Len(tofeed[c])  BY <1>2
<1>4. t <= l
  <2>1. CASE tofeed[c] = <<>>  BY <1>3, <2>1
  <2>2. CASE tofeed[c] # <<>>  BY <1>1, <1>3, <2>2 DEF Good, Batched
  <2> QED  BY <2>1, <2>2
<1>5. l - t \in Nat /\ (l - t) + t = l  BY <1>4
<1> QED  BY <1>1, <1>3, <1>5 DEF Fed

(* How the writing of a batch goes on.                                     *)
LEMMA WritingStep ==
    ASSUME ClientInv, AnyServerTypes, NEW c \in Conns, Good(c), ClientStep(c), Writing(c)'
    PROVE  \/ /\ ~Writing(c) /\ cpc'[c] \in {"feed", "drain"}
              /\ tofeed'[c] = BatchFrames(c, sent'[c][Len(sent'[c])])
           \/ /\ cpc[c] = "feed" /\ sent'[c] = sent[c] /\ tofeed[c] # <<>>
              /\ tofeed'[c] = Tail(tofeed[c])
           \/ /\ cpc[c] \in {"drain", "flush"} /\ sent'[c] = sent[c] /\ tofeed'[c] = tofeed[c]
              /\ seen'[c] = seen[c]
              /\ cpc'[c] = cpc[c] \/ (cpc[c] = "drain" /\ cpc'[c] = "feed")
<1>1. cpc'[c] \in {"feed", "drain", "flush"}  BY DEF Writing
<1>2. ~\E r : Return(c, r)  BY <1>1 DEF Return, ClientInv, ClientTypeOK
<1>3. ~(Connect(c, TRUE) \/ ClientHandshake(c) \/ Close(c) \/ CloseFails(c) \/ Drop(c))
  BY <1>1 DEF Connect, ClientHandshake, Close, CloseFails, Drop, ClientInv, ClientTypeOK
<1>4. ~(WriteError(c) \/ WriteTimeout(c) \/ ReceiveEnd(c) \/ AckTimeout(c) \/ Cancel(c))
  BY <1>2 DEF WriteError, WriteTimeout, ReceiveEnd, AckTimeout, Cancel
<1>5. ~Receive(c)
  <2>1. ASSUME Receive(c)  PROVE FALSE
    <3>1. cpc[c] = "wait" /\ cpc' = cpc  BY <1>2, <2>1 DEF Receive
    <3> QED  BY <1>1, <3>1
  <2> QED  BY <2>1
<1>6. seen'[c] = seen[c]  BY <1>5, SeenOfClientStep DEF Good
<1>7. CASE Feed(c)
  <2>1. /\ cpc[c] = "feed" /\ sent'[c] = sent[c]
        /\ FeedOn(c, Append(wbuf[c], Head(tofeed[c])), Tail(tofeed[c]))
    BY <1>7 DEF Feed
  <2>2. tofeed'[c] = Tail(tofeed[c])  BY <1>2, <2>1, FeedOnEffect
  <2>3. tofeed[c] # <<>>  BY <2>1 DEF ClientInv, ClientShape
  <2> QED  BY <2>1, <2>2, <2>3
<1>8. CASE WriteOut(c)
  <2>1. /\ sent'[c] = sent[c] /\ tofeed'[c] = tofeed[c]
        /\ cpc[c] \in {"drain", "flush", "closing"}
        /\ cpc'[c] = (IF Len(wbuf[c]) = 1 THEN WhenWritten(cpc[c]) ELSE cpc[c])
    BY <1>8 DEF WriteOut, ClientInv, ClientTypeOK
  <2> QED  BY <1>1, <1>6, <2>1 DEF WhenWritten
<1>9. ASSUME NEW sizes \in Batches, Send(c, sizes)
      PROVE  /\ ~Writing(c) /\ cpc'[c] \in {"feed", "drain"}
             /\ tofeed'[c] = BatchFrames(c, sent'[c][Len(sent'[c])])
  <2>1. PICK evs : /\ sent' = [sent EXCEPT ![c] = Append(@, evs)]
                   /\ evs = EventsOf(Len(sent[c]) + 1, sizes)
                   /\ FeedOn(c, wbuf[c], BatchFrames(c, evs))
    BY <1>2, <1>9 DEF Send
  <2>2. cpc[c] = "idle"  BY <1>9 DEF Send, MaySend
  <2>3. PICK s \in Seq(Seq(Event)) : s = sent[c]  BY AnyTypesAt
  <2>4. evs \in Seq(Event)
    <3>1. Len(s) + 1 \in Nat /\ sizes \in Seq(Nat)  BY ClientAssumption
    <3> QED  BY <2>1, <2>3, <3>1, EventsType
  <2>5. BatchFrames(c, evs) # <<>>  BY <2>4, BatchFramesType
  <2>6. tofeed'[c] = BatchFrames(c, evs) /\ cpc'[c] \in {"drain", "feed"}
    BY <1>2, <2>1, <2>5, FeedOnEffect
  <2>7. sent'[c] = Append(s, evs)  BY <2>1, <2>3 DEF ClientInv, ClientTypeOK
  <2>8. sent'[c][Len(sent'[c])] = evs
    <3>1. Len(Append(s, evs)) = Len(s) + 1 /\ Append(s, evs)[Len(s) + 1] = evs
      BY <2>4, AppendProperties
    <3> QED  BY <2>7, <3>1
  <2> QED  BY <2>2, <2>6, <2>8 DEF Writing
<1>10. ASSUME NEW sizes \in Batches  PROVE ~SerializeFails(c, sizes)
  BY <1>2 DEF SerializeFails
<1> QED  BY <1>3, <1>4, <1>5, <1>7, <1>8, <1>9, <1>10 DEF ClientStep, ClientRuntime, ClientChoice

(* A step takes no time; a new await starts its timer again.               *)
Clocked(c) == /\ timer'[c] = (IF Restarts(c) THEN 0 ELSE timer[c])
              /\ phase'[c] = (IF Writing(c)' THEN phase[c] ELSE 0)

LEMMA PacedClientStep ==
    ASSUME ClientInv, AnyServerTypes, NEW c \in Conns, Good(c), ClientStep(c), ClientInv',
           timer[c] \in Nat, phase[c] \in Nat, Paced(c), Clocked(c)
    PROVE  Paced(c)'
<1>1. CASE ~Writing(c)'
  <2>1. phase'[c] = 0  BY <1>1 DEF Clocked
  <2> QED  BY <1>1, <2>1 DEF Paced, Writing
<1>2. CASE Writing(c)'
  <2>1. phase'[c] = phase[c] /\ WriteLen \in Nat  BY <1>2, TimedClientAssumption DEF Clocked
  <2>2. CASE /\ ~Writing(c) /\ cpc'[c] \in {"feed", "drain"}
             /\ tofeed'[c] = BatchFrames(c, sent'[c][Len(sent'[c])])
    <3>1. tofeed'[c] \in Seq(FrameSet)  BY DEF ClientInv, ClientTypeOK
    <3>2. Fed(c)' = 0  BY <2>2, <3>1 DEF Fed
    <3>3. phase'[c] = 0  BY <2>1, <2>2 DEF Paced
    <3>4. timer'[c] = 0
      <4>1. cpc'[c] # cpc[c]  BY <2>2 DEF Writing
      <4> QED  BY <4>1 DEF Clocked, Restarts
    <3>5. WriteLen * 0 = 0 /\ WriteLen * (0 + 1) = WriteLen  BY <2>1
    <3> QED  BY <1>2, <2>1, <3>2, <3>3, <3>4, <3>5 DEF Paced
  <2>3. CASE /\ cpc[c] = "feed" /\ sent'[c] = sent[c] /\ tofeed[c] # <<>>
             /\ tofeed'[c] = Tail(tofeed[c])
    <3>1. InSend(c)  BY <2>3 DEF InSend
    <3>2. PICK x \in Nat : x = Fed(c)  BY <3>1, FedType
    <3>3. Fed(c)' = x + 1
      <4>1. PICK t \in Seq(FrameSet) : t = tofeed[c]  BY AnyTypesAt
      <4>2. Len(Tail(t)) = Len(t) - 1 /\ Len(t) \in Nat  BY <2>3, <4>1
      <4>3. PICK l \in Nat : l = Len(BatchFrames(c, sent[c][Len(sent[c])]))
        BY <3>1, FedType
      <4>4. x = l - Len(t)  BY <3>2, <4>1, <4>3 DEF Fed
      <4>5. Fed(c)' = l - Len(Tail(t))  BY <2>3, <4>1, <4>3 DEF Fed
      <4>6. PICK k \in Nat : k = Len(t)  BY <4>2
      <4>7. Fed(c)' = l - (k - 1) /\ x = l - k  BY <4>2, <4>4, <4>5, <4>6
      <4>8. l - (k - 1) = (l - k) + 1  OBVIOUS
      <4> QED  BY <4>7, <4>8
    <3>4. PICK y \in Nat : y = WriteLen * (x + 1)
      <4>1. PICK z \in Nat : z = x + 1  OBVIOUS
      <4>2. WriteLen * z \in Nat  BY <2>1, OneTimeoutMore
      <4> QED  BY <4>1, <4>2
    <3>5. c \in WriteTimeouts => phase'[c] <= y  BY <2>1, <2>3, <3>2, <3>4 DEF Paced
    <3>6. WriteLen * ((x + 1) + 1) = y + WriteLen
      <4>1. x + 1 \in Nat  OBVIOUS
      <4> QED  BY <2>1, <3>4, <4>1, OneTimeoutMore
    <3>7. cpc'[c] \in {"drain", "flush"} => timer'[c] = 0
      BY <2>3 DEF Clocked, Restarts
    <3>8. c \in WriteTimeouts => /\ phase'[c] <= y + 0 /\ phase'[c] <= y + WriteLen
                                 /\ 0 <= WriteLen
      BY <2>1, <3>5
    <3> QED  BY <1>2, <3>3, <3>4, <3>6, <3>7, <3>8 DEF Paced
  <2>4. CASE /\ cpc[c] \in {"drain", "flush"} /\ sent'[c] = sent[c] /\ tofeed'[c] = tofeed[c]
             /\ seen'[c] = seen[c]
             /\ cpc'[c] = cpc[c] \/ (cpc[c] = "drain" /\ cpc'[c] = "feed")
    <3>1. InSend(c)  BY <2>4 DEF InSend
    <3>2. PICK x \in Nat : x = Fed(c)  BY <3>1, FedType
    <3>3. Fed(c)' = x  BY <2>4, <3>2 DEF Fed
    <3>4. PICK y \in Nat : y = WriteLen * x  BY <2>1, OneTimeoutMore
    <3>5. WriteLen * (x + 1) = y + WriteLen  BY <2>1, <3>4, OneTimeoutMore
    <3>6. c \in WriteTimeouts => timer[c] <= WriteLen /\ phase[c] <= y + timer[c]
      BY <2>4, <3>2, <3>4 DEF Paced
    <3>7. c \in WriteTimeouts => phase[c] <= y + WriteLen  BY <2>1, <3>6
    <3>8. cpc'[c] = cpc[c] => timer'[c] = timer[c]  BY <2>4 DEF Clocked, Restarts
    <3>9. CASE cpc'[c] = cpc[c]
      BY <1>2, <2>1, <2>4, <3>3, <3>4, <3>6, <3>8, <3>9 DEF Paced
    <3>10. CASE cpc'[c] = "feed"
      BY <1>2, <2>1, <3>3, <3>5, <3>7, <3>10 DEF Paced
    <3> QED  BY <2>4, <3>9, <3>10
  <2> QED  BY <1>2, <2>2, <2>3, <2>4, WritingStep
<1> QED  BY <1>1, <1>2

(* A step of another connection, or of the server.                         *)
LEMMA PacedElsewhere ==
    ASSUME NEW c, Paced(c), Clocked(c), cpc'[c] = cpc[c], sent'[c] = sent[c],
           tofeed'[c] = tofeed[c], seen'[c] = seen[c]
    PROVE  Paced(c)'
<1>1. timer'[c] = timer[c]  BY DEF Clocked, Restarts
<1>2. Writing(c)' <=> Writing(c)  BY DEF Writing
<1>3. Fed(c)' = Fed(c)  BY DEF Fed
<1>4. phase'[c] = phase[c]  BY <1>2 DEF Clocked, Paced
<1> QED  BY <1>1, <1>2, <1>3, <1>4 DEF Paced

(* Time passes only for an await whose timeout has not run out.            *)
LEMMA PacedTick ==
    ASSUME ClientInv, AnyServerTypes, NEW c \in Conns, Good(c), Tick,
           timer \in [Conns -> Nat], phase \in [Conns -> Nat], Paced(c)
    PROVE  Paced(c)'
<1>1. UNCHANGED <<cpc, sent, tofeed>>  BY DEF Tick, vars, clientVars
<1>2. /\ ~ClientReady(c) /\ ~Due(c)
      /\ timer'[c] = (IF cpc[c] \in {"drain", "flush", "wait"} /\ timer[c] < Limit(c)
                      THEN timer[c] + 1 ELSE timer[c])
      /\ phase'[c] = phase[c] \/ (Writing(c) /\ phase'[c] = phase[c] + 1)
  BY DEF Tick
<1>3. timer[c] \in Nat /\ phase[c] \in Nat /\ WriteLen \in Nat  BY TimedClientAssumption
<1>4. Fed(c)' = Fed(c) /\ (Writing(c)' <=> Writing(c))  BY <1>1 DEF Fed, Writing
<1>5. cpc[c] # "feed"  BY <1>2 DEF ClientReady
<1>6. ~Writing(c) => phase'[c] = 0  BY <1>2 DEF Paced
<1>7. ASSUME c \in WriteTimeouts, cpc[c] \in {"drain", "flush"}
      PROVE  timer'[c] <= WriteLen /\ phase'[c] <= WriteLen * Fed(c) + timer'[c]
  <2>1. timer[c] <= WriteLen /\ phase[c] <= WriteLen * Fed(c) + timer[c]
    BY <1>7 DEF Paced
  <2>2. Limit(c) = WriteLen  BY <1>7 DEF Limit
  <2>3. timer[c] # WriteLen  BY <1>2, <1>7, <2>2 DEF Due, WriteTimed
  <2>4. timer[c] < WriteLen  BY <1>3, <2>1, <2>3
  <2>5. timer'[c] = timer[c] + 1  BY <1>2, <1>7, <2>2, <2>4
  <2>6. PICK y \in Nat : y = WriteLen * Fed(c)
    <3>1. InSend(c)  BY <1>7 DEF InSend
    <3>2. Fed(c) \in Nat  BY <3>1, FedType
    <3> QED  BY <1>3, <3>2, OneTimeoutMore
  <2>7. phase'[c] <= phase[c] + 1  BY <1>2, <1>3
  <2>8. phase[c] <= y + timer[c]  BY <2>1, <2>6
  <2>9. phase'[c] \in Nat  BY <1>2, <1>3
  <2>10. phase'[c] <= y + (timer[c] + 1) /\ timer[c] + 1 <= WriteLen
    BY <1>3, <2>4, <2>7, <2>8, <2>9
  <2> QED  BY <2>5, <2>6, <2>10
<1> QED  BY <1>1, <1>4, <1>5, <1>6, <1>7 DEF Paced

LEMMA TimedStart ==
    ASSUME TimedInit
    PROVE  TimedInv
<1>1. AnyServerInv  BY AnyServerStart DEF TimedInit
<1>2. timer \in [Conns -> Nat] /\ phase \in [Conns -> Nat]  BY DEF TimedInit
<1>3. ASSUME NEW c \in Conns  PROVE Paced(c)
  BY <1>3 DEF TimedInit, Init, ClientInit, Paced
<1> QED  BY <1>1, <1>2, <1>3 DEF TimedInv

LEMMA TimedNextInv ==
    ASSUME TimedInv, [TimedNext]_timedVars
    PROVE  TimedInv'
<1>1. /\ ClientInv /\ AnyServerTypes /\ AnyServerInv
      /\ timer \in [Conns -> Nat] /\ phase \in [Conns -> Nat]
      /\ \A c \in Conns : Good(c) /\ Paced(c)
  BY DEF TimedInv, AnyServerInv, Good
<1>2. AnyServerInv'
  <2>1. [Next]_vars  BY DEF TimedNext, timedVars, Step, Tick
  <2> QED  BY <1>1, <2>1, AnyServerNext
<1>3. CASE Step
  <2>1. PICK c \in Conns : ClientStep(c) \/ AnyServerStep(c)  BY <1>3 DEF Step, Next
  <2>2. \A d \in Conns : Clocked(d)  BY <1>3 DEF Step, Clocked
  <2>3. timer' \in [Conns -> Nat] /\ phase' \in [Conns -> Nat]  BY <1>1, <1>3 DEF Step
  <2>4. ASSUME NEW d \in Conns, d # c  PROVE Paced(d)'
    <3>1. Same(d)  BY <1>1, <2>1, <2>4, OthersSame
    <3> QED  BY <1>1, <2>2, <3>1, PacedElsewhere DEF Same
  <2>5. Paced(c)'
    <3>1. CASE ClientStep(c)
      <4>1. ClientInv' /\ timer[c] \in Nat /\ phase[c] \in Nat  BY <1>1, <1>2 DEF AnyServerInv
      <4> QED  BY <1>1, <2>2, <3>1, <4>1, PacedClientStep
    <3>2. CASE AnyServerStep(c)
      <4>1. UNCHANGED <<cpc, sent, tofeed, seen>>  BY <3>2 DEF AnyServerStep, clientVars
      <4> QED  BY <1>1, <2>2, <4>1, PacedElsewhere
    <3> QED  BY <2>1, <3>1, <3>2
  <2> QED  BY <1>2, <2>3, <2>4, <2>5 DEF TimedInv
<1>4. CASE Tick
  <2>1. timer' \in [Conns -> Nat] /\ phase' \in [Conns -> Nat]  BY <1>1, <1>4 DEF Tick
  <2>2. \A d \in Conns : Paced(d)'  BY <1>1, <1>4, PacedTick
  <2> QED  BY <1>2, <2>1, <2>2 DEF TimedInv
<1>5. CASE UNCHANGED timedVars
  <2>1. UNCHANGED <<cpc, sent, tofeed, timer, phase>>
    BY <1>5 DEF timedVars, vars, clientVars
  <2>2. \A d \in Conns : Paced(d)'
    BY <1>1, <2>1 DEF Paced, Fed, Writing
  <2> QED  BY <1>1, <1>2, <2>1, <2>2 DEF TimedInv
<1> QED  BY <1>3, <1>4, <1>5 DEF TimedNext

-----------------------------------------------------------------------------
(* TimedClient's invariant, of every behaviour of the client on its clock. *)
THEOREM TimedInvariant == TimedSpec => []TimedInv
<1>1. TimedInit => TimedInv  BY TimedStart
<1>2. TimedInv /\ [TimedNext]_timedVars => TimedInv'  BY TimedNextInv
<1> QED  BY <1>1, <1>2, PTL DEF TimedSpec

(* Client::send returns Ok on the first acknowledgement that covers its    *)
(* batch and on nothing else, whatever the server writes: no partial Ack,  *)
(* Ack(0), stale Ack that is too low, other frame or decoding error does,  *)
(* and nothing is read after it.                                           *)
THEOREM OkOnlyWhenCovered == TimedSpec => []OkAtFirstCoveringAck
<1>1. TimedInv => OkAtFirstCoveringAck
  BY DEF TimedInv, AnyServerInv, Reads, OkAtFirstCoveringAck
<1> QED  BY <1>1, TimedInvariant, PTL

(* What a client that stops after an error leaves on the wire is a row of  *)
(* whole batches in the order of its calls, at most the last one torn:     *)
(* neither the write buffer that outlives a call nor a send that fails     *)
(* half-way ever puts one batch inside another.                            *)
THEOREM WireIsBatches == TimedSpec => []WritesBatches
<1>1. TimedInv => WritesBatches
  BY DEF TimedInv, AnyServerInv, Batched, WritesBatches
<1> QED  BY <1>1, TimedInvariant, PTL

(* With a write_timeout, send is out of its writing phase after one        *)
(* timeout for each frame of its batch and one for the flush, however      *)
(* slowly the server reads and however many timeouts the code restarts.    *)
THEOREM WritingIsBounded == TimedSpec => []WritePhaseBounded
<1>1. ASSUME TimedInv, NEW c \in WriteTimeouts, c \in Conns, Writing(c)
      PROVE  phase[c] <= WriteLen * Timeouts(c)
  <2>1. ClientInv /\ AnyServerTypes /\ Good(c) /\ Paced(c) /\ phase[c] \in Nat /\ timer[c] \in Nat
    BY <1>1 DEF TimedInv, AnyServerInv, Good
  <2>2. InSend(c) /\ WriteLen \in Nat  BY <1>1, TimedClientAssumption DEF Writing, InSend
  <2>3. PICK x \in Nat, t \in Nat, l \in Nat :
          /\ x = Fed(c) /\ t = Len(tofeed[c])
          /\ l = Len(BatchFrames(c, sent[c][Len(sent[c])])) /\ x + t = l
    BY <1>1, <2>1, <2>2, FedType
  <2>4. Timeouts(c) = l + 1  BY <2>3 DEF Timeouts, Last
  <2>5. phase[c] <= WriteLen * x + WriteLen
    <3>1. PICK y \in Nat : y = WriteLen * x /\ WriteLen * (x + 1) = y + WriteLen
      BY <2>2, OneTimeoutMore
    <3>2. CASE cpc[c] = "feed"  BY <1>1, <2>1, <2>3, <3>1, <3>2 DEF Paced
    <3>3. CASE cpc[c] \in {"drain", "flush"}
      <4>1. timer[c] <= WriteLen /\ phase[c] <= y + timer[c]
        BY <1>1, <2>1, <2>3, <3>1, <3>3 DEF Paced
      <4> QED  BY <2>1, <2>2, <3>1, <4>1
    <3> QED  BY <1>1, <3>2, <3>3 DEF Writing
  <2>6. WriteLen * x \in Nat /\ WriteLen * l \in Nat /\ WriteLen * x <= WriteLen * l
        /\ WriteLen * (l + 1) = WriteLen * l + WriteLen
    BY <2>2, <2>3, OneTimeoutMore, AtMostAll
  <2> QED  BY <2>1, <2>2, <2>4, <2>5, <2>6
<1>2. TimedInv => WritePhaseBounded
  BY <1>1, BuilderAssumption DEF WritePhaseBounded
<1> QED  BY <1>2, TimedInvariant, PTL
=============================================================================
