---------------------------- MODULE AnyPeerProofs ----------------------------
(***************************************************************************)
(* The server facing peers that write what they like: the same books stay  *)
(* right, because no step of the server trusts its peer.                   *)
(***************************************************************************)
EXTENDS AnyPeer, ServerProofs

(* A peer moves bytes and its own end of the stream, and nothing else.     *)
LEMMA PeerKeeps ==
    ASSUME ServerInv, NEW c \in Conns, PeerSide(c)
    PROVE  ServerInv'
<1>1. TransportTypeOK  BY DEF ServerInv, ServerTypes
<1>2. UNCHANGED <<connVars, serverVars>>  BY DEF PeerSide
<1>3. CASE PeerConnects(c)
  <2>1. TransportTypeOK' /\ \A d \in Conns : link'[d] \in {"none", "backlog"}
                                                => link[d] \in {"none", "backlog"}
    BY <1>1, <1>3 DEF PeerConnects, TransportTypeOK
  <2> QED  BY <1>2, <2>1, EnvironmentPreserves
<1>4. CASE PeerReads(c)
  <2>1. s2c[c] \in Seq(FrameSet) /\ s2c[c] # <<>>
    BY <1>1, <1>4 DEF PeerReads, Readable, TransportTypeOK
  <2>2. Tail(s2c[c]) \in Seq(FrameSet)  BY <2>1
  <2>3. TransportTypeOK' /\ link' = link
    BY <1>1, <1>4, <2>2 DEF PeerReads, TransportTypeOK
  <2> QED  BY <1>2, <2>3, EnvironmentPreserves
<1>5. CASE PeerCloses(c)
  <2>1. TransportTypeOK' /\ link' = link
    BY <1>1, <1>5 DEF PeerCloses, TransportTypeOK, Ends
  <2> QED  BY <1>2, <2>1, EnvironmentPreserves
<1>6. CASE \E f \in PeerFrames : PeerWrites(c, f)
  <2>1. PICK f \in FrameSet : PeerWrites(c, f)  BY <1>6, PeerAssumption
  <2>2. Append(c2s[c], f) \in Seq(FrameSet)  BY <1>1 DEF TransportTypeOK
  <2>3. TransportTypeOK' /\ link' = link
    BY <1>1, <2>1, <2>2 DEF PeerWrites, Written, TransportTypeOK
  <2> QED  BY <1>2, <2>3, EnvironmentPreserves
<1> QED  BY <1>3, <1>4, <1>5, <1>6 DEF PeerSide

(* Every step of the server or of a peer keeps the invariant.              *)
LEMMA PeerInvKept ==
    ASSUME ServerInv, [Next]_vars
    PROVE  ServerInv'
<1>1. CASE UNCHANGED vars
  <2>1. UNCHANGED <<connVars, serverVars>> /\ TransportTypeOK' /\ link' = link
    BY <1>1 DEF vars, transportVars, ServerInv, ServerTypes, TransportTypeOK
  <2> QED  BY <2>1, EnvironmentPreserves
<1> QED  BY <1>1, PeerKeeps, HandlerPreserves, ServerPreserves DEF Next, Quiet

(* Whatever its peers write, the server's inductive invariant holds.       *)
THEOREM ServerInvHolds == Spec => []ServerInv
<1>1. Init => ServerInv  BY ServerStarts DEF Init
<1>2. ServerInv /\ [Next]_vars => ServerInv'  BY PeerInvKept
<1> QED  BY <1>1, <1>2, PTL DEF Spec

(* No peer can make a handler wait for an acknowledgement nobody can send, *)
(* nor have a batch acknowledged while the application still holds it.     *)
THEOREM AckNeverLostToAPeer == Spec => []NoLostAck
<1>1. ServerInv => NoLostAck  BY DEF ServerInv
<1> QED  BY <1>1, ServerInvHolds, PTL

(* No peer can make the gauge drift or a connection hold two batches.      *)
THEOREM BooksSurviveAPeer == Spec => [](GaugeExact /\ OneOutstanding)
<1>1. ServerInv => GaugeExact /\ OneOutstanding  BY DEF ServerInv
<1> QED  BY <1>1, ServerInvHolds, PTL

(* What a batch carries is right too, for every peer.                      *)
LEMMA CoversHolds == Spec => [](ServerInv /\ Covers)
<1>1. Init => ServerInv /\ Covers  BY ServerStarts, CoversStarts DEF Init
<1>2. ServerInv /\ Covers /\ [Next]_vars => (ServerInv /\ Covers)'
  <2> SUFFICES ASSUME ServerInv, Covers, [Next]_vars PROVE Covers'
    BY PeerInvKept
  <2>1. CASE UNCHANGED <<connVars, serverVars>>  BY <2>1, EnvironmentKeepsCovers
  <2>2. CASE \E c \in Conns : Handler(c) /\ UNCHANGED serverVars
    BY <2>2, HandlerKeepsCovers
  <2>3. CASE ServerStep  BY <2>3, ServerKeepsCovers
  <2> QED  BY <2>1, <2>2, <2>3 DEF Next, PeerSide, Quiet, vars
<1> QED  BY <1>1, <1>2, PTL DEF Spec

(* Whatever frames a peer writes (compressed ones that hold more than the  *)
(* window, sequence numbers with gaps, windows of 0): the batch handed     *)
(* over has exactly the announced number of events, and the Ack that       *)
(* answers it satisfies a client that waits for `seq >= n`.                *)
THEOREM AckCoversEveryWindow == Spec => []AckCoversWindow
<1>1. Covers => AckCoversWindow  BY CoversMeans DEF AckCoversWindow
<1> QED  BY <1>1, CoversHolds, PTL

-----------------------------------------------------------------------------
(* What recv returns is what the peer wrote *)

(* Frames of a batch that is being collected, or waits to be dispatched:   *)
(* a Window(n) and frames that hold the events collected so far, evs, with *)
(* sequence numbers up to last; all that the frames hold has been taken    *)
(* unless the window is full.                                              *)
Laid(fs, n, evs, last, items, from) ==
    /\ Holds(fs, evs, items, from)
    /\ \A k \in DOMAIN evs : items[k].seq <= last
    /\ \A i \in 2..Len(fs) : from[i] < n
    /\ Filled(fs, from) >= Len(evs)
    /\ Len(evs) < n => Filled(fs, from) = Len(evs)

Starts(fs, n) ==
    /\ fs # <<>> /\ fs[1].type = "W" /\ fs[1].n = n
    /\ \A i \in 2..Len(fs) : fs[i].type \in {"J", "C"}

LaidOut(fs, n, evs, last) ==
    \E items \in [DOMAIN evs -> Enclosed(fs)], from \in [DOMAIN fs -> 0..Len(evs)] :
        Laid(fs, n, evs, last, items, from)

Partial(fs, n, evs, last) == Starts(fs, n) /\ LaidOut(fs, n, evs, last)

(* The frames of w after the first a and up to the b-th.                   *)
Part(w, a, b) == SubSeq(w, a + 1, b)

(* How many of its peer's frames the handler has read, while its end of    *)
(* the stream is open, which it is until the task ends; the pipe has the   *)
(* others.                                                                 *)
Taken(c) == Len(wire[c]) - Len(c2s[c])

Piped(c) ==
    /\ link[c] \in {"none", "backlog"} => wire[c] = <<>> /\ c2s[c] = <<>>
    /\ spc[c] \notin {"ending", "done"} => sEnd[c] = "open"
    /\ sEnd[c] = "open" => /\ Len(c2s[c]) <= Len(wire[c])
                           /\ \A i \in 1..Len(c2s[c]) : c2s[c][i] = wire[c][Taken(c) + i]

(* The batch of connection c that is in the channel.                       *)
Queued(c) == {b \in Range(queue) : b.conn = c}

(* After the first e frames of connection c, which recv has returned, come *)
(* those of the batch in the channel; or, when there is none, those of the *)
(* batch that is being collected.  There the handler has stopped reading.  *)
Collecting == {"collect", "dispatch"}

Ahead(c, e) ==
    /\ \A b \in Queued(c) : \E q \in (e + 1)..Len(wire[c]) :
            /\ IsBatch(Part(wire[c], e, q), b.events)
            /\ sEnd[c] = "open" => q = Taken(c)
    /\ sEnd[c] = "open" /\ Queued(c) = {} =>
            IF spc[c] \in Collecting
            THEN /\ e < Taken(c)
                 /\ Partial(Part(wire[c], e, Taken(c)), window[c], events[c], last_seq[c])
            ELSE e = Taken(c)

Cuts(w, g, cut) ==
    /\ cut[0] = 0
    /\ \A k \in 1..Len(g) : /\ cut[k - 1] < cut[k]
                            /\ IsBatch(Part(w, cut[k - 1], cut[k]), g[k])

Traced(c) ==
    \E cut \in [0..Len(got[c]) -> 0..Len(wire[c])] :
        /\ Cuts(wire[c], got[c], cut)
        /\ rx # "dropped" => Ahead(c, cut[Len(got[c])])

WireInv == wire \in [Conns -> Seq(FrameSet)] /\ \A c \in Conns : Piped(c) /\ Traced(c)

(* Frames in order have increasing sequence numbers, between the one before*)
(* them and the one the handler remembers after them.                      *)
LEMMA SeqsIncrease ==
    ASSUME NEW fs \in Seq(FrameSet), NEW prev \in Nat, InOrder(fs, prev)
    PROVE  /\ \A i \in DOMAIN fs : fs[i].seq \in Nat /\ prev < fs[i].seq
           /\ \A i, j \in DOMAIN fs : i < j => fs[i].seq < fs[j].seq
           /\ PrevSeq(fs, Len(fs) + 1, prev) \in Nat
           /\ prev <= PrevSeq(fs, Len(fs) + 1, prev)
           /\ \A i \in DOMAIN fs : fs[i].seq <= PrevSeq(fs, Len(fs) + 1, prev)
<1>1. DOMAIN fs = 1..Len(fs) /\ Len(fs) \in Nat  OBVIOUS
<1>2. \A i \in DOMAIN fs : fs[i].seq \in Nat /\ fs[i].seq >= prev + i  BY SeqsGrow
<1>3. \A i \in DOMAIN fs : fs[i].seq \in Nat /\ prev < fs[i].seq  BY <1>1, <1>2
<1>4. \A i \in DOMAIN fs : i # 1 => fs[i - 1].seq < fs[i].seq
  BY <1>1, <1>2 DEF InOrder, FrameOk, SeqOk, PrevSeq
<1>5. ASSUME NEW i \in DOMAIN fs, NEW j \in DOMAIN fs, i < j
      PROVE  fs[i].seq < fs[j].seq
  <2> DEFINE low == {k \in DOMAIN fs : i < k /\ ~(fs[i].seq < fs[k].seq)}
  <2>1. SUFFICES ASSUME low # {} PROVE FALSE  BY <1>5
  <2>2. low \in SUBSET Nat  BY <1>1
  <2>3. PICK m \in low : \A k \in low : m <= k
    <3> HIDE DEF low
    <3> QED  BY <2>1, <2>2, LeastNatural
  <2>4. m \in 1..Len(fs) /\ i \in 1..Len(fs) /\ i < m /\ ~(fs[i].seq < fs[m].seq)
    BY <1>1, <2>3
  <2>5. m - 1 \in 1..Len(fs) /\ i <= m - 1 /\ ~(m <= m - 1) /\ m # 1  BY <2>4
  <2>6. m - 1 \notin low  BY <2>3, <2>5
  <2>7. fs[i].seq <= fs[m - 1].seq  BY <1>1, <1>2, <2>4, <2>5, <2>6
  <2>8. fs[m - 1].seq < fs[m].seq  BY <1>1, <1>4, <2>4, <2>5
  <2> QED  BY <1>1, <1>2, <2>4, <2>5, <2>7, <2>8
<1>6. CASE Len(fs) = 0
  <2>1. PrevSeq(fs, Len(fs) + 1, prev) = prev /\ DOMAIN fs = {}
    BY <1>1, <1>6 DEF PrevSeq
  <2> QED  BY <2>1
<1>7. CASE Len(fs) # 0
  <2>1. Len(fs) \in DOMAIN fs /\ PrevSeq(fs, Len(fs) + 1, prev) = fs[Len(fs)].seq
    BY <1>1, <1>7 DEF PrevSeq
  <2>2. \A i \in DOMAIN fs : fs[i].seq <= fs[Len(fs)].seq
    BY <1>1, <1>2, <1>5, <2>1
  <2> QED  BY <1>3, <1>5, <2>1, <2>2
<1> QED  BY <1>3, <1>5, <1>6, <1>7

(* The handler accepts frame f with room in the window, and takes more.    *)
Accepted(f, room, prev, more) ==
    more = Contents(DecodeWithLimit(f, ServerMax), room) /\ InOrder(more, prev)

(* What it takes is what f holds, cut off where the window is full.        *)
Yields(f, room, more) ==
    /\ f.type \in {"J", "C"}
    /\ Inside(f) \in Seq(FrameSet) /\ more \in Seq(FrameSet)
    /\ \A j \in 1..Len(more) : more[j] = Inside(f)[j] /\ more[j].type = "J"
    /\ Len(more) <= Len(Inside(f)) /\ Len(more) <= room
    /\ Len(more) = room \/ Len(more) = Len(Inside(f))

(* What a frame that is accepted contributes to its batch.                 *)
LEMMA ContentsAre ==
    ASSUME NEW f \in FrameSet, NEW room \in Nat, room > 0, NEW prev \in Nat,
           NEW more, Accepted(f, room, prev, more)
    PROVE  Yields(f, room, more)
<1> USE DEF Accepted, Yields
<1> DEFINE d == DecodeWithLimit(f, ServerMax)
<1>1. d \in FrameSet  BY DecodeType, ConnectionAssumption
<1>2. more \in Seq(FrameSet) /\ Len(more) <= room  BY <1>1, ContentsType
<1>3. \A j \in 1..Len(more) : more[j].type = "J"
  <2>1. DOMAIN more = 1..Len(more)  BY <1>2
  <2> QED  BY <2>1 DEF InOrder, FrameOk
<1>4. d.type # "C" => more = <<d>>  BY DEF Contents
<1>5. d.type \in {"J", "C"}
  <2>1. SUFFICES ASSUME d.type # "C" PROVE d.type = "J"  OBVIOUS
  <2>2. more[1] = d /\ Len(more) = 1  BY <1>4, <2>1
  <2> QED  BY <1>3, <2>2
<1>6. d = f
  <2>1. Bad("FrameTooLarge").type = "X"  BY DEF Bad
  <2> QED  BY <1>5, <2>1 DEF DecodeWithLimit
<1>7. CASE f.type = "J"
  <2>1. Inside(f) = <<f>> /\ more = <<f>>  BY <1>4, <1>6, <1>7 DEF Inside
  <2> HIDE DEF d
  <2> QED  BY <1>2, <1>3, <1>7, <2>1
<1>8. CASE f.type = "C"
  <2> DEFINE m == Min({Len(f.inner), room})
  <2>1. f.inner \in Seq(InnerFrames)  BY <1>8, FrameFields
  <2>2. m \in Nat /\ m <= room /\ m <= Len(f.inner) /\ (m = room \/ m = Len(f.inner))
    BY <2>1, MinOfTwo
  <2>3. Inside(f) = f.inner  BY <1>8 DEF Inside
  <2>4. more = [i \in 1..m |-> DecodeWithLimit(f.inner[i], ServerMax)]
    BY <1>6, <1>8 DEF Contents
  <2> HIDE DEF m, d
  <2>5. Len(more) = m /\ \A j \in 1..m : more[j] = DecodeWithLimit(f.inner[j], ServerMax)
    BY <2>2, <2>4
  <2>6. f.inner \in Seq(FrameSet)  BY <2>1 DEF FrameSet
  <2>7. ASSUME NEW j \in 1..Len(more)  PROVE more[j] = f.inner[j]
    <3>1. Bad("FrameTooLarge").type = "X"  BY DEF Bad
    <3> QED  BY <1>3, <2>5, <3>1 DEF DecodeWithLimit
  <2> QED  BY <1>2, <1>3, <1>8, <2>2, <2>3, <2>5, <2>6, <2>7
<1> QED  BY <1>5, <1>6, <1>7, <1>8

(* What a frame holds is a sequence of frames.                             *)
LEMMA InsideType ==
    ASSUME NEW f \in FrameSet
    PROVE  /\ Inside(f) \in Seq(FrameSet) /\ Len(Inside(f)) \in Nat
           /\ DOMAIN Inside(f) = 1..Len(Inside(f))
<1>1. CASE f.type = "J"
  <2>1. Inside(f) = <<f>>  BY <1>1 DEF Inside
  <2> QED  BY <2>1
<1>2. CASE f.type = "C"
  <2>1. Inside(f) = f.inner /\ f.inner \in Seq(InnerFrames)  BY <1>2, FrameFields DEF Inside
  <2>2. f.inner \in Seq(FrameSet)  BY <2>1 DEF FrameSet
  <2> QED  BY <2>1, <2>2
<1>3. CASE f.type \notin {"J", "C"}
  <2>1. Inside(f) = <<>>  BY <1>3 DEF Inside
  <2> QED  BY <2>1
<1> QED  BY <1>1, <1>2, <1>3

(* Of q frames the first m are taken; only a full window leaves some.      *)
Clipped(e, m, q, n) == m <= q /\ (m = n - e \/ m = q)

(* After e events, the window of n is full or everything has been taken.   *)
LEMMA RoomLeft ==
    ASSUME NEW e \in Nat, NEW m \in Nat, NEW q \in Nat, NEW n \in Nat, Clipped(e, m, q, n)
    PROVE  e + q >= e + m /\ (e + m < n => e + q = e + m)
  BY DEF Clipped

(* fs, of L frames, holds evs, of e events, and f continues it to gs with  *)
(* the m frames of more, which is all of what f holds or fills the window. *)
Further(fs, L, evs, e, n, last, items, from, f, gs, more, m, ins, evs2) ==
    /\ L = Len(fs) /\ e = Len(evs) /\ m = Len(more) /\ L > 0 /\ e < n
    /\ Laid(fs, n, evs, last, items, from)
    /\ gs = Append(fs, f) /\ ins = Inside(f)
    /\ \A j \in 1..m : more[j] = ins[j] /\ more[j].type = "J"
    /\ m <= Len(ins) /\ m <= n - e /\ (m = n - e \/ m = Len(ins))
    /\ InOrder(more, last)
    /\ Len(evs2) = e + m
    /\ \A k \in 1..e : evs2[k] = evs[k]
    /\ \A j \in 1..m : evs2[e + j] = more[j].data

(* One more frame.                                                         *)
LEMMA LaidFurther ==
    ASSUME NEW fs \in Seq(FrameSet), NEW L \in Nat, NEW evs \in Seq(Event), NEW e \in Nat,
           NEW n \in Nat, NEW last \in Nat,
           NEW items \in [1..e -> Enclosed(fs)], NEW from \in [1..L -> 0..e],
           NEW f \in FrameSet, NEW gs \in Seq(FrameSet),
           NEW more \in Seq(FrameSet), NEW m \in Nat, NEW ins \in Seq(FrameSet),
           NEW evs2 \in Seq(Event),
           Further(fs, L, evs, e, n, last, items, from, f, gs, more, m, ins, evs2)
    PROVE  LaidOut(gs, n, evs2, PrevSeq(more, m + 1, last))
<1> DEFINE items2 == [k \in 1..(e + m) |-> IF k <= e THEN items[k] ELSE more[k - e]]
           from2 == [i \in 1..(L + 1) |-> IF i <= L THEN from[i] ELSE e]
<1> USE DEF Further
<1>1. PICK last2 : last2 = PrevSeq(more, m + 1, last)  OBVIOUS
<1>2. /\ \A j \in 1..m : more[j].seq \in Nat /\ last < more[j].seq /\ more[j].seq <= last2
      /\ \A i, j \in 1..m : i < j => more[i].seq < more[j].seq
      /\ last2 \in Nat /\ last <= last2
  <2>1. DOMAIN more = 1..m  OBVIOUS
  <2> QED  BY <1>1, <2>1, SeqsIncrease
<1>3. Len(gs) = L + 1 /\ DOMAIN gs = 1..(L + 1) /\ gs[L + 1] = f /\ \A i \in 1..L : gs[i] = fs[i]
  BY AppendProperties
<1>4. /\ from[1] = 0
      /\ \A i \in 1..(L - 1) : from[i + 1] = from[i] + Len(Inside(fs[i]))
      /\ \A i \in 1..L : \A j \in DOMAIN Inside(fs[i]) :
            from[i] + j \in 1..e => items[from[i] + j] = Inside(fs[i])[j]
      /\ \A k \in 1..e : items[k].type = "J" /\ items[k].data = evs[k]
      /\ \A k, l \in 1..e : k < l => items[k].seq < items[l].seq
      /\ \A k \in 1..e : items[k].seq <= last
      /\ \A i \in 2..L : from[i] < n
      /\ from[L] + Len(Inside(fs[L])) = e
  <2>1. DOMAIN fs = 1..L /\ DOMAIN evs = 1..e  OBVIOUS
  <2>2. Holds(fs, evs, items, from)  BY Zenon DEF Laid
  <2>3. Filled(fs, from) = e  BY Zenon DEF Laid
  <2>4. \A k \in 1..e : items[k].seq <= last  BY <2>1, Zenon DEF Laid
  <2>5. \A i \in 2..L : from[i] < n  BY Zenon DEF Laid
  <2> QED  BY <2>1, <2>2, <2>3, <2>4, <2>5, Zenon DEF Holds, Filled
<1>5. \A k \in 1..e : items[k].seq \in Nat
  <2>1. ASSUME NEW k \in 1..e  PROVE items[k] \in FrameSet
    <3>1. PICK i \in DOMAIN fs : items[k] \in Range(Inside(fs[i]))  BY DEF Enclosed
    <3>2. Inside(fs[i]) \in Seq(FrameSet)  BY InsideType
    <3> QED  BY <3>1, <3>2 DEF Range
  <2> QED  BY <1>4, <2>1, FrameFields
<1>6. \A i \in 1..L : /\ from[i] \in Nat /\ Len(Inside(fs[i])) \in Nat
                      /\ DOMAIN Inside(fs[i]) = 1..Len(Inside(fs[i]))
                      /\ from[i] + Len(Inside(fs[i])) <= e
  <2>1. ASSUME NEW i \in 1..L
        PROVE  /\ from[i] \in Nat /\ Len(Inside(fs[i])) \in Nat
               /\ DOMAIN Inside(fs[i]) = 1..Len(Inside(fs[i]))
    <3>1. fs[i] \in FrameSet  OBVIOUS
    <3>2. from[i] \in 0..e  BY Zenon
    <3>3. from[i] \in Nat  BY <3>2
    <3> QED  BY <3>1, <3>3, InsideType, Zenon
  <2>2. ASSUME NEW i \in 1..L  PROVE from[i] + Len(Inside(fs[i])) <= e
    <3>1. CASE i = L  BY <1>4, <3>1
    <3>2. CASE i # L
      <4>1. i \in 1..(L - 1) /\ i + 1 \in 1..L  BY <3>2
      <4>2. from[i + 1] \in 0..e  BY <4>1, Zenon
      <4> QED  BY <1>4, <4>1, <4>2
    <3> QED  BY <3>1, <3>2
  <2> QED  BY <2>1, <2>2
<1>7. items2 \in [1..(e + m) -> Enclosed(gs)]
  <2>1. Enclosed(fs) \subseteq Enclosed(gs)  BY <1>3 DEF Enclosed
  <2>2. ASSUME NEW j \in 1..m  PROVE more[j] \in Enclosed(gs)
    <3>1. j \in DOMAIN ins /\ more[j] = ins[j]  OBVIOUS
    <3>2. more[j] \in Range(Inside(gs[L + 1]))  BY <1>3, <3>1 DEF Range
    <3>3. L + 1 \in DOMAIN gs  BY <1>3
    <3> QED  BY <3>2, <3>3 DEF Enclosed
  <2>3. ASSUME NEW k \in 1..(e + m)  PROVE items2[k] \in Enclosed(gs)
    <3>1. CASE k <= e
      <4>1. items2[k] = items[k] /\ k \in 1..e  BY <3>1
      <4> QED  BY <2>1, <4>1
    <3>2. CASE ~(k <= e)
      <4>1. items2[k] = more[k - e] /\ k - e \in 1..m  BY <3>2
      <4> QED  BY <2>2, <4>1
    <3> QED  BY <3>1, <3>2
  <2> QED  BY <2>3
<1>8. from2 \in [1..(L + 1) -> 0..(e + m)]
  <2>1. ASSUME NEW i \in 1..(L + 1)  PROVE from2[i] \in 0..(e + m)
    <3>1. CASE i <= L
      <4>1. from2[i] = from[i] /\ i \in 1..L  BY <3>1
      <4>2. from[i] \in 0..e  BY <4>1
      <4> QED  BY <4>1, <4>2
    <3>2. CASE ~(i <= L)  BY <3>2
    <3> QED  BY <3>1, <3>2
  <2> QED  BY <2>1
<1>9. /\ \A k \in 1..e : items2[k] = items[k]
      /\ \A j \in 1..m : items2[e + j] = more[j]
      /\ \A i \in 1..L : from2[i] = from[i]
      /\ from2[L + 1] = e
  <2>1. ASSUME NEW k \in 1..e  PROVE items2[k] = items[k]
    <3>1. k \in 1..(e + m) /\ k <= e  OBVIOUS
    <3> QED  BY <3>1, Zenon
  <2>2. ASSUME NEW j \in 1..m  PROVE items2[e + j] = more[j]
    <3>1. e + j \in 1..(e + m) /\ ~(e + j <= e) /\ (e + j) - e = j  OBVIOUS
    <3> QED  BY <3>1, Zenon
  <2>3. ASSUME NEW i \in 1..L  PROVE from2[i] = from[i]
    <3>1. i \in 1..(L + 1) /\ i <= L  OBVIOUS
    <3> QED  BY <3>1, Zenon
  <2>4. from2[L + 1] = e
    <3>1. L + 1 \in 1..(L + 1) /\ ~(L + 1 <= L)  OBVIOUS
    <3> QED  BY <3>1, Zenon
  <2> QED  BY <2>1, <2>2, <2>3, <2>4, Zenon
<1> HIDE DEF items2, from2
<1>10. from2[1] = 0 /\ \A i \in 2..(L + 1) : from2[i] < n
  <2>1. 1 \in 1..L  OBVIOUS
  <2>2. from2[1] = 0  BY <1>4, <1>9, <2>1, Zenon
  <2>3. ASSUME NEW i \in 2..(L + 1)  PROVE from2[i] < n
    <3>1. i = L + 1 \/ (i \in 2..L /\ i \in 1..L)  OBVIOUS
    <3> QED  BY <1>4, <1>9, <3>1, Zenon
  <2> QED  BY <2>2, <2>3
<1>11. ASSUME NEW i \in 1..L  PROVE from2[i + 1] = from2[i] + Len(Inside(gs[i]))
  <2>1. CASE i = L  BY <1>3, <1>4, <1>9, <2>1
  <2>2. CASE i # L
    <3>1. i \in 1..(L - 1) /\ i + 1 \in 1..L  BY <2>2
    <3> QED  BY <1>3, <1>4, <1>9, <3>1
  <2> QED  BY <2>1, <2>2
<1>12. ASSUME NEW i \in 1..(L + 1), NEW j \in DOMAIN Inside(gs[i]), from2[i] + j \in 1..(e + m)
       PROVE  items2[from2[i] + j] = Inside(gs[i])[j]
  <2>1. CASE i = L + 1
    <3>1. Inside(gs[i]) = ins /\ from2[i] = e  BY <1>3, <1>9, <2>1
    <3>2. j \in 1..m  BY <1>12, <3>1, SMTT(30)
    <3> QED  BY <1>9, <3>1, <3>2, SMTT(30)
  <2>2. CASE i # L + 1
    <3>1. i \in 1..L  BY <2>2
    <3>2. Inside(gs[i]) = Inside(fs[i]) /\ from2[i] = from[i]  BY <1>3, <1>9, <3>1
    <3>3. j \in 1..Len(Inside(fs[i]))  BY <1>6, <3>1, <3>2
    <3>4. from[i] + j \in 1..e  BY <1>6, <3>1, <3>3, SMTT(30)
    <3> QED  BY <1>4, <1>9, <3>1, <3>2, <3>4, SMTT(30)
  <2> QED  BY <2>1, <2>2
<1>13. ASSUME NEW k \in 1..(e + m)
       PROVE  \/ k \in 1..e /\ items2[k] = items[k] /\ evs2[k] = evs[k]
              \/ \E j \in 1..m : k = e + j /\ items2[k] = more[j] /\ evs2[k] = more[j].data
  <2>1. CASE k <= e  BY <1>9, <2>1
  <2>2. CASE ~(k <= e)
    <3>1. k - e \in 1..m /\ k = e + (k - e)  BY <2>2
    <3> QED  BY <1>9, <3>1
  <2> QED  BY <2>1, <2>2
<1>14. ASSUME NEW k \in 1..(e + m)
       PROVE  items2[k].type = "J" /\ items2[k].data = evs2[k] /\ items2[k].seq <= last2
  <2>1. CASE k \in 1..e /\ items2[k] = items[k] /\ evs2[k] = evs[k]
    BY <1>2, <1>4, <1>5, <2>1
  <2>2. CASE \E j \in 1..m : k = e + j /\ items2[k] = more[j] /\ evs2[k] = more[j].data
    BY <1>2, <2>2
  <2> QED  BY <1>13, <2>1, <2>2
<1>15. ASSUME NEW k \in 1..(e + m), NEW l \in 1..(e + m), k < l
       PROVE  items2[k].seq < items2[l].seq
  <2>1. CASE k \in 1..e /\ l \in 1..e  BY <1>4, <1>9, <1>15, <2>1
  <2>2. CASE k \in 1..e /\ ~(l \in 1..e)
    <3>1. PICK j \in 1..m : items2[l] = more[j]  BY <1>13, <2>2
    <3>2. items2[k] = items[k]  BY <1>9, <2>2, Zenon
    <3>3. items[k].seq <= last /\ items[k].seq \in Nat  BY <1>4, <1>5, <2>2, Zenon
    <3>4. last < more[j].seq /\ more[j].seq \in Nat  BY <1>2, Zenon
    <3>5. items[k].seq < more[j].seq  BY <3>3, <3>4, SMTT(30)
    <3> QED  BY <3>1, <3>2, <3>5, Zenon
  <2>3. CASE ~(k \in 1..e)
    <3>1. PICK i \in 1..m : k = e + i /\ items2[k] = more[i]  BY <1>13, <2>3
    <3>2. ~(l \in 1..e)  BY <1>15, <2>3
    <3>3. PICK j \in 1..m : l = e + j /\ items2[l] = more[j]  BY <1>13, <3>2, Zenon
    <3>4. i < j  BY <1>15, <3>1, <3>3
    <3> QED  BY <1>2, <3>1, <3>3, <3>4, Zenon
  <2> QED  BY <2>1, <2>2, <2>3
<1>16. Filled(gs, from2) = e + Len(ins) /\ Len(ins) \in Nat  BY <1>3, <1>9 DEF Filled
<1>17. DOMAIN evs2 = 1..(e + m) /\ Len(evs2) = e + m  OBVIOUS
<1>18. Holds(gs, evs2, items2, from2)
  <2>1. DOMAIN gs = 1..(L + 1) /\ Len(gs) - 1 = L  BY <1>3
  <2> QED  BY <1>10, <1>11, <1>12, <1>14, <1>15, <1>17, <2>1, Zenon DEF Holds
<1>19. Laid(gs, n, evs2, last2, items2, from2)
  <2>1. PICK q \in Nat : q = Len(ins) /\ m <= q /\ m <= n - e /\ (m = n - e \/ m = q)
    BY <1>16, Zenon
  <2>2. Filled(gs, from2) = e + q  BY <1>16, <2>1, Zenon
  <2>3. Clipped(e, m, q, n)  BY <2>1, Zenon DEF Clipped
  <2>4. e + q >= e + m /\ (e + m < n => e + q = e + m)
    <3> HIDE DEF Further
    <3> QED  BY <2>3, RoomLeft, Zenon
  <2>5. /\ Filled(gs, from2) >= Len(evs2)
        /\ Len(evs2) < n => Filled(gs, from2) = Len(evs2)
    BY <1>17, <2>2, <2>4, Zenon
  <2> QED  BY <1>3, <1>10, <1>14, <1>17, <1>18, <2>5, Zenon DEF Laid
<1> QED  BY <1>1, <1>3, <1>7, <1>8, <1>17, <1>19, Zenon DEF LaidOut

(* A Window frame starts a batch without events.                           *)
LEMMA PartialStarts ==
    ASSUME NEW f \in FrameSet, f.type = "W"
    PROVE  Partial(<<f>>, f.n, <<>>, 0)
<1> DEFINE fs == <<f>>
           items == [k \in {} |-> 0]
           from == [i \in 1..1 |-> 0]
<1>1. Len(fs) = 1 /\ fs[1] = f /\ DOMAIN fs = 1..1 /\ fs # <<>>  OBVIOUS
<1>2. Inside(f) = <<>>  BY DEF Inside
<1>3. Len(<<>>) = 0 /\ DOMAIN <<>> = {} /\ f.n \in Nat  BY FrameFields
<1>4. from[1] = 0 /\ from \in [1..1 -> 0..0] /\ items \in [{} -> Enclosed(fs)]  OBVIOUS
<1>5. 2..1 = {} /\ 1..0 = {} /\ 1..1 = {1} /\ 1 - 1 = 0  OBVIOUS
<1> HIDE DEF fs, items, from
<1>6. Starts(fs, f.n)  BY <1>1, <1>5 DEF Starts
<1>7. Holds(fs, <<>>, items, from)
  BY <1>1, <1>2, <1>3, <1>4, <1>5, Zenon DEF Holds
<1>8. Filled(fs, from) = 0  BY <1>1, <1>2, <1>3, <1>4 DEF Filled
<1>9. Laid(fs, f.n, <<>>, 0, items, from)
  BY <1>1, <1>3, <1>5, <1>7, <1>8 DEF Laid
<1>10. Partial(fs, f.n, <<>>, 0)
  BY <1>1, <1>3, <1>4, <1>6, <1>9, Zenon DEF Partial, LaidOut
<1> QED  BY <1>10 DEF fs

(* The next frame is accepted.                                             *)
LEMMA PartialFurther ==
    ASSUME NEW fs \in Seq(FrameSet), NEW n \in Nat, NEW evs \in Seq(Event), Len(evs) < n,
           NEW last \in Nat, Partial(fs, n, evs, last), NEW f \in FrameSet,
           NEW more, more = Contents(DecodeWithLimit(f, ServerMax), n - Len(evs)),
           InOrder(more, last)
    PROVE  Partial(Append(fs, f), n, evs \o [i \in DOMAIN more |-> more[i].data],
                   PrevSeq(more, Len(more) + 1, last))
<1>1. PICK room \in Nat : room = n - Len(evs) /\ room > 0  OBVIOUS
<1>2. /\ f.type \in {"J", "C"}
      /\ Inside(f) \in Seq(FrameSet) /\ more \in Seq(FrameSet)
      /\ \A j \in 1..Len(more) : more[j] = Inside(f)[j] /\ more[j].type = "J"
      /\ Len(more) <= Len(Inside(f)) /\ Len(more) <= room
      /\ Len(more) = room \/ Len(more) = Len(Inside(f))
  <2>1. Accepted(f, room, last, more)  BY <1>1, Zenon DEF Accepted
  <2>2. Yields(f, room, more)  BY <1>1, <2>1, ContentsAre
  <2> QED  BY <2>2, Zenon DEF Yields
<1>3. PICK L \in Nat, e \in Nat, m \in Nat : L = Len(fs) /\ e = Len(evs) /\ m = Len(more)
  <2>1. Len(fs) \in Nat /\ Len(evs) \in Nat /\ Len(more) \in Nat  BY <1>2
  <2> QED  BY <2>1, Zenon
<1>4. DOMAIN fs = 1..L /\ DOMAIN evs = 1..e /\ DOMAIN more = 1..m  BY <1>2, <1>3
<1>5. PICK data \in Seq(Event) : /\ data = [i \in DOMAIN more |-> more[i].data]
                                 /\ Len(data) = m
                                 /\ \A j \in 1..m : data[j] = more[j].data
  <2> DEFINE data == [i \in DOMAIN more |-> more[i].data]
  <2>1. \A j \in 1..m : more[j].data \in Event  BY <1>2, <1>3, FrameFields
  <2>2. data \in Seq(Event) /\ Len(data) = m  BY <1>4, <2>1
  <2>3. \A j \in 1..m : data[j] = more[j].data  BY <1>4, Zenon
  <2> QED  BY <2>2, <2>3, Zenon
<1>6. PICK evs2 \in Seq(Event) : /\ evs2 = evs \o data /\ Len(evs2) = e + m
                                 /\ \A k \in 1..e : evs2[k] = evs[k]
                                 /\ \A j \in 1..m : evs2[e + j] = more[j].data
  <2>1. evs \o data \in Seq(Event) /\ Len(evs \o data) = Len(evs) + Len(data)
    BY ConcatProperties
  <2>2. \A k \in 1..Len(evs) : (evs \o data)[k] = evs[k]  OBVIOUS
  <2>3. \A j \in 1..Len(data) : (evs \o data)[Len(evs) + j] = data[j]  OBVIOUS
  <2>4. Len(evs \o data) = e + m  BY <1>3, <1>5, <2>1, Zenon
  <2>5. \A k \in 1..e : (evs \o data)[k] = evs[k]  BY <1>3, <2>2, Zenon
  <2>6. \A j \in 1..m : (evs \o data)[e + j] = more[j].data  BY <1>3, <1>5, <2>3, Zenon
  <2> QED  BY <2>1, <2>4, <2>5, <2>6, Zenon
<1>7. PICK gs \in Seq(FrameSet) : gs = Append(fs, f)
  <2>1. Append(fs, f) \in Seq(FrameSet)  BY AppendProperties
  <2> QED  BY <2>1, Zenon
<1>8. PICK items \in [1..e -> Enclosed(fs)], from \in [1..L -> 0..e] :
        Laid(fs, n, evs, last, items, from)
  BY <1>3, <1>4, Zenon DEF Partial, LaidOut
<1>9. L > 0
  <2>1. fs # <<>>  BY DEF Partial, Starts
  <2> QED  BY <1>3, <2>1
<1>10. LaidOut(gs, n, evs2, PrevSeq(more, m + 1, last))
  <2>1. m <= n - e /\ (m = n - e \/ m = Len(Inside(f))) /\ m <= Len(Inside(f))
    BY <1>1, <1>2, <1>3, Zenon
  <2>2. \A j \in 1..m : more[j] = Inside(f)[j] /\ more[j].type = "J"
    BY <1>2, <1>3, Zenon
  <2>3. PICK ins \in Seq(FrameSet) : ins = Inside(f)  BY <1>2
  <2>4. m <= Len(ins) /\ (m = n - e \/ m = Len(ins))
    BY <2>1, <2>3, Zenon
  <2>5. \A j \in 1..m : more[j] = ins[j] /\ more[j].type = "J"
    BY <2>2, <2>3, Zenon
  <2>6. e < n  BY <1>3
  <2>7. Further(fs, L, evs, e, n, last, items, from, f, gs, more, m, ins, evs2)
    BY <1>3, <1>6, <1>7, <1>8, <1>9, <2>1, <2>3, <2>4, <2>5, <2>6, Zenon DEF Further
  <2>8. more \in Seq(FrameSet)  BY <1>2
  <2> QED  BY <2>7, <2>8, LaidFurther
<1>11. Starts(gs, n)
  <2>1. /\ Len(gs) = L + 1 /\ gs[L + 1] = f /\ \A i \in 1..L : gs[i] = fs[i]
        /\ DOMAIN gs = 1..(L + 1) /\ gs # <<>>
    <3>1. /\ Len(Append(fs, f)) = Len(fs) + 1 /\ Append(fs, f)[Len(fs) + 1] = f
          /\ \A i \in 1..Len(fs) : Append(fs, f)[i] = fs[i]
      BY AppendProperties
    <3>2. Len(gs) = L + 1 /\ gs[L + 1] = f /\ \A i \in 1..L : gs[i] = fs[i]
      BY <1>3, <1>7, <3>1, Zenon
    <3>3. DOMAIN gs = 1..Len(gs) /\ (gs = <<>> => Len(gs) = 0)  OBVIOUS
    <3> QED  BY <3>2, <3>3
  <2>2. gs[1] = fs[1]  BY <1>9, <2>1
  <2>3. ASSUME NEW i \in 2..Len(gs)  PROVE gs[i].type \in {"J", "C"}
    <3>1. i = L + 1 \/ (i \in 2..L /\ i \in 1..L)  BY <2>1
    <3> QED  BY <1>2, <1>3, <2>1, <3>1, Zenon DEF Partial, Starts
  <2> QED  BY <2>1, <2>2, <2>3, Zenon DEF Partial, Starts
<1>12. Partial(gs, n, evs2, PrevSeq(more, m + 1, last))
  BY <1>10, <1>11, Zenon DEF Partial
<1> QED  BY <1>3, <1>5, <1>6, <1>7, <1>12, Zenon

(* The window is full.                                                     *)
LEMMA PartialFull ==
    ASSUME NEW fs, NEW evs, NEW n, NEW last, Partial(fs, n, evs, last), Len(evs) = n
    PROVE  IsBatch(fs, evs)
  BY Zenon DEF Partial, Starts, LaidOut, Laid, IsBatch

-----------------------------------------------------------------------------
(* Parts of the wire *)

(* A part of a sequence of frames is one, element by element.              *)
LEMMA PartIs ==
    ASSUME NEW w \in Seq(FrameSet), NEW a \in Nat, NEW b \in Nat, a <= b, b <= Len(w)
    PROVE  /\ Part(w, a, b) \in Seq(FrameSet) /\ Len(Part(w, a, b)) = b - a
           /\ \A i \in 1..(b - a) : Part(w, a, b)[i] = w[a + i]
<1>1. a + 1 \in 1..(Len(w) + 1) /\ b \in ((a + 1) - 1)..Len(w)  OBVIOUS
<1>2. /\ Part(w, a, b) \in Seq(FrameSet) /\ Len(Part(w, a, b)) = (b - (a + 1)) + 1
      /\ \A i \in 1..((b - (a + 1)) + 1) : Part(w, a, b)[i] = w[((a + 1) + i) - 1]
  BY <1>1, SubSeqProperties DEF Part
<1>3. (b - (a + 1)) + 1 = b - a /\ \A i \in 1..(b - a) : ((a + 1) + i) - 1 = a + i
  OBVIOUS
<1> QED  BY <1>2, <1>3, Zenon

(* What the peer writes later is not part of what it wrote before.         *)
LEMMA PartKept ==
    ASSUME NEW w \in Seq(FrameSet), NEW f \in FrameSet,
           NEW a \in Nat, NEW b \in Nat, a <= b, b <= Len(w)
    PROVE  Part(Append(w, f), a, b) = Part(w, a, b)
<1>1. PICK v \in Seq(FrameSet) : v = Append(w, f) /\ Len(v) = Len(w) + 1
                                 /\ \A i \in 1..Len(w) : v[i] = w[i]
  <2>1. /\ Append(w, f) \in Seq(FrameSet) /\ Len(Append(w, f)) = Len(w) + 1
        /\ \A i \in 1..Len(w) : Append(w, f)[i] = w[i]
    BY AppendProperties
  <2> QED  BY <2>1, Zenon
<1>2. b <= Len(v)  BY <1>1
<1>3. PICK p \in Seq(FrameSet) : p = Part(w, a, b) /\ Len(p) = b - a
                                 /\ \A i \in 1..(b - a) : p[i] = w[a + i]
  BY PartIs
<1>4. PICK q \in Seq(FrameSet) : q = Part(v, a, b) /\ Len(q) = b - a
                                 /\ \A i \in 1..(b - a) : q[i] = v[a + i]
  BY <1>2, PartIs
<1>5. ASSUME NEW i \in 1..(b - a)  PROVE q[i] = p[i]
  <2>1. a + i \in 1..Len(w)  OBVIOUS
  <2> QED  BY <1>1, <1>3, <1>4, <2>1, Zenon
<1>6. p = q  BY <1>3, <1>4, <1>5, SeqEqual
<1> QED  BY <1>1, <1>3, <1>4, <1>6, Zenon

(* A part that takes in one frame more.                                    *)
LEMMA PartGrows ==
    ASSUME NEW w \in Seq(FrameSet), NEW a \in Nat, NEW b \in Nat, a <= b, b < Len(w)
    PROVE  Part(w, a, b + 1) = Append(Part(w, a, b), w[b + 1])
<1>1. PICK p \in Seq(FrameSet) : p = Part(w, a, b) /\ Len(p) = b - a
                                 /\ \A i \in 1..(b - a) : p[i] = w[a + i]
  <2>1. b <= Len(w)  OBVIOUS
  <2> QED  BY <2>1, PartIs, Zenon
<1>2. PICK f \in FrameSet : f = w[b + 1]  OBVIOUS
<1>3. PICK q \in Seq(FrameSet) : q = Part(w, a, b + 1) /\ Len(q) = (b + 1) - a
                                 /\ \A i \in 1..((b + 1) - a) : q[i] = w[a + i]
  <2>1. b + 1 \in Nat /\ a <= b + 1 /\ b + 1 <= Len(w)  OBVIOUS
  <2> QED  BY <2>1, PartIs
<1>4. PICK r \in Seq(FrameSet) : r = Append(p, f) /\ Len(r) = (b - a) + 1
                                 /\ r[(b - a) + 1] = f /\ \A i \in 1..(b - a) : r[i] = p[i]
  <2>1. /\ Append(p, f) \in Seq(FrameSet) /\ Len(Append(p, f)) = Len(p) + 1
        /\ Append(p, f)[Len(p) + 1] = f /\ \A i \in 1..Len(p) : Append(p, f)[i] = p[i]
    BY AppendProperties
  <2> QED  BY <1>1, <2>1, Zenon
<1>5. ASSUME NEW i \in 1..Len(q)  PROVE q[i] = r[i]
  <2>1. i \in 1..((b + 1) - a) /\ (i \in 1..(b - a) \/ (i = (b - a) + 1 /\ a + i = b + 1))
    BY <1>3
  <2> QED  BY <1>1, <1>2, <1>3, <1>4, <2>1, Zenon
<1>6. Len(q) = Len(r)  BY <1>3, <1>4
<1>7. q = r  BY <1>5, <1>6, SeqEqual
<1> QED  BY <1>1, <1>2, <1>3, <1>4, <1>7, Zenon

(* And a part that is a single frame.                                      *)
LEMMA PartOfOne ==
    ASSUME NEW w \in Seq(FrameSet), NEW a \in Nat, a < Len(w)
    PROVE  Part(w, a, a + 1) = <<w[a + 1]>>
<1>1. PICK f \in FrameSet : f = w[a + 1]  OBVIOUS
<1>2. PICK q \in Seq(FrameSet) : q = Part(w, a, a + 1) /\ Len(q) = (a + 1) - a
                                 /\ \A i \in 1..((a + 1) - a) : q[i] = w[a + i]
  <2>1. a + 1 \in Nat /\ a <= a + 1 /\ a + 1 <= Len(w)  OBVIOUS
  <2> QED  BY <2>1, PartIs
<1>3. Len(q) = 1 /\ q[1] = f
  <2>1. (a + 1) - a = 1 /\ 1 \in 1..1  OBVIOUS
  <2> QED  BY <1>1, <1>2, <2>1, Zenon
<1>4. q = <<f>>  BY <1>3
<1> QED  BY <1>1, <1>2, <1>4, Zenon

-----------------------------------------------------------------------------
(* Steps and the wire *)

(* The types of what the invariant is about.                               *)
LEMMA WireTypes ==
    ASSUME ServerInv, WireInv, NEW c \in Conns
    PROVE  /\ wire[c] \in Seq(FrameSet) /\ c2s[c] \in Seq(FrameSet)
           /\ got[c] \in Seq(Seq(Event)) /\ sEnd[c] \in {"open", "closed"}
           /\ events[c] \in Seq(Event) /\ window[c] \in Nat /\ last_seq[c] \in Nat
           /\ queue \in Seq(BatchSet)
           /\ Piped(c) /\ Traced(c)
  BY DEF WireInv, ServerInv, ServerTypes, TransportTypeOK, ConnTypeOK, ServerTypeOK, Ends

(* A connection is in the channel when a batch of it is.                   *)
LEMMA QueuedIs ==
    ASSUME NEW c
    PROVE  InChannel(c) <=> Queued(c) # {}
  BY DEF InChannel, Queued, Range

(* While a handler reads, no batch of its connection is out.               *)
LEMMA ReadingAlone ==
    ASSUME ServerInv, NEW c \in Conns, spc[c] \in Reading \cup {"ack"}
    PROVE  Queued(c) = {}
<1>1. ~InChannel(c)
  BY DEF ServerInv, NoLostAck, OneOutstanding, Awaiting, Reading
<1> QED  BY <1>1, QueuedIs

(* What has been read is part of what was written.                         *)
LEMMA TakenIs ==
    ASSUME NEW c, wire[c] \in Seq(FrameSet), c2s[c] \in Seq(FrameSet), Piped(c), sEnd[c] = "open"
    PROVE  Taken(c) <= Len(wire[c]) /\ Taken(c) \in Nat
<1>1. Len(wire[c]) \in Nat /\ Len(c2s[c]) \in Nat  OBVIOUS
<1>2. PICK w \in Nat, s \in Nat : w = Len(wire[c]) /\ s = Len(c2s[c])  BY <1>1, Zenon
<1>3. s <= w /\ Taken(c) = w - s  BY <1>2, Zenon DEF Piped, Taken
<1>4. w - s <= w /\ w - s \in Nat  BY <1>3
<1> QED  BY <1>2, <1>3, <1>4, Zenon

(* A step under which what was ahead of what recv returned stays ahead.    *)
LEMMA TracedStays ==
    ASSUME NEW c \in Conns, Traced(c), got[c] \in Seq(Seq(Event)),
           wire'[c] = wire[c], got'[c] = got[c], rx' # "dropped" => rx # "dropped",
           \A e \in 0..Len(wire[c]) : Ahead(c, e) /\ rx # "dropped" => Ahead(c, e)'
    PROVE  Traced(c)'
<1>1. PICK cut \in [0..Len(got[c]) -> 0..Len(wire[c])] :
        /\ Cuts(wire[c], got[c], cut)
        /\ rx # "dropped" => Ahead(c, cut[Len(got[c])])
  BY DEF Traced
<1>2. PICK e \in 0..Len(wire[c]) : e = cut[Len(got[c])]
  <2>1. Len(got[c]) \in 0..Len(got[c])  OBVIOUS
  <2> QED  BY <2>1, Zenon
<1>3. rx' # "dropped" => Ahead(c, e)'  BY <1>1, <1>2, Zenon
<1> QED  BY <1>1, <1>2, <1>3, Zenon DEF Traced

(* A connection nothing happens to, as far as its frames go.               *)
LEMMA ConnKept ==
    ASSUME NEW c \in Conns, Piped(c), Traced(c), got[c] \in Seq(Seq(Event)),
           wire'[c] = wire[c], got'[c] = got[c], c2s'[c] = c2s[c], sEnd'[c] = sEnd[c],
           Queued(c)' = Queued(c), rx' # "dropped" => rx # "dropped",
           link'[c] \in {"none", "backlog"} => link[c] \in {"none", "backlog"},
           spc'[c] \notin {"ending", "done"} => spc[c] \notin {"ending", "done"},
           \/ spc[c] \notin Collecting /\ spc'[c] \notin Collecting
           \/ /\ spc'[c] = spc[c] /\ window'[c] = window[c]
              /\ events'[c] = events[c] /\ last_seq'[c] = last_seq[c]
    PROVE  Piped(c)' /\ Traced(c)'
<1>1. Taken(c)' = Taken(c)  BY Zenon DEF Taken
<1>2. Piped(c)'  BY <1>1, Zenon DEF Piped
<1>3. ASSUME NEW e \in 0..Len(wire[c]), Ahead(c, e)  PROVE Ahead(c, e)'
  <2>1. \A b \in Queued(c)' : \E q \in (e + 1)..Len(wire'[c]) :
            /\ IsBatch(Part(wire'[c], e, q), b.events)
            /\ sEnd'[c] = "open" => q = Taken(c)'
    BY <1>1, <1>3, Zenon DEF Ahead
  <2>2. ASSUME sEnd'[c] = "open", Queued(c)' = {}
        PROVE  IF spc'[c] \in Collecting
               THEN /\ e < Taken(c)'
                    /\ Partial(Part(wire'[c], e, Taken(c)'), window'[c], events'[c], last_seq'[c])
               ELSE e = Taken(c)'
    BY <1>1, <1>3, <2>2, Zenon DEF Ahead
  <2> QED  BY <2>1, <2>2, Zenon DEF Ahead
<1> QED  BY <1>2, <1>3, TracedStays

(* The handler returns: a batch of it that is in the channel stays there.  *)
LEMMA ConnEnds ==
    ASSUME NEW c \in Conns, Piped(c), Traced(c), got[c] \in Seq(Seq(Event)),
           wire'[c] = wire[c], got'[c] = got[c], c2s'[c] = <<>>, sEnd'[c] = "closed",
           Queued(c)' = Queued(c), rx' = rx, link'[c] = link[c], spc'[c] = "ending"
    PROVE  Piped(c)' /\ Traced(c)'
<1>1. sEnd'[c] # "open"  OBVIOUS
<1>2. Piped(c)'  BY <1>1 DEF Piped
<1>3. ASSUME NEW e \in 0..Len(wire[c]), Ahead(c, e)  PROVE Ahead(c, e)'
  <2>1. \A b \in Queued(c)' : \E q \in (e + 1)..Len(wire'[c]) :
            /\ IsBatch(Part(wire'[c], e, q), b.events)
            /\ sEnd'[c] = "open" => q = Taken(c)'
    BY <1>1, <1>3, Zenon DEF Ahead
  <2> QED  BY <1>1, <2>1, Zenon DEF Ahead
<1> QED  BY <1>2, <1>3, TracedStays

(* The handler takes the next frame of its peer off the pipe.              *)
LEMMA TakesOne ==
    ASSUME NEW c \in Conns, wire[c] \in Seq(FrameSet), c2s[c] \in Seq(FrameSet), Piped(c),
           c2s[c] # <<>>, spc[c] \in {"window", "collect"},
           wire'[c] = wire[c], c2s'[c] = Tail(c2s[c]), sEnd'[c] = sEnd[c], link'[c] = link[c]
    PROVE  /\ Taken(c) \in Nat /\ Taken(c) < Len(wire[c]) /\ Taken(c)' = Taken(c) + 1
           /\ wire[c][Taken(c) + 1] = Head(c2s[c])
           /\ sEnd[c] = "open" /\ Piped(c)'
<1>1. PICK w \in Seq(FrameSet), s \in Seq(FrameSet) : w = wire[c] /\ s = c2s[c]
  OBVIOUS
<1>2. PICK lw \in Nat, ls \in Nat : lw = Len(w) /\ ls = Len(s)  OBVIOUS
<1>3. sEnd[c] = "open"  BY DEF Piped
<1>4. ls <= lw /\ \A i \in 1..ls : s[i] = w[(lw - ls) + i]
  BY <1>1, <1>2, <1>3, Zenon DEF Piped, Taken
<1>5. PICK r \in Seq(FrameSet) : /\ r = Tail(s) /\ Len(r) = ls - 1 /\ ls > 0
                                 /\ Head(s) = s[1] /\ \A i \in 1..(ls - 1) : r[i] = s[i + 1]
  <2>1. s # <<>>  BY <1>1
  <2>2. /\ Tail(s) \in Seq(FrameSet) /\ Len(Tail(s)) = Len(s) - 1 /\ Len(s) > 0
        /\ Head(s) = s[1] /\ \A i \in 1..(Len(s) - 1) : Tail(s)[i] = s[i + 1]
    BY <2>1
  <2> QED  BY <1>2, <2>2, Zenon
<1>6. Taken(c) = lw - ls /\ Taken(c)' = lw - (ls - 1)
  BY <1>1, <1>2, <1>5, Zenon DEF Taken
<1>7. /\ lw - ls \in Nat /\ lw - ls < lw /\ lw - (ls - 1) = (lw - ls) + 1
  BY <1>4, <1>5
<1>8. w[(lw - ls) + 1] = Head(s)
  <2>1. 1 \in 1..ls  BY <1>5
  <2> QED  BY <1>4, <1>5, <2>1, Zenon
<1>9. ASSUME NEW i \in 1..(ls - 1)  PROVE r[i] = w[(lw - (ls - 1)) + i]
  <2>1. i + 1 \in 1..ls /\ (lw - ls) + (i + 1) = (lw - (ls - 1)) + i  OBVIOUS
  <2> QED  BY <1>4, <1>5, <2>1, Zenon
<1>10. ls - 1 <= lw  BY <1>4
<1>11. link'[c] \notin {"none", "backlog"}  BY DEF Piped
<1>12. /\ Len(c2s'[c]) <= Len(wire'[c])
       /\ \A i \in 1..Len(c2s'[c]) : c2s'[c][i] = wire'[c][Taken(c)' + i]
  BY <1>1, <1>2, <1>5, <1>6, <1>9, <1>10, ZenonT(40)
<1>13. Piped(c)'  BY <1>3, <1>11, <1>12, Zenon DEF Piped
<1> QED  BY <1>1, <1>2, <1>3, <1>6, <1>7, <1>8, <1>13, Zenon

(* A Window frame is read: the frames of a batch start with it.            *)
LEMMA WindowTraced ==
    ASSUME ServerInv, WireInv, NEW c \in Conns, ReadWindow(c), NextFrame(c).type = "W",
           UNCHANGED <<serverVars, wire>>
    PROVE  Piped(c)' /\ Traced(c)'
<1> DEFINE f == NextFrame(c)
<1>1. /\ wire[c] \in Seq(FrameSet) /\ c2s[c] \in Seq(FrameSet) /\ Piped(c) /\ Traced(c)
      /\ got[c] \in Seq(Seq(Event))
  BY WireTypes
<1>2. /\ spc[c] = "window" /\ c2s[c] # <<>> /\ rx' = rx /\ link' = link
      /\ spc' = [spc EXCEPT ![c] = IF f.n = 0 THEN "dispatch" ELSE "collect"]
      /\ window' = [window EXCEPT ![c] = f.n]
      /\ events' = [events EXCEPT ![c] = <<>>]
      /\ last_seq' = [last_seq EXCEPT ![c] = 0]
      /\ c2s' = [c2s EXCEPT ![c] = Tail(@)] /\ sEnd' = sEnd /\ queue' = queue
      /\ wire' = wire /\ got' = got
  BY DEF ReadWindow, Readable, serverVars
<1> HIDE DEF f
<1>3. /\ spc'[c] \in Collecting /\ window'[c] = f.n /\ events'[c] = <<>> /\ last_seq'[c] = 0
      /\ c2s'[c] = Tail(c2s[c])
  BY <1>2 DEF ServerInv, ServerTypes, TransportTypeOK, ConnTypeOK, Collecting
<1>4. /\ Taken(c) \in Nat /\ Taken(c) < Len(wire[c]) /\ Taken(c)' = Taken(c) + 1
      /\ wire[c][Taken(c) + 1] = Head(c2s[c])
      /\ sEnd[c] = "open" /\ Piped(c)'
  <2>1. spc[c] \in {"window", "collect"}  BY <1>2
  <2> QED  BY <1>1, <1>2, <1>3, <2>1, TakesOne
<1>5. Head(c2s[c]) \in FrameSet /\ Head(c2s[c]) = f
  <2>1. Head(c2s[c]) \in FrameSet  BY <1>1, <1>2
  <2>2. Bad("FrameTooLarge").type = "X"  BY DEF Bad
  <2>3. f.type = "W"  BY DEF f
  <2> QED  BY <2>1, <2>2, <2>3 DEF f, NextFrame, DecodeWithLimit
<1>6. Partial(<<f>>, f.n, <<>>, 0)
  <2>1. f.type = "W"  BY DEF f
  <2> QED  BY <1>5, <2>1, PartialStarts
<1>7. Queued(c) = {} /\ Queued(c)' = {}
  <2>1. Queued(c) = {}  BY <1>2, ReadingAlone DEF Reading
  <2> QED  BY <1>2, <2>1 DEF Queued
<1>8. ASSUME NEW e \in 0..Len(wire[c]), Ahead(c, e)  PROVE Ahead(c, e)'
  <2>1. e = Taken(c)  BY <1>2, <1>4, <1>7, <1>8 DEF Ahead, Collecting
  <2>2. Part(wire[c], e, e + 1) = <<f>>
    <3>1. e \in Nat /\ e < Len(wire[c]) /\ wire[c][e + 1] = f  BY <1>4, <1>5, <2>1, Zenon
    <3> QED  BY <1>1, <3>1, PartOfOne
  <2>3. e < e + 1 /\ Taken(c)' = e + 1  BY <1>4, <2>1
  <2>4. Partial(Part(wire'[c], e, Taken(c)'), window'[c], events'[c], last_seq'[c])
    BY <1>2, <1>3, <1>6, <2>2, <2>3, Zenon
  <2> QED  BY <1>3, <1>7, <2>3, <2>4, Zenon DEF Ahead
<1>9. wire'[c] = wire[c] /\ got'[c] = got[c]  BY <1>2
<1> QED  BY <1>1, <1>2, <1>4, <1>8, <1>9, TracedStays

(* A frame is accepted: it continues the frames of the batch.              *)
LEMMA CollectTraced ==
    ASSUME ServerInv, WireInv, NEW c \in Conns, Collect(c), UNCHANGED <<serverVars, wire>>,
           InOrder(Contents(NextFrame(c), window[c] - Len(events[c])), last_seq[c])
    PROVE  Piped(c)' /\ Traced(c)'
<1>1. /\ wire[c] \in Seq(FrameSet) /\ c2s[c] \in Seq(FrameSet) /\ Piped(c) /\ Traced(c)
      /\ got[c] \in Seq(Seq(Event))
  BY WireTypes
<1>2. PICK n \in Nat, evs \in Seq(Event), last \in Nat :
        n = window[c] /\ evs = events[c] /\ last = last_seq[c]
  BY WireTypes, Zenon
<1>3. PICK more : more = Contents(NextFrame(c), n - Len(evs))  OBVIOUS
<1>4. PICK evs2, last2 : /\ evs2 = evs \o [i \in DOMAIN more |-> more[i].data]
                         /\ last2 = PrevSeq(more, Len(more) + 1, last)
  OBVIOUS
<1>5. InOrder(more, last)  BY <1>2, <1>3, Zenon
<1>6. /\ spc[c] = "collect" /\ c2s[c] # <<>> /\ rx' = rx /\ link' = link
      /\ events' = [events EXCEPT ![c] = evs2]
      /\ last_seq' = [last_seq EXCEPT ![c] = last2]
      /\ spc' = [spc EXCEPT ![c] = IF Complete(n, Len(evs2)) THEN "dispatch" ELSE spc[c]]
      /\ c2s' = [c2s EXCEPT ![c] = Tail(c2s[c])] /\ sEnd' = sEnd /\ queue' = queue
      /\ window' = window /\ wire' = wire /\ got' = got
  BY <1>2, <1>3, <1>4, <1>5 DEF Collect, Readable, serverVars
<1>7. /\ spc'[c] \in Collecting /\ window'[c] = n /\ events'[c] = evs2 /\ last_seq'[c] = last2
      /\ c2s'[c] = Tail(c2s[c])
  BY <1>2, <1>6 DEF ServerInv, ServerTypes, TransportTypeOK, ConnTypeOK, Collecting
<1>8. /\ Taken(c) \in Nat /\ Taken(c) < Len(wire[c]) /\ Taken(c)' = Taken(c) + 1
      /\ wire[c][Taken(c) + 1] = Head(c2s[c])
      /\ sEnd[c] = "open" /\ Piped(c)'
  <2>1. spc[c] \in {"window", "collect"}  BY <1>6
  <2> QED  BY <1>1, <1>6, <1>7, <2>1, TakesOne
<1>9. PICK f \in FrameSet : f = Head(c2s[c])
  <2>1. Head(c2s[c]) \in FrameSet  BY <1>1, <1>6
  <2> QED  BY <2>1, Zenon
<1>10. more = Contents(DecodeWithLimit(f, ServerMax), n - Len(evs))
  BY <1>3, <1>9, Zenon DEF NextFrame
<1>11. Len(evs) < n  BY <1>2, <1>6 DEF ServerInv, CollectRoom
<1>12. Queued(c) = {} /\ Queued(c)' = {}
  <2>1. Queued(c) = {}  BY <1>6, ReadingAlone DEF Reading
  <2> QED  BY <1>6, <2>1 DEF Queued
<1>13. ASSUME NEW e \in 0..Len(wire[c]), Ahead(c, e)  PROVE Ahead(c, e)'
  <2>1. PICK w \in Seq(FrameSet), t \in Nat : w = wire[c] /\ t = Taken(c)
    BY <1>1, <1>8, Zenon
  <2>2. e < t /\ Partial(Part(w, e, t), n, evs, last)
    <3>1. spc[c] \in Collecting  BY <1>6 DEF Collecting
    <3> QED  BY <1>2, <1>8, <1>12, <1>13, <2>1, <3>1, Zenon DEF Ahead
  <2>3. e \in Nat /\ e <= t /\ t <= Len(w) /\ t < Len(w) /\ e < t + 1
    BY <1>8, <2>1, <2>2
  <2>4. PICK fs \in Seq(FrameSet) : fs = Part(w, e, t)
    BY <2>3, PartIs, Zenon
  <2>5. Append(fs, f) = Part(w, e, t + 1)
    <3>1. f = w[t + 1]  BY <1>8, <1>9, <2>1, Zenon
    <3>2. Part(w, e, t + 1) = Append(Part(w, e, t), w[t + 1])  BY <2>3, PartGrows, Zenon
    <3> QED  BY <2>4, <3>1, <3>2, Zenon
  <2>6. Partial(fs, n, evs, last)  BY <2>2, <2>4, Zenon
  <2>7. Partial(Append(fs, f), n, evs \o [i \in DOMAIN more |-> more[i].data],
                PrevSeq(more, Len(more) + 1, last))
    BY <1>5, <1>10, <1>11, <2>6, PartialFurther
  <2>8. Partial(Part(w, e, t + 1), n, evs2, last2)  BY <1>4, <2>5, <2>7, Zenon
  <2>9. Taken(c)' = t + 1 /\ wire'[c] = w  BY <1>6, <1>8, <2>1
  <2>10. Partial(Part(wire'[c], e, Taken(c)'), window'[c], events'[c], last_seq'[c])
    BY <1>7, <2>8, <2>9, Zenon
  <2> QED  BY <1>7, <1>12, <2>3, <2>9, <2>10, Zenon DEF Ahead
<1>14. wire'[c] = wire[c] /\ got'[c] = got[c]  BY <1>6
<1> QED  BY <1>1, <1>6, <1>8, <1>13, <1>14, TracedStays

(* The batch goes into the channel complete.                               *)
LEMMA DispatchTraced ==
    ASSUME ServerInv, Covers, WireInv, NEW c \in Conns, Dispatch(c), UNCHANGED <<serverVars, wire>>
    PROVE  Piped(c)' /\ Traced(c)' /\ \A d \in Conns : d # c => Queued(d)' = Queued(d)
<1>1. /\ wire[c] \in Seq(FrameSet) /\ c2s[c] \in Seq(FrameSet) /\ Piped(c) /\ Traced(c)
      /\ got[c] \in Seq(Seq(Event)) /\ queue \in Seq(BatchSet)
  BY WireTypes
<1>2. /\ spc[c] = "dispatch" /\ queue' = Append(queue, NewBatch(c))
      /\ spc' = [spc EXCEPT ![c] = "await"] /\ rx' = rx /\ link' = link /\ c2s' = c2s
      /\ sEnd' = sEnd /\ wire' = wire /\ got' = got
  BY DEF Dispatch, transportVars, serverVars
<1>3. spc'[c] = "await"  BY <1>2 DEF ServerInv, ServerTypes, ConnTypeOK
<1>4. NewBatch(c) \in BatchSet /\ NewBatch(c).conn = c /\ NewBatch(c).events = events[c]
  BY DEF ServerInv, ServerTypes, ConnTypeOK, NewBatch, BatchSet
<1> HIDE DEF NewBatch
<1>5. Range(queue') = Range(queue) \cup {NewBatch(c)}
  <2>1. queue \in Seq(BatchSet) /\ queue' = Append(queue, NewBatch(c)) /\ NewBatch(c) \in BatchSet
    BY <1>1, <1>2, <1>4
  <2> QED  BY <2>1 DEF Range
<1>6. Queued(c) = {}  BY <1>2, ReadingAlone DEF Reading
<1>7. Queued(c)' = {NewBatch(c)} /\ \A d \in Conns : d # c => Queued(d)' = Queued(d)
  BY <1>4, <1>5, <1>6 DEF Queued
<1>8. Taken(c)' = Taken(c)  BY <1>2 DEF Taken
<1>9. sEnd[c] = "open"  BY <1>1, <1>2 DEF Piped
<1>10. Piped(c)'  BY <1>1, <1>2, <1>8, <1>9, Zenon DEF Piped
<1>11. Taken(c) <= Len(wire[c]) /\ Taken(c) \in Nat
  BY <1>1, <1>9, TakenIs
<1>12. ASSUME NEW e \in 0..Len(wire[c]), Ahead(c, e)  PROVE Ahead(c, e)'
  <2>1. e < Taken(c)
        /\ Partial(Part(wire[c], e, Taken(c)), window[c], events[c], last_seq[c])
    <3>1. spc[c] \in Collecting  BY <1>2 DEF Collecting
    <3> QED  BY <1>6, <1>9, <1>12, <3>1, Zenon DEF Ahead
  <2>2. Len(events[c]) = window[c]  BY <1>2 DEF Covers, HandlerCovers
  <2>3. IsBatch(Part(wire[c], e, Taken(c)), events[c])
    BY <2>1, <2>2, PartialFull, Zenon
  <2>4. Taken(c) \in (e + 1)..Len(wire[c])  BY <1>11, <2>1
  <2>5. NewBatch(c) \in Queued(c)'  BY <1>7
  <2> QED  BY <1>2, <1>4, <1>7, <1>8, <2>3, <2>4, <2>5, Zenon DEF Ahead
<1>13. wire'[c] = wire[c] /\ got'[c] = got[c]  BY <1>2
<1>14. Traced(c)'  BY <1>1, <1>2, <1>12, <1>13, TracedStays
<1> QED  BY <1>7, <1>10, <1>14

(* The peer writes a frame: it is behind everything that was cut so far.   *)
LEMMA WriteTraced ==
    ASSUME ServerInv, WireInv, NEW c \in Conns, NEW f \in FrameSet, PeerWrites(c, f),
           UNCHANGED <<connVars, serverVars>>
    PROVE  Piped(c)' /\ Traced(c)'
<1>1. /\ wire[c] \in Seq(FrameSet) /\ c2s[c] \in Seq(FrameSet) /\ Piped(c) /\ Traced(c)
      /\ got[c] \in Seq(Seq(Event))
  BY WireTypes
<1>2. /\ link[c] = "up" /\ sEnd[c] = "open" /\ link' = link /\ sEnd' = sEnd
      /\ wire'[c] = Append(wire[c], f) /\ c2s'[c] = Append(c2s[c], f)
      /\ UNCHANGED <<spc, window, events, last_seq, queue, rx, got>>
  <2>1. c2s' = [c2s EXCEPT ![c] = Append(c2s[c], f)] /\ wire' = [wire EXCEPT ![c] = Append(wire[c], f)]
    BY DEF PeerWrites, Written
  <2>2. c \in DOMAIN c2s /\ c \in DOMAIN wire
    BY DEF WireInv, ServerInv, ServerTypes, TransportTypeOK
  <2> QED  BY <2>1, <2>2 DEF PeerWrites, connVars, serverVars
<1>3. PICK w \in Seq(FrameSet), s \in Seq(FrameSet), t \in Nat, lw \in Nat :
        /\ w = wire[c] /\ s = c2s[c] /\ t = Taken(c) /\ lw = Len(w) /\ t <= lw
  <2>1. Taken(c) <= Len(wire[c]) /\ Taken(c) \in Nat  BY <1>1, <1>2, TakenIs
  <2>2. Len(wire[c]) \in Nat  BY <1>1
  <2> QED  BY <1>1, <2>1, <2>2, Zenon
<1>4. PICK w2 \in Seq(FrameSet), s2 \in Seq(FrameSet) :
        /\ w2 = Append(w, f) /\ Len(w2) = lw + 1 /\ w2[lw + 1] = f /\ \A i \in 1..lw : w2[i] = w[i]
        /\ s2 = Append(s, f) /\ Len(s2) = Len(s) + 1 /\ s2[Len(s) + 1] = f
        /\ \A i \in 1..Len(s) : s2[i] = s[i]
  <2>1. /\ Append(w, f) \in Seq(FrameSet) /\ Len(Append(w, f)) = Len(w) + 1
        /\ Append(w, f)[Len(w) + 1] = f /\ \A i \in 1..Len(w) : Append(w, f)[i] = w[i]
    BY AppendProperties
  <2>2. /\ Append(s, f) \in Seq(FrameSet) /\ Len(Append(s, f)) = Len(s) + 1
        /\ Append(s, f)[Len(s) + 1] = f /\ \A i \in 1..Len(s) : Append(s, f)[i] = s[i]
    BY AppendProperties
  <2> QED  BY <1>3, <2>1, <2>2, Zenon
<1>5. wire'[c] = w2 /\ c2s'[c] = s2  BY <1>2, <1>3, <1>4, Zenon
<1>6. PICK ls \in Nat : ls = Len(s) /\ t = lw - ls /\ ls <= lw /\ \A i \in 1..ls : s[i] = w[t + i]
  <2>1. Len(s) \in Nat  OBVIOUS
  <2> QED  BY <1>1, <1>2, <1>3, <2>1, Zenon DEF Piped, Taken
<1>7. Taken(c)' = t
  <2>1. Taken(c)' = (lw + 1) - (ls + 1)  BY <1>4, <1>5, <1>6, Zenon DEF Taken
  <2>2. (lw + 1) - (ls + 1) = lw - ls  OBVIOUS
  <2> QED  BY <1>6, <2>1, <2>2, Zenon
<1>8. Piped(c)'
  <2>1. ls + 1 <= lw + 1  BY <1>6
  <2>2. ASSUME NEW i \in 1..(ls + 1)  PROVE s2[i] = w2[t + i]
    <3>1. (i \in 1..ls /\ t + i \in 1..lw) \/ (i = ls + 1 /\ t + i = lw + 1)
      <4>1. t = lw - ls /\ ls <= lw  BY <1>6, Zenon
      <4> QED  BY <4>1
    <3> QED  BY <1>4, <1>6, <3>1, Zenon
  <2>3. /\ Len(c2s'[c]) <= Len(wire'[c])
        /\ \A i \in 1..Len(c2s'[c]) : c2s'[c][i] = wire'[c][Taken(c)' + i]
    BY <1>4, <1>5, <1>6, <1>7, <2>1, <2>2, Zenon
  <2>4. link'[c] \notin {"none", "backlog"} /\ sEnd'[c] = "open"  BY <1>2
  <2> QED  BY <2>3, <2>4, Zenon DEF Piped
<1>9. ASSUME NEW a \in 0..lw, NEW b \in 0..lw, a < b  PROVE Part(w2, a, b) = Part(w, a, b)
  <2>1. a \in Nat /\ b \in Nat /\ a <= b /\ b <= Len(w)  BY <1>3, <1>9
  <2> QED  BY <1>4, <2>1, PartKept, ZenonT(40)
<1>10. PICK g \in Seq(Seq(Event)), lg \in Nat : g = got[c] /\ lg = Len(g)
  <2>1. Len(got[c]) \in Nat  BY <1>1
  <2> QED  BY <1>1, <2>1, Zenon
<1>11. PICK cut \in [0..lg -> 0..lw] : Cuts(w, g, cut) /\ (rx # "dropped" => Ahead(c, cut[lg]))
  BY <1>1, <1>3, <1>10, Zenon DEF Traced
<1>12. cut \in [0..lg -> 0..(lw + 1)]
  <2>1. \A x \in 0..lw : x \in 0..(lw + 1)  OBVIOUS
  <2> QED  BY <2>1, Zenon
<1>13. Cuts(w2, g, cut)
  <2>1. ASSUME NEW k \in 1..lg
        PROVE  cut[k - 1] < cut[k] /\ IsBatch(Part(w2, cut[k - 1], cut[k]), g[k])
    <3>1. k - 1 \in 0..lg /\ k \in 0..lg  OBVIOUS
    <3>2. cut[k - 1] < cut[k] /\ IsBatch(Part(w, cut[k - 1], cut[k]), g[k])
      BY <1>10, <1>11, Zenon DEF Cuts
    <3>3. cut[k - 1] \in 0..lw /\ cut[k] \in 0..lw  BY <3>1, Zenon
    <3>4. Part(w2, cut[k - 1], cut[k]) = Part(w, cut[k - 1], cut[k])
      BY <1>9, <3>2, <3>3, Zenon
    <3> QED  BY <3>2, <3>4, Zenon
  <2> QED  BY <1>10, <1>11, <2>1, Zenon DEF Cuts
<1>14. ASSUME NEW e \in 0..lw, Ahead(c, e)  PROVE Ahead(c, e)'
  <2>1. Queued(c)' = Queued(c)  BY <1>2 DEF Queued
  <2>2. ASSUME NEW b \in Queued(c)
        PROVE  \E q \in (e + 1)..(lw + 1) : IsBatch(Part(w2, e, q), b.events) /\ q = t
    <3>1. PICK q \in (e + 1)..lw : IsBatch(Part(w, e, q), b.events) /\ q = t
      BY <1>2, <1>3, <1>14, Zenon DEF Ahead
    <3>2. q \in (e + 1)..(lw + 1) /\ q \in 0..lw /\ e < q  OBVIOUS
    <3>3. Part(w2, e, q) = Part(w, e, q)  BY <1>9, <3>2
    <3> QED  BY <3>1, <3>2, <3>3, Zenon
  <2>3. ASSUME Queued(c) = {}, spc[c] \in Collecting
        PROVE  e < t /\ Partial(Part(w2, e, t), window[c], events[c], last_seq[c])
    <3>1. e < t /\ Partial(Part(w, e, t), window[c], events[c], last_seq[c])
      BY <1>2, <1>3, <1>14, <2>3, Zenon DEF Ahead
    <3>2. t \in 0..lw  BY <1>3
    <3>3. Part(w2, e, t) = Part(w, e, t)  BY <1>9, <3>1, <3>2
    <3> QED  BY <3>1, <3>3, Zenon
  <2>4. Queued(c) = {} /\ spc[c] \notin Collecting => e = t
    BY <1>2, <1>3, <1>14, Zenon DEF Ahead
  <2>5. \A b \in Queued(c)' : \E q \in (e + 1)..Len(wire'[c]) :
            /\ IsBatch(Part(wire'[c], e, q), b.events)
            /\ sEnd'[c] = "open" => q = Taken(c)'
    BY <1>4, <1>5, <1>7, <2>1, <2>2, Zenon
  <2>6. ASSUME Queued(c)' = {}
        PROVE  IF spc'[c] \in Collecting
               THEN /\ e < Taken(c)'
                    /\ Partial(Part(wire'[c], e, Taken(c)'), window'[c], events'[c], last_seq'[c])
               ELSE e = Taken(c)'
    BY <1>2, <1>5, <1>7, <2>1, <2>3, <2>4, <2>6, Zenon
  <2> QED  BY <2>5, <2>6, Zenon DEF Ahead
<1>15. cut[lg] \in 0..lw
  <2>1. lg \in 0..lg  OBVIOUS
  <2> QED  BY <2>1, Zenon
<1>16. rx' # "dropped" => Ahead(c, cut[lg])'
  <2>1. PICK e \in 0..lw : e = cut[lg]  BY <1>15
  <2> QED  BY <1>2, <1>11, <1>14, <2>1, Zenon
<1>17. got'[c] = g /\ Len(wire'[c]) = lw + 1  BY <1>2, <1>4, <1>5, <1>10
<1>18. Traced(c)'  BY <1>5, <1>10, <1>12, <1>13, <1>16, <1>17, Zenon DEF Traced
<1> QED  BY <1>8, <1>18

(* recv returns the batch that is in the channel, and the cut goes on to   *)
(* the end of its frames.                                                  *)
LEMMA RecvTraced ==
    ASSUME ServerInv, WireInv, Recv, wire' = wire
    PROVE  \A d \in Conns : Piped(d)' /\ Traced(d)'
<1>1. queue # <<>> /\ queue' = Tail(queue) /\ rx = "open" /\ rx' = rx
      /\ UNCHANGED <<transportVars, spc, window, events, last_seq>>
  BY DEF Recv, locals
<1>2. queue \in Seq(BatchSet)  BY DEF ServerInv, ServerTypes, ConnTypeOK
<1>3. PICK b \in BatchSet : b = Head(queue) /\ b.conn \in Conns
  BY <1>1, PopQueue
<1>4. PICK c \in Conns : c = b.conn  BY <1>3
<1>5. got' = [got EXCEPT ![c] = Append(got[c], b.events)] /\ b.events \in Seq(Event)
  BY <1>3, <1>4 DEF Recv, BatchSet
<1>6. Range(queue) = Range(queue') \cup {b}
  <2>1. /\ Len(queue) \in Nat /\ Len(queue) > 0 /\ DOMAIN queue = 1..Len(queue)
        /\ DOMAIN queue' = 1..(Len(queue) - 1) /\ b = queue[1]
        /\ \A i \in 1..(Len(queue) - 1) : queue'[i] = queue[i + 1]
    BY <1>1, <1>2, <1>3
  <2>2. ASSUME NEW i \in DOMAIN queue  PROVE queue[i] \in Range(queue') \cup {b}
    <3>1. CASE i = 1  BY <2>1, <3>1
    <3>2. CASE i # 1
      <4>1. i - 1 \in DOMAIN queue' /\ queue'[i - 1] = queue[i]  BY <2>1, <3>2
      <4> QED  BY <4>1 DEF Range
    <3> QED  BY <3>1, <3>2
  <2>3. ASSUME NEW i \in DOMAIN queue'  PROVE queue'[i] \in Range(queue)
    <3>1. i + 1 \in DOMAIN queue /\ queue'[i] = queue[i + 1]  BY <2>1
    <3> QED  BY <3>1 DEF Range
  <2>4. b \in Range(queue)
    <3>1. 1 \in DOMAIN queue  BY <2>1
    <3> QED  BY <2>1, <3>1 DEF Range
  <2> QED  BY <2>2, <2>3, <2>4 DEF Range
<1>7. Queued(c)' = {} /\ b \in Queued(c) /\ \A d \in Conns : d # c => Queued(d)' = Queued(d)
  <2>1. ~InChannel(c)'  BY <1>1, <1>3, <1>4, PopQueue
  <2>2. Queued(c)' = {}  BY <2>1 DEF InChannel, Queued, Range
  <2> QED  BY <1>4, <1>6, <2>2 DEF Queued
<1>8. spc[c] \notin Collecting
  <2>1. InChannel(c)  BY <1>1, <1>3, <1>4, PopQueue
  <2> QED  BY <2>1 DEF ServerInv, NoLostAck, Awaiting, Collecting
<1>9. UNCHANGED <<c2s, sEnd, link>>  BY <1>1 DEF transportVars
<1>10. ASSUME NEW d \in Conns, d # c  PROVE Piped(d)' /\ Traced(d)'
  <2>1. Piped(d) /\ Traced(d) /\ got[d] \in Seq(Seq(Event))  BY WireTypes
  <2>2. got'[d] = got[d]
    BY <1>5, <1>10 DEF ServerInv, ServerTypes, ServerTypeOK
  <2> QED  BY <1>1, <1>7, <1>9, <1>10, <2>1, <2>2, ConnKept
<1>11. Piped(c) /\ Traced(c) /\ got[c] \in Seq(Seq(Event)) /\ wire[c] \in Seq(FrameSet)
  BY WireTypes
<1>12. Taken(c)' = Taken(c)  BY <1>9 DEF Taken
<1>13. Piped(c)'  BY <1>1, <1>9, <1>11, <1>12, Zenon DEF Piped
<1>14. PICK w \in Seq(FrameSet), lw \in Nat, g \in Seq(Seq(Event)), lg \in Nat :
         w = wire[c] /\ lw = Len(w) /\ g = got[c] /\ lg = Len(g)
  <2>1. Len(wire[c]) \in Nat /\ Len(got[c]) \in Nat  BY <1>11
  <2> QED  BY <1>11, <2>1, Zenon
<1>15. PICK g2 \in Seq(Seq(Event)) : /\ g2 = Append(g, b.events) /\ Len(g2) = lg + 1
                                     /\ g2[lg + 1] = b.events /\ \A k \in 1..lg : g2[k] = g[k]
  <2>1. /\ Append(g, b.events) \in Seq(Seq(Event)) /\ Len(Append(g, b.events)) = Len(g) + 1
        /\ Append(g, b.events)[Len(g) + 1] = b.events
        /\ \A k \in 1..Len(g) : Append(g, b.events)[k] = g[k]
    BY <1>5, AppendProperties
  <2> QED  BY <1>14, <2>1, Zenon
<1>16. got'[c] = g2
  <2>1. c \in DOMAIN got  BY DEF ServerInv, ServerTypes, ServerTypeOK
  <2> QED  BY <1>5, <1>14, <1>15, <2>1, Zenon
<1>17. PICK cut \in [0..lg -> 0..lw] : Cuts(w, g, cut) /\ Ahead(c, cut[lg])
  <2>1. rx # "dropped"  BY <1>1
  <2> QED  BY <1>11, <1>14, <2>1, Zenon DEF Traced
<1>18. PICK e \in 0..lw : e = cut[lg]
  <2>1. lg \in 0..lg  OBVIOUS
  <2> QED  BY <2>1, Zenon
<1>19. PICK q \in (e + 1)..lw : IsBatch(Part(w, e, q), b.events) /\ (sEnd[c] = "open" => q = Taken(c))
  BY <1>7, <1>14, <1>17, <1>18, Zenon DEF Ahead
<1> DEFINE cut2 == [k \in 0..(lg + 1) |-> IF k <= lg THEN cut[k] ELSE q]
<1>20. cut2 \in [0..(lg + 1) -> 0..lw]
  <2>1. ASSUME NEW k \in 0..(lg + 1)  PROVE (IF k <= lg THEN cut[k] ELSE q) \in 0..lw
    <3>1. CASE k <= lg
      <4>1. k \in 0..lg  BY <3>1
      <4> QED  BY <3>1, <4>1, Zenon
    <3>2. CASE ~(k <= lg)
      <4>1. q \in 0..lw  OBVIOUS
      <4> QED  BY <3>2, <4>1, Zenon
    <3> QED  BY <3>1, <3>2
  <2> QED  BY <2>1, Zenon
<1>21. (\A k \in 0..lg : cut2[k] = cut[k]) /\ cut2[lg + 1] = q
  <2>1. ASSUME NEW k \in 0..lg  PROVE cut2[k] = cut[k]
    <3>1. k \in 0..(lg + 1) /\ k <= lg  OBVIOUS
    <3> QED  BY <3>1, Zenon
  <2>2. lg + 1 \in 0..(lg + 1) /\ ~(lg + 1 <= lg)  OBVIOUS
  <2> QED  BY <2>1, <2>2, Zenon
<1> HIDE DEF cut2
<1>22. Cuts(w, g2, cut2)
  <2>1. cut2[0] = 0
    <3>1. 0 \in 0..lg  OBVIOUS
    <3> QED  BY <1>17, <1>21, <3>1, Zenon DEF Cuts
  <2>2. ASSUME NEW k \in 1..(lg + 1)
        PROVE  cut2[k - 1] < cut2[k] /\ IsBatch(Part(w, cut2[k - 1], cut2[k]), g2[k])
    <3>1. CASE k = lg + 1
      <4>1. k - 1 = lg /\ lg \in 0..lg /\ e < q  BY <3>1
      <4>2. cut2[k - 1] = e /\ cut2[k] = q  BY <1>18, <1>21, <3>1, <4>1, Zenon
      <4> QED  BY <1>15, <1>19, <3>1, <4>1, <4>2, Zenon
    <3>2. CASE k # lg + 1
      <4>1. k \in 1..lg /\ k - 1 \in 0..lg /\ k \in 0..lg  BY <3>2
      <4>2. cut2[k - 1] = cut[k - 1] /\ cut2[k] = cut[k] /\ g2[k] = g[k]
        BY <1>15, <1>21, <4>1, Zenon
      <4>3. cut[k - 1] < cut[k] /\ IsBatch(Part(w, cut[k - 1], cut[k]), g[k])
        BY <1>14, <1>17, <4>1, Zenon DEF Cuts
      <4> QED  BY <4>2, <4>3, Zenon
    <3> QED  BY <3>1, <3>2
  <2> QED  BY <1>15, <2>1, <2>2, Zenon DEF Cuts
<1>23. Ahead(c, q)'
  <2>1. sEnd'[c] = "open" => q = Taken(c)'  BY <1>9, <1>12, <1>19, Zenon
  <2>2. spc'[c] \notin Collecting  BY <1>1, <1>8
  <2> QED  BY <1>7, <2>1, <2>2, Zenon DEF Ahead
<1>24. wire'[c] = w /\ Len(got'[c]) = lg + 1  BY <1>14, <1>15, <1>16
<1>25. Traced(c)'  BY <1>14, <1>16, <1>20, <1>21, <1>22, <1>23, <1>24, Zenon DEF Traced
<1> QED  BY <1>10, <1>13, <1>25

(* A handler touches its own connection only.                              *)
LEMMA HandlerElsewhere ==
    ASSUME ServerInv, NEW c \in Conns, NEW d \in Conns, d # c, Handler(c)
    PROVE  /\ c2s'[d] = c2s[d] /\ sEnd'[d] = sEnd[d] /\ spc'[d] = spc[d]
           /\ window'[d] = window[d] /\ events'[d] = events[d] /\ last_seq'[d] = last_seq[d]
           /\ rx' = rx /\ link' = link
<1> USE DEF ServerInv, ServerTypes, TransportTypeOK, ConnTypeOK, locals, transportVars
<1>1. CASE Handshake(c)  BY <1>1 DEF Handshake, Finish
<1>2. CASE ReadWindow(c)  BY <1>2 DEF ReadWindow, Finish
<1>3. CASE Collect(c)  BY <1>3, SMTT(40) DEF Collect, Finish
<1>4. CASE ReadEnd(c)  BY <1>4 DEF ReadEnd, Finish
<1>5. CASE DispatchClosed(c) \/ WriteAckFails(c)  BY <1>5 DEF DispatchClosed, WriteAckFails, Finish
<1>6. CASE Dispatch(c) \/ AckReceived(c) \/ KeepaliveDue(c)
  BY <1>6 DEF Dispatch, AckReceived, KeepaliveDue
<1>7. CASE WriteAck(c)  BY <1>7 DEF WriteAck
<1> QED  BY <1>1, <1>2, <1>3, <1>4, <1>5, <1>6, <1>7 DEF Handler

(* Whatever a handler does, its own connection stays traced.               *)
LEMMA HandlerTracesItself ==
    ASSUME ServerInv, Covers, WireInv, NEW c \in Conns, Handler(c), UNCHANGED <<serverVars, wire>>
    PROVE  Piped(c)' /\ Traced(c)' /\ \A d \in Conns : d # c => Queued(d)' = Queued(d)
<1>1. Piped(c) /\ Traced(c) /\ got[c] \in Seq(Seq(Event))  BY WireTypes
<1>2. wire' = wire /\ got' = got  BY DEF serverVars
<1>3. queue' = queue => \A d \in Conns : Queued(d)' = Queued(d)  BY DEF Queued
<1>4. CASE \E r : Finish(c, r) /\ UNCHANGED <<queue, rx, link>>
  <2>1. c2s'[c] = <<>> /\ sEnd'[c] = "closed" /\ spc'[c] = "ending"
    BY <1>4 DEF Finish, ServerInv, ServerTypes, TransportTypeOK, ConnTypeOK
  <2> QED  BY <1>1, <1>2, <1>3, <1>4, <2>1, ConnEnds
<1>5. ASSUME UNCHANGED <<c2s, sEnd, link, rx, queue>>,
             spc[c] \notin Collecting \cup {"ending", "done"}, spc'[c] \notin Collecting
      PROVE  Piped(c)' /\ Traced(c)' /\ \A d \in Conns : d # c => Queued(d)' = Queued(d)
  BY <1>1, <1>2, <1>3, <1>5, ConnKept
<1>6. CASE Handshake(c)
  <2>1. CASE UNCHANGED <<c2s, sEnd, link, rx, queue>> /\ spc' = [spc EXCEPT ![c] = "window"]
    <3>1. spc[c] = "handshake" /\ spc'[c] = "window"
      BY <1>6, <2>1 DEF Handshake, ServerInv, ServerTypes, ConnTypeOK
    <3> QED  BY <1>5, <2>1, <3>1 DEF Collecting
  <2> QED  BY <1>4, <1>6, <2>1 DEF Handshake
<1>7. CASE ReadWindow(c)
  <2>1. CASE NextFrame(c).type = "W"
    <3>1. queue' = queue  BY <1>7 DEF ReadWindow
    <3> QED  BY <1>3, <1>7, <2>1, <3>1, WindowTraced
  <2> QED  BY <1>4, <1>7, <2>1 DEF ReadWindow
<1>8. CASE Collect(c)
  <2>1. CASE InOrder(Contents(NextFrame(c), window[c] - Len(events[c])), last_seq[c])
    <3>1. queue' = queue  BY <1>8 DEF Collect
    <3> QED  BY <1>3, <1>8, <2>1, <3>1, CollectTraced
  <2> QED  BY <1>4, <1>8, <2>1 DEF Collect
<1>9. CASE ReadEnd(c) \/ DispatchClosed(c) \/ WriteAckFails(c)
  BY <1>4, <1>9 DEF ReadEnd, DispatchClosed, WriteAckFails
<1>10. CASE AckReceived(c) \/ KeepaliveDue(c)
  <2>1. /\ UNCHANGED <<c2s, sEnd, link, rx, queue>>
        /\ spc[c] = "await" /\ spc'[c] \in {"ack", "keepalive"}
    BY <1>10 DEF AckReceived, KeepaliveDue, transportVars, ServerInv, ServerTypes, ConnTypeOK
  <2> QED  BY <1>5, <2>1 DEF Collecting
<1>11. CASE WriteAck(c)
  <2>1. /\ UNCHANGED <<c2s, sEnd, link, rx, queue>>
        /\ spc[c] \in {"keepalive", "ack"} /\ spc'[c] \in {"await", "window"}
    BY <1>11 DEF WriteAck, ServerInv, ServerTypes, ConnTypeOK
  <2> QED  BY <1>5, <2>1 DEF Collecting
<1> QED  BY <1>6, <1>7, <1>8, <1>9, <1>10, <1>11, DispatchTraced DEF Handler

(* And so do the others.                                                   *)
LEMMA HandlerTraced ==
    ASSUME ServerInv, Covers, WireInv, NEW c \in Conns, Handler(c), UNCHANGED <<serverVars, wire>>
    PROVE  WireInv'
<1>1. Piped(c)' /\ Traced(c)' /\ \A d \in Conns : d # c => Queued(d)' = Queued(d)
  BY HandlerTracesItself
<1>2. ASSUME NEW d \in Conns, d # c  PROVE Piped(d)' /\ Traced(d)'
  <2>1. Piped(d) /\ Traced(d) /\ got[d] \in Seq(Seq(Event))  BY WireTypes
  <2>2. /\ c2s'[d] = c2s[d] /\ sEnd'[d] = sEnd[d] /\ spc'[d] = spc[d]
        /\ window'[d] = window[d] /\ events'[d] = events[d] /\ last_seq'[d] = last_seq[d]
        /\ rx' = rx /\ link' = link
    BY <1>2, HandlerElsewhere
  <2>3. wire' = wire /\ got' = got  BY DEF serverVars
  <2> QED  BY <1>1, <1>2, <2>1, <2>2, <2>3, ConnKept
<1> QED  BY <1>1, <1>2 DEF WireInv

(* The accept loop and the application leave the frames alone.             *)
LEMMA ServerTraced ==
    ASSUME ServerInv, WireInv, ServerStep, wire' = wire
    PROVE  WireInv'
<1> SUFFICES ASSUME NEW d \in Conns  PROVE Piped(d)' /\ Traced(d)'
  BY DEF WireInv
<1>1. Piped(d) /\ Traced(d) /\ got[d] \in Seq(Seq(Event))  BY WireTypes
<1>2. queue' = queue => Queued(d)' = Queued(d)  BY DEF Queued
<1>3. ASSUME NEW c \in Conns, Accept(c) \/ TaskEnd(c)  PROVE Piped(d)' /\ Traced(d)'
  <2>1. UNCHANGED <<window, events, last_seq, queue, rx, got, c2s, sEnd>>
    BY <1>3 DEF Accept, TaskEnd, locals, transportVars
  <2>2. link'[d] \in {"none", "backlog"} => link[d] \in {"none", "backlog"}
    BY <1>3 DEF Accept, TaskEnd, transportVars, ServerInv, ServerTypes, TransportTypeOK
  <2>3. CASE d # c
    <3>1. spc'[d] = spc[d]
      BY <1>3, <2>3 DEF Accept, TaskEnd, ServerInv, ServerTypes, ConnTypeOK
    <3> QED  BY <1>1, <1>2, <2>1, <2>2, <3>1, ConnKept
  <2>4. CASE d = c
    <3>1. \/ spc[d] = "none" /\ spc'[d] \in {"handshake", "window"}
          \/ spc[d] = "ending" /\ spc'[d] = "done"
      BY <1>3, <2>4 DEF Accept, InBacklog, TaskEnd, ServerInv, ServerTypes, ConnTypeOK, LinkPhase
    <3>2. /\ spc[d] \notin Collecting /\ spc'[d] \notin Collecting
          /\ spc'[d] \notin {"ending", "done"} => spc[d] \notin {"ending", "done"}
      BY <3>1 DEF Collecting
    <3> QED  BY <1>1, <1>2, <2>1, <2>2, <3>2, ConnKept
  <2> QED  BY <2>3, <2>4
<1>4. CASE ShutdownSeen \/ AcceptFails
  <2>1. /\ UNCHANGED <<sEnd, spc, window, events, last_seq, queue, rx, got>>
        /\ link' = [c \in Conns |-> IF link[c] = "backlog" THEN "reset" ELSE link[c]]
        /\ c2s' = [c \in Conns |-> IF link[c] = "backlog" THEN <<>> ELSE c2s[c]]
    BY <1>4 DEF ShutdownSeen, AcceptFails, StopLoop, connVars
  <2>2. c2s'[d] = c2s[d]  BY <1>1, <2>1 DEF Piped
  <2>3. link'[d] \in {"none", "backlog"} => link[d] \in {"none", "backlog"}
    BY <2>1
  <2> QED  BY <1>1, <1>2, <2>1, <2>2, <2>3, ConnKept
<1>5. CASE RecvNone \/ Shutdown \/ CloseReceiver \/ \E b \in held : Resolve(b)
  <2>1. /\ UNCHANGED <<sEnd, c2s, link, spc, window, events, last_seq, queue, got>>
        /\ rx' # "dropped" => rx # "dropped"
    BY <1>5 DEF RecvNone, Shutdown, CloseReceiver, Resolve, connVars, serverVars, locals,
       transportVars
  <2> QED  BY <1>1, <1>2, <2>1, ConnKept
<1>6. CASE DropQueued
  <2>1. UNCHANGED <<sEnd, c2s, link, spc, got, rx>> /\ rx = "dropped"
    BY <1>6 DEF DropQueued, transportVars
  <2>2. Piped(d)'  BY <1>1, <2>1 DEF Piped, Taken
  <2> QED  BY <1>1, <2>1, <2>2, TracedStays
<1> QED  BY <1>3, <1>4, <1>5, <1>6, RecvTraced DEF ServerStep

(* A peer that writes adds to the wire and to the pipe; nothing else it    *)
(* does matters.                                                           *)
LEMMA PeerTraced ==
    ASSUME ServerInv, WireInv, NEW c \in Conns, PeerSide(c)
    PROVE  WireInv'
<1>1. UNCHANGED <<connVars, serverVars>>  BY DEF PeerSide
<1>2. UNCHANGED <<spc, window, events, last_seq, queue, rx, got>>
  BY <1>1 DEF connVars, serverVars
<1>3. \A d \in Conns : Piped(d) /\ Traced(d) /\ got[d] \in Seq(Seq(Event)) /\ Queued(d)' = Queued(d)
  BY <1>2, WireTypes DEF Queued
<1>4. CASE PeerConnects(c) \/ PeerReads(c) \/ PeerCloses(c)
  <2>1. UNCHANGED <<c2s, sEnd, wire>>  BY <1>4 DEF PeerConnects, PeerReads, PeerCloses
  <2>2. \A d \in Conns : link'[d] \in {"none", "backlog"} => link[d] \in {"none", "backlog"}
    BY <1>4 DEF PeerConnects, PeerReads, PeerCloses, ServerInv, ServerTypes, TransportTypeOK
  <2>3. ASSUME NEW d \in Conns  PROVE Piped(d)' /\ Traced(d)'
    BY <1>2, <1>3, <2>1, <2>2, ConnKept
  <2> QED  BY <2>1, <2>3 DEF WireInv
<1>5. CASE \E f \in PeerFrames : PeerWrites(c, f)
  <2>1. PICK f \in FrameSet : PeerWrites(c, f)  BY <1>5, PeerAssumption
  <2>2. Piped(c)' /\ Traced(c)'  BY <1>1, <2>1, WriteTraced
  <2>3. wire' = [wire EXCEPT ![c] = Append(wire[c], f)] /\ link' = link /\ sEnd' = sEnd
    BY <2>1 DEF PeerWrites
  <2>4. wire \in [Conns -> Seq(FrameSet)]  BY DEF WireInv
  <2>5. wire' \in [Conns -> Seq(FrameSet)]  BY <2>3, <2>4, AppendTo
  <2>6. ASSUME NEW d \in Conns, d # c  PROVE Piped(d)' /\ Traced(d)'
    <3>1. c2s'[d] = c2s[d] /\ wire'[d] = wire[d]
      BY <2>1, <2>3, <2>4, <2>6 DEF PeerWrites, Written, ServerInv, ServerTypes, TransportTypeOK
    <3> QED  BY <1>2, <1>3, <2>3, <3>1, ConnKept
  <2> QED  BY <2>2, <2>5, <2>6 DEF WireInv
<1> QED  BY <1>4, <1>5 DEF PeerSide

(* Nothing has been written or received at the start.                      *)
LEMMA WireStarts ==
    ASSUME Init
    PROVE  WireInv
<1> SUFFICES ASSUME NEW c \in Conns  PROVE Piped(c) /\ Traced(c) /\ <<>> \in Seq(FrameSet)
  BY DEF Init, WireInv
<1>1. /\ wire[c] = <<>> /\ c2s[c] = <<>> /\ got[c] = <<>> /\ sEnd[c] = "open"
      /\ spc[c] = "none" /\ queue = <<>>
  BY DEF Init, TransportInit, ConnInit, ServerInit
<1>2. Len(<<>>) = 0 /\ 1..0 = {} /\ 0 - 0 = 0 /\ DOMAIN <<>> = {}  OBVIOUS
<1>3. Taken(c) = 0  BY <1>1, <1>2, Zenon DEF Taken
<1>4. Piped(c)  BY <1>1, <1>2 DEF Piped
<1>5. Queued(c) = {}  BY <1>1, <1>2 DEF Queued, Range
<1>6. Ahead(c, 0)  BY <1>1, <1>3, <1>5, Zenon DEF Ahead, Collecting
<1>7. PICK cut \in [0..0 -> 0..0] : cut[0] = 0
  <2>1. [k \in 0..0 |-> 0] \in [0..0 -> 0..0] /\ [k \in 0..0 |-> 0][0] = 0  OBVIOUS
  <2> QED  BY <2>1
<1>8. Cuts(wire[c], got[c], cut)  BY <1>1, <1>2, <1>7, Zenon DEF Cuts
<1>9. Traced(c)  BY <1>1, <1>2, <1>6, <1>7, <1>8, Zenon DEF Traced
<1> QED  BY <1>4, <1>9

(* What recv returned for a connection is, for every peer, every number of *)
(* connections and every size of pipe and channel, a reading of what the   *)
(* peer wrote: consecutive batches, each a Window and frames that hold its *)
(* events in order, with nothing skipped, repeated or taken from beyond    *)
(* the window.                                                             *)
THEOREM RecvReadsTheWire == Spec => []DeliversTheWire
<1> DEFINE Inv == ServerInv /\ Covers /\ WireInv
<1>1. Init => Inv  BY ServerStarts, CoversStarts, WireStarts DEF Init
<1>2. Inv /\ [Next]_vars => Inv'
  <2> SUFFICES ASSUME ServerInv, Covers, WireInv, [Next]_vars
               PROVE  Covers' /\ WireInv'
    BY PeerInvKept
  <2>1. CASE UNCHANGED vars
    <3>1. UNCHANGED <<connVars, serverVars>>  BY <2>1 DEF vars
    <3>2. Covers'  BY <3>1, EnvironmentKeepsCovers
    <3>3. /\ UNCHANGED <<c2s, sEnd, link, wire, got, rx, queue>>
          /\ UNCHANGED <<spc, window, events, last_seq>>
      BY <2>1 DEF vars, transportVars, connVars, serverVars
    <3>4. ASSUME NEW d \in Conns  PROVE Piped(d)' /\ Traced(d)'
      <4>1. Piped(d) /\ Traced(d) /\ got[d] \in Seq(Seq(Event))  BY WireTypes
      <4>2. Queued(d)' = Queued(d)  BY <3>3 DEF Queued
      <4> QED  BY <3>3, <4>1, <4>2, ConnKept
    <3> QED  BY <3>2, <3>3, <3>4 DEF WireInv
  <2>2. ASSUME NEW c \in Conns, PeerSide(c)  PROVE Covers' /\ WireInv'
    BY <2>2, EnvironmentKeepsCovers, PeerTraced DEF PeerSide
  <2>3. ASSUME NEW c \in Conns, Handler(c), UNCHANGED <<serverVars, wire>>
        PROVE  Covers' /\ WireInv'
    BY <2>3, HandlerKeepsCovers, HandlerTraced
  <2>4. CASE ServerStep /\ UNCHANGED wire
    BY <2>4, ServerKeepsCovers, ServerTraced
  <2> QED  BY <2>1, <2>2, <2>3, <2>4 DEF Next, Quiet
<1>3. Inv => DeliversTheWire
  BY Zenon DEF WireInv, Traced, Cuts, Part, DeliversTheWire
<1> QED  BY <1>1, <1>2, <1>3, PTL DEF Spec
=============================================================================
