---------------------------- MODULE ServerProofs ----------------------------
(***************************************************************************)
(* Proofs about the server side alone, whoever is at the other end of the  *)
(* connections: the invariant that Handler and ServerStep preserve.        *)
(* WireProofs and AnyPeerProofs add the two environments.                  *)
(***************************************************************************)
EXTENDS Server, FiniteSetTheorems, SequenceTheorems, WellFoundedInduction, TLAPS

-----------------------------------------------------------------------------
(* Frames *)

(* The order on naturals as a relation, for the library's WFMin.           *)
Smaller == {pair \in Nat \X Nat : pair[1] < pair[2]}

(* A set of naturals that has a member has a least one; Fault picks the    *)
(* first bad frame with it.                                                *)
LEMMA LeastNatural ==
    ASSUME NEW S \in SUBSET Nat, S # {}
    PROVE  \E m \in S : \A k \in S : m <= k
<1>1. OpToRel(<, Nat) = Smaller  BY DEF OpToRel, Smaller
<1>2. PICK m \in S : \A k \in S : ~(<<k, m>> \in OpToRel(<, Nat))
  BY WFMin, NatLessThanWellFounded
<1>3. ASSUME NEW k \in S  PROVE m <= k
  <2>1. <<k, m>> \in Nat \X Nat /\ ~(<<k, m>> \in Smaller)  BY <1>1, <1>2
  <2>2. ~(k < m)  BY <2>1 DEF Smaller
  <2> QED  BY <2>2
<1> QED  BY <1>3

(* What the codec hands over for a frame is a frame.                       *)
LEMMA DecodeType ==
    ASSUME NEW f \in FrameSet, NEW max \in Nat
    PROVE  DecodeWithLimit(f, max) \in FrameSet
<1>1. Bad("FrameTooLarge") \in FrameSet
  BY DEF Bad, FrameSet, InnerFrames, BadFrames, Errors
<1> QED  BY <1>1 DEF DecodeWithLimit

(* The fields of a frame, by its type.                                     *)
LEMMA FrameFields ==
    ASSUME NEW f \in FrameSet
    PROVE  /\ f.type \in {"W", "J", "A", "X", "C"}
           /\ f.type = "W" => f.n \in Nat
           /\ f.type = "J" => f.seq \in Nat /\ f.data \in Event
           /\ f.type = "X" => f.err \in Errors
           /\ f.type = "A" => f.seq \in Nat
           /\ f.type = "C" => f.inner \in Seq(InnerFrames)
  BY DEF FrameSet, InnerFrames, WindowFrames, JsonFrames, AckFrames, BadFrames,
         CompressedFrames

(* The community modules' Min of a pair, as the inner loop over a          *)
(* compressed frame uses it.                                               *)
LEMMA MinOfTwo ==
    ASSUME NEW a \in Nat, NEW b \in Nat
    PROVE  Min({a, b}) = IF a <= b THEN a ELSE b
  BY DEF Min

(* What a frame contributes to a batch is a sequence of frames, no longer  *)
(* than the room there is.                                                 *)
LEMMA ContentsType ==
    ASSUME NEW f \in FrameSet, NEW room \in Nat, room > 0
    PROVE  /\ Contents(f, room) \in Seq(FrameSet)
           /\ Len(Contents(f, room)) <= room
<1>1. CASE f.type = "C"
  <2> DEFINE m == Min({Len(f.inner), room})
  <2>1. f.inner \in Seq(InnerFrames)  BY <1>1, FrameFields
  <2>2. m \in Nat /\ m <= room /\ m <= Len(f.inner)  BY <2>1, MinOfTwo
  <2>3. \A i \in 1..m : DecodeWithLimit(f.inner[i], ServerMax) \in FrameSet
    BY <2>1, <2>2, DecodeType, ConnectionAssumption DEF FrameSet
  <2>4. Contents(f, room) = [i \in 1..m |-> DecodeWithLimit(f.inner[i], ServerMax)]
    BY <1>1 DEF Contents
  <2> HIDE DEF m
  <2> QED  BY <2>2, <2>3, <2>4
<1>2. CASE f.type # "C"
  BY <1>2 DEF Contents
<1> QED  BY <1>1, <1>2

(* A sequence of frames that is not in order has a first bad frame.        *)
LEMMA FaultType ==
    ASSUME NEW fs \in Seq(FrameSet), NEW prev \in Nat, ~InOrder(fs, prev)
    PROVE  Fault(fs, prev) \in Errors
<1> DEFINE bad == {i \in DOMAIN fs : ~FrameOk(fs, i, prev)}
<1>1. bad \in SUBSET Nat /\ bad # {}  BY DEF InOrder
<1>2. PICK k \in bad : \A i \in bad : k <= i
  <2> HIDE DEF bad
  <2> QED  BY <1>1, LeastNatural
<1>3. k \in DOMAIN fs /\ IsFirstBad(k, fs, prev)
  BY <1>2 DEF IsFirstBad
<1> DEFINE first == CHOOSE i \in DOMAIN fs : IsFirstBad(i, fs, prev)
<1>4. first \in DOMAIN fs  BY <1>3
<1>5. fs[first] \in FrameSet  BY <1>4
<1> HIDE DEF first
<1>6. fs[first].type = "X" => fs[first].err \in Errors  BY <1>5, FrameFields
<1> QED  BY <1>6 DEF Fault, first, Errors
-----------------------------------------------------------------------------
(* The gauge *)

Tasks == {c \in Conns : Live(c)}

(* There are finitely many handler tasks to count.                         *)
LEMMA TasksFinite == IsFiniteSet(Tasks)
  BY TransportAssumption, FS_Subset DEF Tasks

(* A step of a task that neither starts nor ends it keeps the gauge exact. *)
LEMMA GaugeKept ==
    ASSUME GaugeExact, ConnTypeOK, active' = active,
           NEW c \in Conns, Live(c),
           NEW pc, pc \notin {"none", "done"}, spc' = [spc EXCEPT ![c] = pc]
    PROVE  GaugeExact'
<1>1. Tasks' = Tasks  BY DEF Tasks, Live, ConnTypeOK
<1> QED  BY <1>1 DEF GaugeExact, Tasks

(* A step that neither starts nor ends a task leaves the gauge right.      *)
LEMMA GaugeSame ==
    ASSUME GaugeExact, active' = active, spc' = spc
    PROVE  GaugeExact'
<1>1. Tasks' = Tasks  BY DEF Tasks, Live
<1> QED  BY <1>1 DEF GaugeExact, Tasks

-----------------------------------------------------------------------------
(* Steps of a handler task *)

(* Returning from run_connection, at whatever point.                       *)
LEMMA FinishStep ==
    ASSUME ServerInv, NEW c \in Conns, HoldsSender(c),
           NEW r \in Errors \cup {"Ok", "Handshake"}, Finish(c, r),
           UNCHANGED <<link, cEnd, s2c, rx, queue, serverVars>>
    PROVE  ServerInv'
<1>1. ServerTypes'
  BY DEF ServerInv, ServerTypes, TransportTypeOK, ConnTypeOK, ServerTypeOK,
         Finish, serverVars, Ends, ConnPcs
<1>2. LinkPhase' /\ CollectRoom'
  BY DEF ServerInv, ServerTypes, ConnTypeOK, HoldsSender, Finish, serverVars,
         LinkPhase, CollectRoom
<1>3. GaugeExact'
  BY GaugeKept DEF ServerInv, ServerTypes, HoldsSender, Live, Finish, serverVars
<1>4. OneOutstanding'
  BY DEF ServerInv, ServerTypes, ConnTypeOK, Finish, serverVars, OneOutstanding,
         InChannel, InHand, InOneshot
<1>5. NoLostAck'
  BY DEF ServerInv, ServerTypes, ConnTypeOK, Finish, serverVars, NoLostAck,
         InChannel, InHand, InOneshot, Awaiting
<1>6. NoneIsFinal'
  BY DEF ServerInv, HoldsSender, NoneIsFinal, serverVars
<1> QED  BY <1>1, <1>2, <1>3, <1>4, <1>5, <1>6 DEF ServerInv

(* Moving on while no batch of the connection is outstanding.              *)
Reading == {"handshake", "window", "collect", "dispatch"}

(* A step between two states in which the handler reads, with nothing      *)
(* outstanding, keeps the invariant.                                       *)
LEMMA ReadingStep ==
    ASSUME ServerInv, NEW c \in Conns, spc[c] \in Reading,
           NEW pc \in Reading, spc' = [spc EXCEPT ![c] = pc],
           ServerTypes', CollectRoom',
           UNCHANGED <<link, ack_rx, queue, serverVars>>
    PROVE  ServerInv'
<1>1. LinkPhase'
  BY DEF ServerInv, ServerTypes, ConnTypeOK, LinkPhase, Reading
<1>2. GaugeExact'
  BY GaugeKept DEF ServerInv, ServerTypes, Live, serverVars, Reading
<1>3. OneOutstanding'
  BY DEF ServerInv, serverVars, OneOutstanding, InChannel, InHand, InOneshot
<1>4. NoLostAck'
  BY ZenonT(30) DEF ServerInv, ServerTypes, ConnTypeOK, serverVars, NoLostAck, InChannel,
         InHand, InOneshot, Awaiting, Reading
<1>5. NoneIsFinal'
  BY DEF ServerInv, HoldsSender, NoneIsFinal, serverVars, Reading
<1> QED  BY <1>1, <1>2, <1>3, <1>4, <1>5 DEF ServerInv

(* The TLS handshake starts the protocol or ends the task.                 *)
LEMMA HandshakeStep ==
    ASSUME ServerInv, NEW c \in Conns, Handshake(c), UNCHANGED serverVars
    PROVE  ServerInv'
<1>1. CASE spc' = [spc EXCEPT ![c] = "window"] /\ UNCHANGED <<sEnd, c2s, locals, ack_rx, result>>
  <2>1. ServerTypes' /\ CollectRoom'
    BY <1>1 DEF ServerInv, ServerTypes, TransportTypeOK, ConnTypeOK, ServerTypeOK,
                CollectRoom, Handshake, serverVars, locals, ConnPcs
  <2> QED  BY <1>1, <2>1, ReadingStep DEF Handshake, Reading
<1>2. CASE Finish(c, "Handshake")
  BY <1>2, FinishStep DEF Handshake, HoldsSender, Errors
<1> QED  BY <1>1, <1>2 DEF Handshake

(* Reading a Window frame, or anything else in its place.                  *)
LEMMA ReadWindowStep ==
    ASSUME ServerInv, NEW c \in Conns, ReadWindow(c), UNCHANGED serverVars
    PROVE  ServerInv'
<1> DEFINE f == NextFrame(c)
<1>1. c2s[c] \in Seq(FrameSet) /\ c2s[c] # <<>>
  BY DEF ServerInv, ServerTypes, TransportTypeOK, ReadWindow, Readable
<1>2. f \in FrameSet
  BY <1>1, DecodeType, ConnectionAssumption DEF NextFrame
<1> HIDE DEF f
<1>3. CASE f.type = "W"
  <2> DEFINE pc == IF f.n = 0 THEN "dispatch" ELSE "collect"
  <2>1. f.n \in Nat  BY <1>2, <1>3, FrameFields
  <2>2. /\ spc' = [spc EXCEPT ![c] = pc]
        /\ window' = [window EXCEPT ![c] = f.n]
        /\ events' = [events EXCEPT ![c] = <<>>]
        /\ last_seq' = [last_seq EXCEPT ![c] = 0]
        /\ c2s' = [c2s EXCEPT ![c] = Tail(@)]
        /\ UNCHANGED <<sEnd, ack_rx, result, link, cEnd, s2c, rx, queue>>
    BY <1>3 DEF ReadWindow, f
  <2>3. ServerTypes'
    BY <1>1, <2>1, <2>2, SMTT(30) DEF ServerInv, ServerTypes, TransportTypeOK, ConnTypeOK,
                            ServerTypeOK, serverVars, ConnPcs
  <2>4. CollectRoom'
    BY <2>1, <2>2 DEF ServerInv, ServerTypes, ConnTypeOK, CollectRoom
  <2> QED  BY <2>2, <2>3, <2>4, ReadingStep DEF ReadWindow, Reading
<1>4. CASE f.type # "W"
  <2>1. (IF f.type = "X" THEN f.err ELSE "UnexpectedFrame") \in Errors
    BY <1>2, FrameFields DEF Errors
  <2>2. Finish(c, IF f.type = "X" THEN f.err ELSE "UnexpectedFrame")
    BY <1>4 DEF ReadWindow, f
  <2> QED  BY <2>1, <2>2, FinishStep DEF ReadWindow, HoldsSender
<1> QED  BY <1>3, <1>4

(* Collecting events from a J or a C frame, or refusing it.                *)
LEMMA CollectStep ==
    ASSUME ServerInv, NEW c \in Conns, Collect(c), UNCHANGED serverVars
    PROVE  ServerInv'
<1> DEFINE room == window[c] - Len(events[c])
           fs == Contents(NextFrame(c), room)
           evs == events[c] \o [i \in DOMAIN fs |-> fs[i].data]
<1>1. c2s[c] \in Seq(FrameSet) /\ c2s[c] # <<>>
  BY DEF ServerInv, ServerTypes, TransportTypeOK, Collect, Readable
<1>2. NextFrame(c) \in FrameSet
  BY <1>1, DecodeType, ConnectionAssumption DEF NextFrame
<1>3. /\ window[c] \in Nat /\ events[c] \in Seq(Event) /\ last_seq[c] \in Nat
      /\ Len(events[c]) < window[c]
  BY DEF ServerInv, ServerTypes, ConnTypeOK, CollectRoom, Collect
<1>4. room \in Nat /\ room > 0  BY <1>3
<1>5. fs \in Seq(FrameSet) /\ Len(fs) <= room
  <2> HIDE DEF room
  <2> QED  BY <1>2, <1>4, ContentsType
<1>6. CASE InOrder(fs, last_seq[c])
  <2> DEFINE pc == IF Complete(window[c], Len(evs)) THEN "dispatch" ELSE "collect"
             seq == PrevSeq(fs, Len(fs) + 1, last_seq[c])
  <2>1. /\ spc' = [spc EXCEPT ![c] = pc]
        /\ events' = [events EXCEPT ![c] = evs]
        /\ last_seq' = [last_seq EXCEPT ![c] = seq]
        /\ c2s' = [c2s EXCEPT ![c] = Tail(@)]
        /\ UNCHANGED <<sEnd, window, ack_rx, result, link, cEnd, s2c, rx, queue>>
    BY <1>6 DEF Collect
  <2> HIDE DEF fs, room
  <2>2. \A i \in DOMAIN fs : fs[i].type = "J" /\ fs[i] \in FrameSet
    BY <1>5, <1>6 DEF InOrder, FrameOk
  <2>3. \A i \in DOMAIN fs : fs[i].data \in Event /\ fs[i].seq \in Nat
    BY <2>2, FrameFields
  <2>4. seq \in Nat
    BY <1>3, <1>5, <2>3 DEF PrevSeq
  <2>5. evs \in Seq(Event) /\ Len(evs) = Len(events[c]) + Len(fs)
    <3> DEFINE data == [i \in DOMAIN fs |-> fs[i].data]
    <3>1. data \in Seq(Event) /\ Len(data) = Len(fs)  BY <1>5, <2>3
    <3> HIDE DEF data
    <3>2. /\ events[c] \o data \in Seq(Event)
          /\ Len(events[c] \o data) = Len(events[c]) + Len(data)
      BY <1>3, <3>1, ConcatProperties
    <3> QED  BY <3>1, <3>2 DEF data
  <2> HIDE DEF evs, seq
  <2>6. ServerTypes'
    BY <1>1, <2>1, <2>4, <2>5, SMTT(30) DEF ServerInv, ServerTypes, TransportTypeOK, ConnTypeOK,
                                  ServerTypeOK, serverVars, ConnPcs
  <2>7. CollectRoom'
    BY <1>3, <2>1, <2>5 DEF ServerInv, ServerTypes, ConnTypeOK, CollectRoom, Complete
  <2> QED  BY <2>1, <2>6, <2>7, ReadingStep DEF Collect, Reading
<1>7. CASE ~InOrder(fs, last_seq[c])
  <2>1. Finish(c, Fault(fs, last_seq[c]))  BY <1>7 DEF Collect
  <2> HIDE DEF fs
  <2>2. Fault(fs, last_seq[c]) \in Errors  BY <1>3, <1>5, <1>7, FaultType
  <2> QED  BY <2>1, <2>2, FinishStep DEF Collect, HoldsSender
<1> QED  BY <1>6, <1>7

(* The stream ends or breaks while the handler reads.                      *)
LEMMA ReadEndStep ==
    ASSUME ServerInv, NEW c \in Conns, ReadEnd(c), UNCHANGED serverVars
    PROVE  ServerInv'
<1>1. PICK r \in {"Ok", "ConnectionClosed", "Io"} : Finish(c, r)  BY DEF ReadEnd
<1>2. HoldsSender(c)  BY DEF ReadEnd, HoldsSender
<1> QED  BY <1>1, <1>2, FinishStep DEF ReadEnd, Errors
(* Dispatching, waiting and acknowledging.                                 *)
LEMMA DispatchStep ==
    ASSUME ServerInv, NEW c \in Conns, Dispatch(c), UNCHANGED serverVars
    PROVE  ServerInv'
<1>1. NewBatch(c) \in BatchSet /\ NewBatch(c).conn = c
  BY DEF ServerInv, ServerTypes, ConnTypeOK, NewBatch, BatchSet
<1>2. queue \in Seq(BatchSet) /\ queue' = Append(queue, NewBatch(c))
  BY DEF ServerInv, ServerTypes, ConnTypeOK, Dispatch
<1> HIDE DEF NewBatch
<1>3. ServerTypes'
  BY <1>1, <1>2 DEF ServerInv, ServerTypes, TransportTypeOK, ConnTypeOK, ServerTypeOK,
                    Dispatch, serverVars, transportVars, locals, ConnPcs
<1>4. LinkPhase' /\ CollectRoom' /\ NoneIsFinal'
  BY DEF ServerInv, ServerTypes, ConnTypeOK, Dispatch, transportVars, locals,
         serverVars, LinkPhase, CollectRoom, NoneIsFinal, HoldsSender
<1>5. GaugeExact'
  BY GaugeKept DEF ServerInv, ServerTypes, Live, Dispatch, serverVars
<1>6. ~InChannel(c) /\ ~InHand(c) /\ ~InOneshot(c)
  BY DEF ServerInv, NoLostAck, Awaiting, Dispatch
<1>7. /\ DOMAIN queue' = 1..(Len(queue) + 1)
      /\ \A i \in DOMAIN queue : queue'[i] = queue[i]
      /\ queue'[Len(queue) + 1] = NewBatch(c)
  BY <1>1, <1>2
<1>8. \A d \in Conns : InChannel(d)' <=> InChannel(d) \/ d = c
  BY <1>1, <1>2, <1>7 DEF InChannel
<1>9. OneOutstanding'
  <2>1. \A i, j \in DOMAIN queue' : queue'[i].conn = queue'[j].conn => i = j
    BY <1>1, <1>2, <1>6, <1>7 DEF ServerInv, OneOutstanding, InChannel
  <2> QED
    BY <2>1, <1>6, <1>8 DEF ServerInv, OneOutstanding, InHand, InOneshot, Dispatch, serverVars
<1>10. NoLostAck'
  BY <1>6, <1>8 DEF ServerInv, ServerTypes, ConnTypeOK, NoLostAck, InHand, InOneshot,
                    Awaiting, Dispatch, serverVars
<1> QED  BY <1>3, <1>4, <1>5, <1>9, <1>10 DEF ServerInv

(* The handler finds the Server gone and returns.                          *)
LEMMA DispatchClosedStep ==
    ASSUME ServerInv, NEW c \in Conns, DispatchClosed(c), UNCHANGED serverVars
    PROVE  ServerInv'
  BY FinishStep DEF DispatchClosed, HoldsSender

(* Writing an Ack fails; a batch that is still out stays behind.           *)
LEMMA WriteAckFailsStep ==
    ASSUME ServerInv, NEW c \in Conns, WriteAckFails(c), UNCHANGED serverVars
    PROVE  ServerInv'
  BY FinishStep DEF WriteAckFails, HoldsSender, Errors

(* While a batch is outstanding the task only moves within these phases.   *)
LEMMA WaitingStep ==
    ASSUME ServerInv, NEW c \in Conns, AckReceived(c) \/ KeepaliveDue(c),
           UNCHANGED serverVars
    PROVE  ServerInv'
<1>1. ServerTypes'
  BY DEF ServerInv, ServerTypes, TransportTypeOK, ConnTypeOK, ServerTypeOK, AckReceived,
         KeepaliveDue, serverVars, transportVars, locals, ConnPcs
<1>2. LinkPhase' /\ CollectRoom' /\ NoneIsFinal'
  BY DEF ServerInv, ServerTypes, ConnTypeOK, AckReceived, KeepaliveDue, transportVars,
         locals, serverVars, LinkPhase, CollectRoom, NoneIsFinal, HoldsSender
<1>3. GaugeExact'
  BY GaugeKept DEF ServerInv, ServerTypes, Live, AckReceived, KeepaliveDue, serverVars
<1>4. OneOutstanding'
  BY DEF ServerInv, OneOutstanding, InChannel, InHand, InOneshot, AckReceived,
         KeepaliveDue, serverVars
<1>5. \A d \in Conns : /\ InChannel(d)' <=> InChannel(d)
                       /\ InHand(d)' <=> InHand(d)
                       /\ InOneshot(d)' <=> InOneshot(d)
  BY DEF InChannel, InHand, InOneshot, AckReceived, KeepaliveDue, serverVars
<1>6. spc[c] = "await" /\ InOneshot(c) = (ack_rx[c] # <<>>)
  BY DEF AckReceived, KeepaliveDue, InOneshot
<1>7. NoLostAck'
  BY <1>5, <1>6 DEF ServerInv, ServerTypes, ConnTypeOK, OneOutstanding, NoLostAck,
                    Awaiting, AckReceived, KeepaliveDue
<1> QED  BY <1>1, <1>2, <1>3, <1>4, <1>7 DEF ServerInv

(* Writing an Ack keeps the types of the pipes.                            *)
LEMMA AckWritten ==
    ASSUME ServerTypes, NEW c \in Conns, NEW seq \in Nat
    PROVE  Written(s2c, cEnd, c, Ack(seq)) \in [Conns -> Seq(FrameSet)]
<1>1. Ack(seq) \in FrameSet  BY DEF Ack, FrameSet, InnerFrames, AckFrames
<1> HIDE DEF Ack
<1>2. Append(s2c[c], Ack(seq)) \in Seq(FrameSet)
  BY <1>1 DEF ServerTypes, TransportTypeOK
<1> QED  BY <1>2 DEF ServerTypes, TransportTypeOK, Written

(* An Ack(0) returns to the wait, the final Ack to the next batch.         *)
LEMMA WriteAckStep ==
    ASSUME ServerInv, NEW c \in Conns, WriteAck(c), UNCHANGED serverVars
    PROVE  ServerInv'
<1>1. CASE spc[c] = "keepalive"
  <2>1. /\ s2c' = Written(s2c, cEnd, c, Ack(0))
        /\ spc' = [spc EXCEPT ![c] = "await"]
        /\ UNCHANGED <<window, events, last_seq, ack_rx>>
        /\ UNCHANGED <<link, cEnd, sEnd, c2s, result, rx, queue>>
    BY <1>1 DEF WriteAck, locals
  <2>2. s2c' \in [Conns -> Seq(FrameSet)]  BY <2>1, AckWritten DEF ServerInv
  <2>3. ServerTypes'
    BY <2>1, <2>2 DEF ServerInv, ServerTypes, TransportTypeOK, ConnTypeOK, ServerTypeOK,
                      serverVars, ConnPcs
  <2>4. LinkPhase' /\ CollectRoom' /\ NoneIsFinal'
    BY <1>1, <2>1 DEF ServerInv, ServerTypes, ConnTypeOK, serverVars, LinkPhase,
                      CollectRoom, NoneIsFinal, HoldsSender
  <2>5. GaugeExact'
    BY <1>1, <2>1, GaugeKept DEF ServerInv, ServerTypes, Live, serverVars
  <2>6. OneOutstanding'
    BY <2>1 DEF ServerInv, OneOutstanding, InChannel, InHand, InOneshot, serverVars
  <2>7. NoLostAck'
    BY <1>1, <2>1 DEF ServerInv, ServerTypes, ConnTypeOK, NoLostAck, InChannel, InHand,
                      InOneshot, Awaiting, serverVars
  <2> QED  BY <2>3, <2>4, <2>5, <2>6, <2>7 DEF ServerInv
<1>2. CASE spc[c] = "ack"
  <2>1. /\ s2c' = Written(s2c, cEnd, c, Ack(Head(ack_rx[c])))
        /\ spc' = [spc EXCEPT ![c] = "window"]
        /\ window' = [window EXCEPT ![c] = 0]
        /\ events' = [events EXCEPT ![c] = <<>>]
        /\ last_seq' = [last_seq EXCEPT ![c] = 0]
        /\ ack_rx' = [ack_rx EXCEPT ![c] = <<>>]
        /\ UNCHANGED <<link, cEnd, sEnd, c2s, result, rx, queue>>
    BY <1>2 DEF WriteAck
  <2>2. Head(ack_rx[c]) \in Nat /\ InOneshot(c)
    BY <1>2 DEF ServerInv, ServerTypes, ConnTypeOK, NoLostAck, InOneshot
  <2>3. s2c' \in [Conns -> Seq(FrameSet)]  BY <2>1, <2>2, AckWritten DEF ServerInv
  <2>4. ServerTypes'
    BY <2>1, <2>3, SMTT(30) DEF ServerInv, ServerTypes, TransportTypeOK, ConnTypeOK, ServerTypeOK,
                      serverVars, ConnPcs
  <2>5. LinkPhase' /\ CollectRoom' /\ NoneIsFinal'
    BY <1>2, <2>1 DEF ServerInv, ServerTypes, ConnTypeOK, serverVars, LinkPhase,
                      CollectRoom, NoneIsFinal, HoldsSender
  <2>6. GaugeExact'
    BY <1>2, <2>1, GaugeKept DEF ServerInv, ServerTypes, Live, serverVars
  <2>7. ~InChannel(c) /\ ~InHand(c)
    BY <2>2 DEF ServerInv, OneOutstanding
  <2>8. \A d \in Conns : (InChannel(d)' <=> InChannel(d)) /\ (InHand(d)' <=> InHand(d))
    BY <2>1 DEF InChannel, InHand, serverVars
  <2>9. \A d \in Conns : InOneshot(d)' <=> InOneshot(d) /\ d # c
    BY <2>1 DEF InOneshot, ServerInv, ServerTypes, ConnTypeOK
  <2>10. OneOutstanding'
    BY <2>1, <2>8, <2>9 DEF ServerInv, ServerTypes, ConnTypeOK, OneOutstanding, serverVars
  <2>11. NoLostAck'
    BY <1>2, <2>1, <2>7, <2>8, <2>9 DEF ServerInv, ServerTypes, ConnTypeOK, NoLostAck,
                                        Awaiting
  <2> QED  BY <2>4, <2>5, <2>6, <2>10, <2>11 DEF ServerInv
<1> QED  BY <1>1, <1>2 DEF WriteAck

(* Every step of a handler task preserves the server's invariant.          *)
THEOREM HandlerPreserves ==
    ASSUME ServerInv, NEW c \in Conns, Handler(c), UNCHANGED serverVars
    PROVE  ServerInv'
  BY HandshakeStep, ReadWindowStep, CollectStep, ReadEndStep, DispatchStep,
     DispatchClosedStep, WaitingStep, WriteAckStep, WriteAckFailsStep DEF Handler
-----------------------------------------------------------------------------
(* Steps of the accept loop *)

(* Accepting a connection starts one task and counts it.                   *)
LEMMA AcceptStep ==
    ASSUME ServerInv, NEW c \in Conns, Accept(c)
    PROVE  ServerInv'
<1> DEFINE pc == IF Tls THEN "handshake" ELSE "window"
<1>1. spc[c] = "none" /\ spc' = [spc EXCEPT ![c] = pc] /\ pc \in {"handshake", "window"}
  BY DEF ServerInv, LinkPhase, Accept, InBacklog
<1> HIDE DEF pc
<1>2. ServerTypes'
  BY <1>1 DEF ServerInv, ServerTypes, TransportTypeOK, ConnTypeOK, ServerTypeOK, Accept,
              AfterAccept, locals, ConnPcs
<1>3. LinkPhase' /\ CollectRoom'
  BY <1>1 DEF ServerInv, ServerTypes, TransportTypeOK, ConnTypeOK, Accept, InBacklog,
              locals, LinkPhase, CollectRoom
<1>4. NoneIsFinal'
  BY DEF ServerInv, Accept, NoneIsFinal
<1>5. GaugeExact'
  <2>1. Tasks' = Tasks \cup {c} /\ c \notin Tasks
    BY <1>1 DEF ServerInv, ServerTypes, ConnTypeOK, Tasks, Live
  <2>2. Cardinality(Tasks') = Cardinality(Tasks) + 1
    BY <2>1, TasksFinite, FS_AddElement
  <2> QED  BY <2>2 DEF ServerInv, GaugeExact, Tasks, Accept
<1>6. OneOutstanding'
  BY DEF ServerInv, Accept, OneOutstanding, InChannel, InHand, InOneshot
<1>7. NoLostAck'
  BY <1>1, ZenonT(30) DEF ServerInv, ServerTypes, ConnTypeOK, Accept, NoLostAck, InChannel, InHand,
              InOneshot, Awaiting
<1> QED  BY <1>2, <1>3, <1>4, <1>5, <1>6, <1>7 DEF ServerInv

(* The accept loop ends; only connections without a task are touched.      *)
LEMMA StopLoopStep ==
    ASSUME ServerInv, StopLoop
    PROVE  ServerInv'
<1>1. ServerTypes'
  BY DEF ServerInv, ServerTypes, TransportTypeOK, ConnTypeOK, ServerTypeOK, StopLoop,
         connVars
<1>2. LinkPhase' /\ CollectRoom' /\ NoneIsFinal'
  BY DEF ServerInv, ServerTypes, TransportTypeOK, StopLoop, connVars, LinkPhase,
         CollectRoom, NoneIsFinal, HoldsSender
<1>3. GaugeExact'  BY GaugeSame DEF ServerInv, StopLoop, connVars
<1>4. OneOutstanding' /\ NoLostAck'
  BY DEF ServerInv, StopLoop, connVars, OneOutstanding, NoLostAck, InChannel, InHand,
         InOneshot, Awaiting
<1> QED  BY <1>1, <1>2, <1>3, <1>4 DEF ServerInv

(* A task ends and its guard counts it out.                                *)
LEMMA TaskEndStep ==
    ASSUME ServerInv, NEW c \in Conns, TaskEnd(c)
    PROVE  ServerInv'
<1>1. active' \in Nat /\ GaugeExact'
  <2>1. Tasks' = Tasks \ {c} /\ c \in Tasks
    BY DEF ServerInv, ServerTypes, ConnTypeOK, Tasks, Live, TaskEnd
  <2>2. /\ IsFiniteSet(Tasks')
        /\ Cardinality(Tasks') = Cardinality(Tasks) - 1
    BY <2>1, TasksFinite, FS_RemoveElement
  <2>3. Cardinality(Tasks') \in Nat  BY <2>2, FS_CardinalityType
  <2> QED  BY <2>2, <2>3 DEF ServerInv, GaugeExact, Tasks, TaskEnd, GaugeAfter
<1>2. ServerTypes'
  BY <1>1 DEF ServerInv, ServerTypes, TransportTypeOK, ConnTypeOK, ServerTypeOK, TaskEnd,
              transportVars, locals, ConnPcs
<1>3. LinkPhase' /\ CollectRoom' /\ NoneIsFinal'
  BY DEF ServerInv, ServerTypes, ConnTypeOK, TaskEnd, transportVars, locals, LinkPhase,
         CollectRoom, NoneIsFinal, HoldsSender
<1>4. OneOutstanding'
  BY DEF ServerInv, TaskEnd, OneOutstanding, InChannel, InHand, InOneshot
<1>5. NoLostAck'
  BY ZenonT(30) DEF ServerInv, ServerTypes, ConnTypeOK, TaskEnd, NoLostAck, InChannel, InHand,
         InOneshot, Awaiting
<1> QED  BY <1>1, <1>2, <1>3, <1>4, <1>5 DEF ServerInv

-----------------------------------------------------------------------------
(* Steps of the application *)

(* Taking the first batch out of the channel takes its connection out.     *)
LEMMA PopQueue ==
    ASSUME ServerInv, queue # <<>>, queue' = Tail(queue)
    PROVE  /\ Head(queue) \in BatchSet /\ Head(queue).conn \in Conns
           /\ queue' \in Seq(BatchSet)
           /\ InChannel(Head(queue).conn)
           /\ \A d \in Conns : InChannel(d)' <=> InChannel(d) /\ d # Head(queue).conn
           /\ \A i, j \in DOMAIN queue' : queue'[i].conn = queue'[j].conn => i = j
<1>1. queue \in Seq(BatchSet)  BY DEF ServerInv, ServerTypes, ConnTypeOK
<1>2. /\ queue' \in Seq(BatchSet) /\ Len(queue') = Len(queue) - 1
      /\ \A i \in 1..(Len(queue) - 1) : queue'[i] = queue[i + 1]
      /\ Head(queue) = queue[1] /\ queue[1] \in BatchSet /\ Len(queue) > 0
      /\ Len(queue) \in Nat
  BY <1>1
<1>3. Head(queue) \in BatchSet /\ Head(queue).conn \in Conns
  BY <1>2 DEF BatchSet
<1>4. InChannel(Head(queue).conn)  BY <1>1, <1>2 DEF InChannel
<1>5. \A i, j \in DOMAIN queue : queue[i].conn = queue[j].conn => i = j
  BY DEF ServerInv, OneOutstanding
<1>6. DOMAIN queue' = 1..(Len(queue) - 1) /\ DOMAIN queue = 1..Len(queue)
  BY <1>1, <1>2
<1>7. \A i, j \in DOMAIN queue' : queue'[i].conn = queue'[j].conn => i = j
  <2>1. ASSUME NEW i \in DOMAIN queue', NEW j \in DOMAIN queue',
               queue'[i].conn = queue'[j].conn
        PROVE  i = j
    <3>1. i + 1 \in DOMAIN queue /\ j + 1 \in DOMAIN queue  BY <1>2, <1>6
    <3>2. queue[i + 1].conn = queue[j + 1].conn  BY <1>2, <1>6, <2>1
    <3>3. i + 1 = j + 1  BY <1>5, <3>1, <3>2
    <3> QED  BY <1>2, <1>6, <3>3
  <2> QED  BY <2>1
<1>8. ASSUME NEW d \in Conns
      PROVE  InChannel(d)' <=> InChannel(d) /\ d # Head(queue).conn
  <2>1. ASSUME InChannel(d)'  PROVE InChannel(d) /\ d # Head(queue).conn
    <3>1. PICK i \in DOMAIN queue' : queue'[i].conn = d  BY <2>1 DEF InChannel
    <3>2. i + 1 \in DOMAIN queue /\ queue[i + 1].conn = d /\ 1 \in DOMAIN queue /\ i + 1 # 1
      BY <1>2, <1>6, <3>1
    <3> QED  BY <1>2, <1>5, <3>2 DEF InChannel
  <2>2. ASSUME InChannel(d), d # Head(queue).conn  PROVE InChannel(d)'
    <3>1. PICK i \in DOMAIN queue : queue[i].conn = d  BY <2>2 DEF InChannel
    <3>2. i - 1 \in DOMAIN queue' /\ queue'[i - 1] = queue[i]
      BY <1>2, <1>6, <2>2, <3>1
    <3> QED  BY <3>1, <3>2 DEF InChannel
  <2> QED  BY <2>1, <2>2
<1> QED  BY <1>2, <1>3, <1>4, <1>7, <1>8

(* Appending to one of several histories keeps their type.                 *)
LEMMA AppendTo ==
    ASSUME NEW S, NEW h \in [Conns -> Seq(S)], NEW c \in Conns, NEW x \in S
    PROVE  [h EXCEPT ![c] = Append(@, x)] \in [Conns -> Seq(S)]
  OBVIOUS

(* recv moves the oldest batch from the channel to the application.        *)
LEMMA RecvStep ==
    ASSUME ServerInv, Recv
    PROVE  ServerInv'
<1> DEFINE b == Head(queue)
<1>1. queue # <<>> /\ queue' = Tail(queue) /\ held' = held \cup {b}
  BY DEF Recv
<1>2. /\ b \in BatchSet /\ b.conn \in Conns /\ b.events \in Seq(Event)
      /\ queue' \in Seq(BatchSet)
      /\ InChannel(b.conn)
      /\ \A d \in Conns : InChannel(d)' <=> InChannel(d) /\ d # b.conn
      /\ \A i, j \in DOMAIN queue' : queue'[i].conn = queue'[j].conn => i = j
  BY <1>1, PopQueue DEF BatchSet
<1>3. got' = [got EXCEPT ![b.conn] = Append(@, b.events)]  BY DEF Recv
<1> HIDE DEF b
<1>4. ServerTypes'
  <2>1. got' \in [Conns -> Seq(Seq(Event))]
    BY <1>2, <1>3, AppendTo DEF ServerInv, ServerTypes, ServerTypeOK
  <2> QED
    BY <1>1, <1>2, <2>1 DEF ServerInv, ServerTypes, TransportTypeOK, ConnTypeOK,
                            ServerTypeOK, Recv, transportVars, locals
<1>5. LinkPhase' /\ CollectRoom' /\ NoneIsFinal'
  BY DEF ServerInv, Recv, transportVars, locals, LinkPhase, CollectRoom, NoneIsFinal,
         HoldsSender
<1>6. GaugeExact'  BY GaugeSame DEF ServerInv, Recv
<1>7. \A d \in Conns : InHand(d)' <=> InHand(d) \/ d = b.conn
  BY <1>1, <1>2 DEF InHand
<1>8. ~InHand(b.conn) /\ ~InOneshot(b.conn)
  BY <1>2 DEF ServerInv, OneOutstanding
<1>9. \A x, y \in held' : x.conn = y.conn => x = y
  BY <1>1, <1>8 DEF ServerInv, OneOutstanding, InHand
<1>10. OneOutstanding'
  BY <1>2, <1>7, <1>8, <1>9 DEF ServerInv, OneOutstanding, InOneshot, Recv
<1>11. NoLostAck'
  BY <1>2, <1>7 DEF ServerInv, NoLostAck, InOneshot, Awaiting, Recv
<1> QED  BY <1>4, <1>5, <1>6, <1>10, <1>11 DEF ServerInv

(* recv returns None when no sender is left.                               *)
LEMMA RecvNoneStep ==
    ASSUME ServerInv, RecvNone
    PROVE  ServerInv'
<1>1. ServerTypes'
  BY DEF ServerInv, ServerTypes, TransportTypeOK, ConnTypeOK, ServerTypeOK, RecvNone,
         transportVars, connVars
<1>2. LinkPhase' /\ CollectRoom' /\ NoneIsFinal'
  BY DEF ServerInv, RecvNone, transportVars, connVars, LinkPhase, CollectRoom,
         NoneIsFinal, HoldsSender
<1>3. GaugeExact'  BY GaugeSame DEF ServerInv, RecvNone, connVars
<1>4. OneOutstanding' /\ NoLostAck'
  BY DEF ServerInv, RecvNone, connVars, OneOutstanding, NoLostAck, InChannel, InHand,
         InOneshot, Awaiting
<1> QED  BY <1>1, <1>2, <1>3, <1>4 DEF ServerInv

(* A batch of connection d that leaves the channel or the application's    *)
(* hands for good fills the oneshot of the task that waits for it, and no  *)
(* other.                                                                  *)
LEMMA AckedOnce ==
    ASSUME ServerInv, NEW b \in BatchSet, InChannel(b.conn) \/ InHand(b.conn),
           ack_rx' = Acked(ack_rx, b)
    PROVE  /\ ack_rx' \in [Conns -> Seq(Nat)]
           /\ \A d \in Conns : Len(ack_rx'[d]) <= 1
           /\ \A d \in Conns : InOneshot(d)' <=> InOneshot(d) \/ (d = b.conn /\ Awaiting(d))
<1>1. b.conn \in Conns /\ b.last_seq \in Nat  BY DEF BatchSet
<1>2. ack_rx \in [Conns -> Seq(Nat)] /\ \A d \in Conns : Len(ack_rx[d]) <= 1
  BY DEF ServerInv, ServerTypes, ConnTypeOK, OneOutstanding
<1>3. ack_rx[b.conn] = <<>>
  BY <1>1 DEF ServerInv, OneOutstanding, InOneshot
<1>4. CASE Awaiting(b.conn)
  <2>1. ack_rx' = [ack_rx EXCEPT ![b.conn] = <<b.last_seq>>]
    BY <1>3, <1>4, <1>1, <1>2 DEF Acked
  <2> QED  BY <1>1, <1>2, <1>4, <2>1 DEF InOneshot
<1>5. CASE ~Awaiting(b.conn)
  BY <1>1, <1>2, <1>5 DEF Acked, InOneshot
<1> QED  BY <1>4, <1>5

(* The application acks or drops a batch it holds.                         *)
LEMMA ResolveStep ==
    ASSUME ServerInv, NEW b \in held, Resolve(b)
    PROVE  ServerInv'
<1>1. b \in BatchSet /\ b.conn \in Conns /\ InHand(b.conn)
  BY DEF ServerInv, ServerTypes, ServerTypeOK, BatchSet, InHand
<1>2. /\ ack_rx' \in [Conns -> Seq(Nat)]
      /\ \A d \in Conns : Len(ack_rx'[d]) <= 1
      /\ \A d \in Conns : InOneshot(d)' <=> InOneshot(d) \/ (d = b.conn /\ Awaiting(d))
  BY <1>1, AckedOnce DEF Resolve
<1>3. ServerTypes'
  BY <1>2 DEF ServerInv, ServerTypes, TransportTypeOK, ConnTypeOK, ServerTypeOK, Resolve,
              transportVars, locals
<1>4. LinkPhase' /\ CollectRoom' /\ NoneIsFinal'
  BY DEF ServerInv, Resolve, transportVars, locals, LinkPhase, CollectRoom, NoneIsFinal,
         HoldsSender
<1>5. GaugeExact'  BY GaugeSame DEF ServerInv, Resolve
<1>6. \A d \in Conns : InHand(d)' <=> InHand(d) /\ d # b.conn
  BY <1>1 DEF ServerInv, OneOutstanding, InHand, Resolve
<1>7. \A d \in Conns : InChannel(d)' <=> InChannel(d)
  BY DEF InChannel, Resolve
<1>8. OneOutstanding'
  BY <1>1, <1>2, <1>6, <1>7 DEF ServerInv, OneOutstanding, Resolve
<1>9. NoLostAck'
  BY <1>1, <1>2, <1>6, <1>7 DEF ServerInv, NoLostAck, Awaiting, Resolve
<1> QED  BY <1>3, <1>4, <1>5, <1>8, <1>9 DEF ServerInv

(* The receiver drops a batch that is still in the channel.                *)
LEMMA DropQueuedStep ==
    ASSUME ServerInv, DropQueued
    PROVE  ServerInv'
<1> DEFINE b == Head(queue)
<1>1. /\ queue # <<>> /\ queue' = Tail(queue) /\ ack_rx' = Acked(ack_rx, b)
      /\ lost' = [lost EXCEPT ![b.conn] = Append(@, b.events)]
  BY DEF DropQueued
<1>2. /\ b \in BatchSet /\ b.conn \in Conns /\ b.events \in Seq(Event)
      /\ queue' \in Seq(BatchSet)
      /\ InChannel(b.conn)
      /\ \A d \in Conns : InChannel(d)' <=> InChannel(d) /\ d # b.conn
      /\ \A i, j \in DOMAIN queue' : queue'[i].conn = queue'[j].conn => i = j
  BY <1>1, PopQueue DEF BatchSet
<1> HIDE DEF b
<1>3. /\ ack_rx' \in [Conns -> Seq(Nat)]
      /\ \A d \in Conns : Len(ack_rx'[d]) <= 1
      /\ \A d \in Conns : InOneshot(d)' <=> InOneshot(d) \/ (d = b.conn /\ Awaiting(d))
  BY <1>1, <1>2, AckedOnce
<1>4. ServerTypes'
  <2>1. lost' \in [Conns -> Seq(Seq(Event))]
    BY <1>1, <1>2, AppendTo DEF ServerInv, ServerTypes, ServerTypeOK
  <2> QED
    BY <1>2, <1>3, <2>1 DEF ServerInv, ServerTypes, TransportTypeOK, ConnTypeOK,
                            ServerTypeOK, DropQueued, transportVars, locals
<1>5. LinkPhase' /\ CollectRoom' /\ NoneIsFinal'
  BY DEF ServerInv, DropQueued, transportVars, locals, LinkPhase, CollectRoom,
         NoneIsFinal, HoldsSender
<1>6. GaugeExact'  BY GaugeSame DEF ServerInv, DropQueued
<1>7. \A d \in Conns : InHand(d)' <=> InHand(d)
  BY DEF InHand, DropQueued
<1>8. ~InHand(b.conn) /\ ~InOneshot(b.conn)
  BY <1>2 DEF ServerInv, OneOutstanding
<1>9. OneOutstanding'
  BY <1>2, <1>3, <1>7, <1>8 DEF ServerInv, OneOutstanding, DropQueued
<1>10. NoLostAck'
  BY <1>2, <1>3, <1>7 DEF ServerInv, NoLostAck, Awaiting, DropQueued
<1> QED  BY <1>4, <1>5, <1>6, <1>9, <1>10 DEF ServerInv

(* The two stages of dropping the Server.                                  *)
LEMMA ShutdownStep ==
    ASSUME ServerInv, Shutdown \/ CloseReceiver
    PROVE  ServerInv'
<1>1. ServerTypes'
  BY DEF ServerInv, ServerTypes, TransportTypeOK, ConnTypeOK, ServerTypeOK, Shutdown,
         CloseReceiver, transportVars, locals, serverVars
<1>2. LinkPhase' /\ CollectRoom' /\ NoneIsFinal'
  BY DEF ServerInv, Shutdown, CloseReceiver, transportVars, locals, serverVars, LinkPhase,
         CollectRoom, NoneIsFinal, HoldsSender
<1>3. GaugeExact'
  BY GaugeSame DEF ServerInv, Shutdown, CloseReceiver, serverVars
<1>4. OneOutstanding' /\ NoLostAck'
  BY DEF ServerInv, Shutdown, CloseReceiver, serverVars, OneOutstanding, NoLostAck,
         InChannel, InHand, InOneshot, Awaiting
<1> QED  BY <1>1, <1>2, <1>3, <1>4 DEF ServerInv

(* Every step of the accept loop, of an ending task and of the application *)
(* preserves the server's invariant.                                       *)
THEOREM ServerPreserves ==
    ASSUME ServerInv, ServerStep
    PROVE  ServerInv'
  BY AcceptStep, StopLoopStep, TaskEndStep, RecvStep, RecvNoneStep, ResolveStep,
     ShutdownStep, DropQueuedStep DEF ServerStep, ShutdownSeen, AcceptFails

-----------------------------------------------------------------------------
(* Initial states, and steps of whoever is at the other end *)

(* The server starts in its invariant.                                     *)
THEOREM ServerStarts ==
    ASSUME TransportInit, ConnInit, ServerInit
    PROVE  ServerInv
<1>1. ServerTypes
  BY DEF TransportInit, ConnInit, ServerInit, ServerTypes, TransportTypeOK, ConnTypeOK,
         ServerTypeOK, Ends, ConnPcs
<1>2. LinkPhase /\ CollectRoom /\ NoneIsFinal /\ OneOutstanding /\ NoLostAck
  BY DEF ConnInit, ServerInit, LinkPhase, CollectRoom, NoneIsFinal, OneOutstanding,
         NoLostAck, InChannel, InHand, InOneshot, Awaiting
<1>3. Tasks = {}  BY DEF ConnInit, Tasks, Live
<1>4. GaugeExact  BY <1>3, FS_EmptySet DEF ServerInit, GaugeExact, Tasks
<1> QED  BY <1>1, <1>2, <1>4 DEF ServerInv

(* A step of the environment that leaves the server's variables alone and  *)
(* does not take a connection back to the time before it was accepted.     *)
THEOREM EnvironmentPreserves ==
    ASSUME ServerInv, UNCHANGED <<connVars, serverVars>>, TransportTypeOK',
           \A d \in Conns : link'[d] \in {"none", "backlog"} => link[d] \in {"none", "backlog"}
    PROVE  ServerInv'
<1>1. ServerTypes' /\ LinkPhase' /\ CollectRoom' /\ NoneIsFinal'
  BY DEF ServerInv, ServerTypes, ConnTypeOK, ServerTypeOK, connVars, serverVars, LinkPhase,
         CollectRoom, NoneIsFinal, HoldsSender
<1>2. GaugeExact'  BY GaugeSame DEF ServerInv, connVars, serverVars
<1>3. OneOutstanding' /\ NoLostAck'
  BY DEF ServerInv, connVars, serverVars, OneOutstanding, NoLostAck, InChannel, InHand,
         InOneshot, Awaiting
<1> QED  BY <1>1, <1>2, <1>3 DEF ServerInv
-----------------------------------------------------------------------------
(* What a batch carries *)

(* The batches of connection c that are in the channel or held.            *)
OutOf(c) == {b \in Range(queue) \cup held : b.conn = c}

(* The handler's last_seq covers what it has collected; from the dispatch  *)
(* on it has collected the window exactly; and while it waits, the batch   *)
(* that is out is the one it sent, and so is the number in the oneshot.    *)
HandlerCovers(c) ==
    /\ last_seq[c] >= Len(events[c])
    /\ spc[c] \in {"dispatch", "await", "keepalive", "ack"} => Len(events[c]) = window[c]
    /\ Awaiting(c) \/ spc[c] = "ack" =>
          /\ OutOf(c) \subseteq {NewBatch(c)}
          /\ InOneshot(c) => Head(ack_rx[c]) = last_seq[c]

BatchesCover == \A b \in Range(queue) \cup held : b.last_seq >= Len(b.events)

Covers == BatchesCover /\ \A c \in Conns : HandlerCovers(c)

(* Sequence numbers that increase from prev on reach prev + i at the i-th  *)
(* frame at least.                                                         *)
LEMMA SeqsGrow ==
    ASSUME NEW fs \in Seq(FrameSet), NEW prev \in Nat, InOrder(fs, prev)
    PROVE  /\ \A i \in DOMAIN fs : fs[i].seq \in Nat /\ fs[i].seq >= prev + i
           /\ PrevSeq(fs, Len(fs) + 1, prev) >= prev + Len(fs)
<1>1. \A i \in DOMAIN fs : fs[i].type = "J" /\ fs[i] \in FrameSet
  BY DEF InOrder, FrameOk
<1>2. \A i \in DOMAIN fs : fs[i].seq \in Nat  BY <1>1, FrameFields
<1>3. \A i \in DOMAIN fs : fs[i].seq > PrevSeq(fs, i, prev)
  BY DEF InOrder, FrameOk, SeqOk
<1>4. DOMAIN fs = 1..Len(fs) /\ Len(fs) \in Nat  OBVIOUS
<1> DEFINE low == {i \in DOMAIN fs : ~(fs[i].seq >= prev + i)}
<1>5. low = {}
  <2>1. SUFFICES ASSUME low # {} PROVE FALSE  OBVIOUS
  <2>2. low \in SUBSET Nat  BY <1>4
  <2>3. PICK m \in low : \A k \in low : m <= k
    <3> HIDE DEF low
    <3> QED  BY <2>1, <2>2, LeastNatural
  <2>4. m \in 1..Len(fs) /\ ~(fs[m].seq >= prev + m) /\ fs[m].seq \in Nat
    BY <1>2, <1>4, <2>3
  <2>5. CASE m = 1
    <3>1. 1 \in DOMAIN fs /\ fs[1].seq \in Nat  BY <1>4, <2>4, <2>5
    <3>2. fs[1].seq > prev  BY <1>3, <3>1 DEF PrevSeq
    <3> QED  BY <2>4, <2>5, <3>1, <3>2
  <2>6. CASE m # 1
    <3>1. m - 1 \in 1..Len(fs) /\ m - 1 \notin low
      <4>1. m - 1 \in 1..Len(fs) /\ ~(m <= m - 1)  BY <2>4, <2>6
      <4> QED  BY <2>3, <4>1
    <3>2. fs[m - 1].seq >= prev + (m - 1) /\ fs[m - 1].seq \in Nat
      BY <1>2, <1>4, <3>1
    <3>3. fs[m].seq > fs[m - 1].seq
      BY <1>3, <1>4, <2>4, <2>6 DEF PrevSeq
    <3> QED  BY <2>4, <3>2, <3>3
  <2> QED  BY <2>5, <2>6
<1>6. \A i \in DOMAIN fs : fs[i].seq >= prev + i  BY <1>5
<1>7. PrevSeq(fs, Len(fs) + 1, prev) >= prev + Len(fs)
  <2>1. CASE Len(fs) = 0  BY <2>1 DEF PrevSeq
  <2>2. CASE Len(fs) # 0
    <3>1. Len(fs) \in DOMAIN fs /\ (Len(fs) + 1) - 1 = Len(fs) /\ Len(fs) + 1 # 1
      BY <1>4, <2>2
    <3> QED  BY <1>6, <3>1 DEF PrevSeq
  <2> QED  BY <2>1, <2>2
<1> QED  BY <1>2, <1>6, <1>7

(* A connection whose handler does not move, and which gets no new batch   *)
(* out, is covered as before.                                              *)
LEMMA StillCovered ==
    ASSUME NEW d \in Conns, HandlerCovers(d),
           spc'[d] = spc[d], window'[d] = window[d], events'[d] = events[d],
           last_seq'[d] = last_seq[d], ack_rx'[d] = ack_rx[d], OutOf(d)' \subseteq OutOf(d)
    PROVE  HandlerCovers(d)'
<1>1. NewBatch(d)' = NewBatch(d)  BY DEF NewBatch
<1> QED  BY <1>1 DEF HandlerCovers, Awaiting, InOneshot

(* A handler that returns has nothing left to cover.                       *)
LEMMA FinishCovers ==
    ASSUME ServerInv, Covers, NEW c \in Conns, NEW r, Finish(c, r), UNCHANGED <<queue, held>>
    PROVE  Covers'
<1>1. \A d \in Conns : OutOf(d)' = OutOf(d)  BY DEF OutOf
<1>2. BatchesCover'  BY DEF Covers, BatchesCover
<1>3. ASSUME NEW d \in Conns, d # c  PROVE HandlerCovers(d)'
  BY <1>1, <1>3, StillCovered
  DEF Covers, Finish, ServerInv, ServerTypes, ConnTypeOK
<1>4. HandlerCovers(c)'
  BY DEF Finish, ServerInv, ServerTypes, ConnTypeOK, HandlerCovers, Awaiting
<1> QED  BY <1>2, <1>3, <1>4 DEF Covers

(* A handler that starts or collects, without a batch out.                 *)
LEMMA ReadCovers ==
    ASSUME ServerInv, Covers, NEW c \in Conns, NEW pc \in Reading, NEW w, NEW e, NEW s,
           spc' = [spc EXCEPT ![c] = pc], window' = [window EXCEPT ![c] = w],
           events' = [events EXCEPT ![c] = e], last_seq' = [last_seq EXCEPT ![c] = s],
           UNCHANGED <<ack_rx, queue, held>>,
           s >= Len(e), pc = "dispatch" => Len(e) = w
    PROVE  Covers'
<1>1. \A d \in Conns : OutOf(d)' = OutOf(d)  BY DEF OutOf
<1>2. BatchesCover'  BY DEF Covers, BatchesCover
<1>3. ASSUME NEW d \in Conns, d # c  PROVE HandlerCovers(d)'
  BY <1>1, <1>3, StillCovered DEF Covers, ServerInv, ServerTypes, ConnTypeOK
<1>4. HandlerCovers(c)'
  BY DEF ServerInv, ServerTypes, ConnTypeOK, HandlerCovers, Awaiting, Reading
<1> QED  BY <1>2, <1>3, <1>4 DEF Covers

(* Collecting: the sequence numbers grow at least as fast as the events,   *)
(* and a compressed frame gives no more events than the window has room    *)
(* for, so that a batch is dispatched with exactly the window.             *)
LEMMA CollectCovers ==
    ASSUME ServerInv, Covers, NEW c \in Conns, Collect(c), UNCHANGED serverVars
    PROVE  Covers'
<1> DEFINE room == window[c] - Len(events[c])
           fs == Contents(NextFrame(c), room)
           evs == events[c] \o [i \in DOMAIN fs |-> fs[i].data]
           pc == IF Complete(window[c], Len(evs)) THEN "dispatch" ELSE "collect"
           seq == PrevSeq(fs, Len(fs) + 1, last_seq[c])
<1>1. c2s[c] \in Seq(FrameSet) /\ c2s[c] # <<>>
  BY DEF ServerInv, ServerTypes, TransportTypeOK, Collect, Readable
<1>2. NextFrame(c) \in FrameSet
  BY <1>1, DecodeType, ConnectionAssumption DEF NextFrame
<1>3. /\ window[c] \in Nat /\ events[c] \in Seq(Event) /\ last_seq[c] \in Nat
      /\ Len(events[c]) < window[c] /\ last_seq[c] >= Len(events[c])
  BY DEF ServerInv, ServerTypes, ConnTypeOK, CollectRoom, Collect, Covers, HandlerCovers
<1>4. room \in Nat /\ room > 0  BY <1>3
<1>5. fs \in Seq(FrameSet) /\ Len(fs) <= room /\ Len(fs) \in Nat
  <2> HIDE DEF room
  <2> QED  BY <1>2, <1>4, ContentsType
<1>6. CASE InOrder(fs, last_seq[c])
  <2>1. /\ spc' = [spc EXCEPT ![c] = pc]
        /\ events' = [events EXCEPT ![c] = evs]
        /\ last_seq' = [last_seq EXCEPT ![c] = seq]
        /\ window' = [window EXCEPT ![c] = window[c]]
        /\ UNCHANGED <<ack_rx, queue, held>>
    BY <1>6 DEF Collect, serverVars, ServerInv, ServerTypes, ConnTypeOK
  <2> HIDE DEF fs
  <2>2. \A i \in DOMAIN fs : fs[i].data \in Event
    BY <1>5, <1>6, FrameFields DEF InOrder, FrameOk
  <2>3. Len(evs) = Len(events[c]) + Len(fs)
    <3> DEFINE data == [i \in DOMAIN fs |-> fs[i].data]
    <3>1. data \in Seq(Event) /\ Len(data) = Len(fs)  BY <1>5, <2>2
    <3> HIDE DEF data
    <3>2. Len(events[c] \o data) = Len(events[c]) + Len(data)
      BY <1>3, <3>1, ConcatProperties
    <3> QED  BY <3>1, <3>2 DEF data
  <2>4. seq >= last_seq[c] + Len(fs)  BY <1>3, <1>5, <1>6, SeqsGrow
  <2>5. seq \in Nat
    <3>1. \A i \in DOMAIN fs : fs[i].seq \in Nat  BY <1>3, <1>5, <1>6, SeqsGrow
    <3> QED  BY <1>3, <1>5, <3>1 DEF PrevSeq
  <2> HIDE DEF evs, seq
  <2>6. seq >= Len(evs)  BY <1>3, <1>5, <2>3, <2>4, <2>5
  <2>7. pc = "dispatch" => Len(evs) = window[c]
    <3>1. Len(events[c]) \in Nat /\ Len(fs) <= window[c] - Len(events[c])
      BY <1>3, <1>5
    <3>2. Len(evs) <= window[c] /\ Len(evs) \in Nat  BY <1>3, <1>5, <2>3, <3>1
    <3>3. pc = "dispatch" => Len(evs) >= window[c]  BY DEF Complete
    <3> QED  BY <1>3, <3>2, <3>3
  <2>8. pc \in Reading  BY DEF Reading
  <2> HIDE DEF pc
  <2> QED  BY <2>1, <2>6, <2>7, <2>8, ReadCovers
<1>7. CASE ~InOrder(fs, last_seq[c])
  BY <1>7, FinishCovers DEF Collect, serverVars
<1> QED  BY <1>6, <1>7

(* Dispatching puts the very batch out that the handler then waits for.    *)
LEMMA DispatchCovers ==
    ASSUME ServerInv, Covers, NEW c \in Conns, Dispatch(c), UNCHANGED serverVars
    PROVE  Covers'
<1>1. /\ NewBatch(c) \in BatchSet /\ NewBatch(c).conn = c
      /\ NewBatch(c).last_seq = last_seq[c] /\ NewBatch(c).events = events[c]
  BY DEF ServerInv, ServerTypes, ConnTypeOK, NewBatch, BatchSet
<1>2. queue \in Seq(BatchSet) /\ queue' = Append(queue, NewBatch(c)) /\ held' = held
  BY DEF ServerInv, ServerTypes, ConnTypeOK, Dispatch, serverVars
<1>3. NewBatch(c)' = NewBatch(c)  BY DEF NewBatch, Dispatch, locals
<1> HIDE DEF NewBatch
<1>4. Range(queue') = Range(queue) \cup {NewBatch(c)}
  BY <1>1, <1>2 DEF Range
<1>5. BatchesCover'
  BY <1>1, <1>2, <1>4 DEF Covers, BatchesCover, HandlerCovers
<1>6. OutOf(c) = {}
  <2>1. ~InChannel(c) /\ ~InHand(c)
    BY DEF ServerInv, NoLostAck, Awaiting, Dispatch
  <2> QED  BY <2>1 DEF OutOf, InChannel, InHand, Range
<1>7. OutOf(c)' \subseteq {NewBatch(c)} /\ \A d \in Conns : d # c => OutOf(d)' = OutOf(d)
  BY <1>1, <1>2, <1>4, <1>6 DEF OutOf
<1>8. ASSUME NEW d \in Conns, d # c  PROVE HandlerCovers(d)'
  BY <1>7, <1>8, StillCovered
  DEF Covers, Dispatch, locals, ServerInv, ServerTypes, ConnTypeOK
<1>9. HandlerCovers(c)'
  <2>1. ack_rx[c] = <<>>
    BY DEF ServerInv, NoLostAck, InOneshot, Awaiting, Dispatch
  <2>2. /\ spc'[c] = "await" /\ ack_rx' = ack_rx
        /\ window' = window /\ events' = events /\ last_seq' = last_seq
    BY DEF Dispatch, locals, ServerInv, ServerTypes, ConnTypeOK
  <2>3. last_seq[c] >= Len(events[c]) /\ Len(events[c]) = window[c]
    BY DEF Covers, HandlerCovers, Dispatch
  <2> QED  BY <1>3, <1>7, <2>1, <2>2, <2>3 DEF HandlerCovers, InOneshot
<1> QED  BY <1>5, <1>8, <1>9 DEF Covers

(* Every step of a handler keeps the batches covered.                      *)
THEOREM HandlerKeepsCovers ==
    ASSUME ServerInv, Covers, NEW c \in Conns, Handler(c), UNCHANGED serverVars
    PROVE  Covers'
<1> USE DEF serverVars
<1>1. CASE \E r : Finish(c, r) /\ UNCHANGED queue
  BY <1>1, FinishCovers
<1>2. CASE Handshake(c)
  <2>1. CASE spc' = [spc EXCEPT ![c] = "window"] /\ UNCHANGED <<locals, ack_rx>>
    <3>1. last_seq[c] >= Len(events[c])  BY DEF Covers, HandlerCovers
    <3>2. /\ window' = [window EXCEPT ![c] = window[c]]
          /\ events' = [events EXCEPT ![c] = events[c]]
          /\ last_seq' = [last_seq EXCEPT ![c] = last_seq[c]]
          /\ UNCHANGED <<ack_rx, queue, held>>
      BY <1>2, <2>1 DEF Handshake, locals, ServerInv, ServerTypes, ConnTypeOK
    <3> QED  BY <2>1, <3>1, <3>2, ReadCovers DEF Reading
  <2> QED  BY <1>1, <1>2, <2>1 DEF Handshake
<1>3. CASE ReadWindow(c)
  <2> DEFINE f == NextFrame(c)
  <2>1. CASE f.type = "W"
    <3> DEFINE pc == IF f.n = 0 THEN "dispatch" ELSE "collect"
    <3>1. /\ spc' = [spc EXCEPT ![c] = pc]
          /\ window' = [window EXCEPT ![c] = f.n]
          /\ events' = [events EXCEPT ![c] = <<>>]
          /\ last_seq' = [last_seq EXCEPT ![c] = 0]
          /\ UNCHANGED <<ack_rx, queue, held>>
      BY <1>3, <2>1 DEF ReadWindow
    <3>2. pc \in Reading /\ (pc = "dispatch" => Len(<<>>) = f.n) /\ 0 >= Len(<<>>)
      BY DEF Reading
    <3> HIDE DEF pc, f
    <3> QED  BY <3>1, <3>2, ReadCovers
  <2> QED  BY <1>1, <1>3, <2>1 DEF ReadWindow
<1>4. CASE ReadEnd(c) \/ DispatchClosed(c) \/ WriteAckFails(c)
  BY <1>1, <1>4 DEF ReadEnd, DispatchClosed, WriteAckFails
<1>5. CASE AckReceived(c) \/ KeepaliveDue(c)
  <2>1. UNCHANGED <<window, events, last_seq, ack_rx, queue, held>>
    BY <1>5 DEF AckReceived, KeepaliveDue, locals
  <2>2. \A d \in Conns : OutOf(d)' = OutOf(d) /\ NewBatch(d)' = NewBatch(d)
    BY <2>1 DEF OutOf, NewBatch
  <2>3. BatchesCover'  BY <2>1 DEF Covers, BatchesCover
  <2>4. ASSUME NEW d \in Conns  PROVE HandlerCovers(d)'
    BY <1>5, <2>1, <2>2 DEF AckReceived, KeepaliveDue, Covers, HandlerCovers, Awaiting,
       InOneshot, ServerInv, ServerTypes, ConnTypeOK
  <2> QED  BY <2>3, <2>4 DEF Covers
<1>6. CASE WriteAck(c) /\ spc[c] = "keepalive"
  <2>1. UNCHANGED <<window, events, last_seq, ack_rx, queue, held>>
    BY <1>6 DEF WriteAck, locals
  <2>2. \A d \in Conns : OutOf(d)' = OutOf(d) /\ NewBatch(d)' = NewBatch(d)
    BY <2>1 DEF OutOf, NewBatch
  <2>3. BatchesCover'  BY <2>1 DEF Covers, BatchesCover
  <2>4. ASSUME NEW d \in Conns  PROVE HandlerCovers(d)'
    BY <1>6, <2>1, <2>2 DEF WriteAck, Covers, HandlerCovers, Awaiting,
       InOneshot, ServerInv, ServerTypes, ConnTypeOK
  <2> QED  BY <2>3, <2>4 DEF Covers
<1>7. CASE WriteAck(c) /\ spc[c] # "keepalive"
  <2>1. /\ spc' = [spc EXCEPT ![c] = "window"]
        /\ window' = [window EXCEPT ![c] = 0]
        /\ events' = [events EXCEPT ![c] = <<>>]
        /\ last_seq' = [last_seq EXCEPT ![c] = 0]
        /\ ack_rx' = [ack_rx EXCEPT ![c] = <<>>]
        /\ UNCHANGED <<queue, held>>
    BY <1>7 DEF WriteAck
  <2>2. \A d \in Conns : OutOf(d)' = OutOf(d)  BY <2>1 DEF OutOf
  <2>3. BatchesCover'  BY <2>1 DEF Covers, BatchesCover
  <2>4. ASSUME NEW d \in Conns, d # c  PROVE HandlerCovers(d)'
    BY <2>1, <2>2, <2>4, StillCovered DEF Covers, ServerInv, ServerTypes, ConnTypeOK
  <2>5. HandlerCovers(c)'
    BY <2>1 DEF HandlerCovers, Awaiting, ServerInv, ServerTypes, ConnTypeOK
  <2> QED  BY <2>3, <2>4, <2>5 DEF Covers
<1> QED  BY <1>2, <1>3, <1>4, <1>5, <1>6, <1>7, CollectCovers, DispatchCovers DEF Handler

(* Batches that leave the channel or the application's hands leave the     *)
(* rest covered, and the number they put into a oneshot is the one the     *)
(* handler waits for.                                                      *)
LEMMA MoveCovers ==
    ASSUME ServerInv, Covers, UNCHANGED <<spc, window, events, last_seq, ack_rx>>,
           Range(queue') \cup held' \subseteq Range(queue) \cup held
    PROVE  Covers'
<1>1. \A d \in Conns : OutOf(d)' \subseteq OutOf(d)  BY DEF OutOf
<1>2. BatchesCover'  BY DEF Covers, BatchesCover
<1> QED  BY <1>1, <1>2, StillCovered DEF Covers

(* Releasing batch b: ack, drop, or the drop of the channel.               *)
LEMMA ReleaseCovers ==
    ASSUME ServerInv, Covers, UNCHANGED <<spc, window, events, last_seq>>,
           NEW b \in Range(queue) \cup held, ack_rx' = Acked(ack_rx, b),
           Range(queue') \cup held' \subseteq Range(queue) \cup held
    PROVE  Covers'
<1>1. b \in BatchSet /\ b.conn \in Conns /\ b.last_seq \in Nat
  <2>1. queue \in Seq(BatchSet) /\ held \in SUBSET BatchSet
    BY DEF ServerInv, ServerTypes, ConnTypeOK, ServerTypeOK
  <2>2. b \in BatchSet  BY <2>1, RangeOfSeq
  <2> QED  BY <2>2 DEF BatchSet
<1>2. \A d \in Conns : OutOf(d)' \subseteq OutOf(d)  BY DEF OutOf
<1>3. BatchesCover'  BY DEF Covers, BatchesCover
<1>4. ASSUME NEW d \in Conns, d # b.conn \/ ~Awaiting(d)  PROVE HandlerCovers(d)'
  <2>1. ack_rx'[d] = ack_rx[d]
    BY <1>1, <1>4 DEF Acked, ServerInv, ServerTypes, ConnTypeOK
  <2> QED  BY <1>2, <2>1, StillCovered DEF Covers
<1>5. ASSUME Awaiting(b.conn)  PROVE HandlerCovers(b.conn)'
  <2> DEFINE d == b.conn
  <2>1. InChannel(d) \/ InHand(d)  BY <1>1 DEF InChannel, InHand, Range
  <2>2. ack_rx[d] = <<>>
    BY <1>1, <2>1 DEF ServerInv, OneOutstanding, InOneshot
  <2>3. b = NewBatch(d)
    BY <1>1, <1>5 DEF Covers, HandlerCovers, OutOf
  <2>4. b.last_seq = last_seq[d]
    <3>1. NewBatch(d).last_seq = last_seq[d]  BY DEF NewBatch
    <3> HIDE DEF NewBatch
    <3> QED  BY <2>3, <3>1
  <2>5. ack_rx'[d] = <<b.last_seq>>
    BY <1>1, <1>5, <2>2 DEF Acked, ServerInv, ServerTypes, ConnTypeOK
  <2>6. NewBatch(d)' = NewBatch(d)  BY DEF NewBatch
  <2>7. Head(ack_rx'[d]) = last_seq'[d]  BY <2>4, <2>5
  <2> HIDE DEF NewBatch, d
  <2>8. HandlerCovers(d)'
    BY <1>1, <1>2, <2>6, <2>7 DEF Covers, HandlerCovers, Awaiting, d
  <2> QED  BY <2>8 DEF d
<1> QED  BY <1>1, <1>3, <1>4, <1>5 DEF Covers

(* Every step of the accept loop and of the application keeps the batches  *)
(* covered.                                                                *)
THEOREM ServerKeepsCovers ==
    ASSUME ServerInv, Covers, ServerStep
    PROVE  Covers'
<1>1. queue \in Seq(BatchSet)  BY DEF ServerInv, ServerTypes, ConnTypeOK
<1>2. queue # <<>> => Head(queue) \in Range(queue) /\ Range(Tail(queue)) \subseteq Range(queue)
  BY <1>1, HeadTailProperties DEF Range
<1>3. ASSUME NEW c \in Conns, Accept(c) \/ TaskEnd(c)  PROVE Covers'
  <2>1. UNCHANGED <<window, events, last_seq, ack_rx, queue, held>>
    BY <1>3 DEF Accept, TaskEnd, locals
  <2>2. \A d \in Conns : OutOf(d)' = OutOf(d)  BY <2>1 DEF OutOf
  <2>3. BatchesCover'  BY <2>1 DEF Covers, BatchesCover
  <2>4. ASSUME NEW d \in Conns, d # c  PROVE HandlerCovers(d)'
    <3>1. spc'[d] = spc[d]
      BY <1>3, <2>4 DEF Accept, TaskEnd, ServerInv, ServerTypes, ConnTypeOK
    <3> QED  BY <2>1, <2>2, <3>1, StillCovered DEF Covers
  <2>5. HandlerCovers(c)'
    <3>1. spc'[c] \in {"handshake", "window", "done"}
      BY <1>3 DEF Accept, TaskEnd, ServerInv, ServerTypes, ConnTypeOK
    <3> QED  BY <2>1, <3>1 DEF Covers, HandlerCovers, Awaiting
  <2> QED  BY <2>3, <2>4, <2>5 DEF Covers
<1>4. CASE ShutdownSeen \/ AcceptFails \/ RecvNone \/ Shutdown \/ CloseReceiver
  BY <1>4, MoveCovers DEF ShutdownSeen, AcceptFails, StopLoop, RecvNone, Shutdown,
     CloseReceiver, connVars, locals, serverVars
<1>5. CASE Recv
  BY <1>2, <1>5, MoveCovers DEF Recv, locals
<1>6. ASSUME NEW b \in held, Resolve(b)  PROVE Covers'
  BY <1>6, ReleaseCovers DEF Resolve, locals
<1>7. CASE DropQueued
  <2> DEFINE b == Head(queue)
  <2>1. /\ b \in Range(queue) \cup held /\ ack_rx' = Acked(ack_rx, b)
        /\ UNCHANGED <<spc, window, events, last_seq>>
        /\ Range(queue') \cup held' \subseteq Range(queue) \cup held
    BY <1>2, <1>7 DEF DropQueued, locals
  <2> HIDE DEF b
  <2> QED  BY <2>1, ReleaseCovers
<1> QED  BY <1>3, <1>4, <1>5, <1>6, <1>7 DEF ServerStep

(* Nothing is collected or out at the start.                               *)
LEMMA CoversStarts ==
    ASSUME ConnInit, ServerInit
    PROVE  Covers
  BY DEF ConnInit, ServerInit, Covers, BatchesCover, HandlerCovers, Awaiting, Range

(* The environment touches no batch.                                       *)
LEMMA EnvironmentKeepsCovers ==
    ASSUME Covers, UNCHANGED <<connVars, serverVars>>
    PROVE  Covers'
  BY DEF connVars, serverVars, Covers, BatchesCover, HandlerCovers, Awaiting, InOneshot,
         OutOf, NewBatch

(* In a state with the invariant, every batch that is out covers its       *)
(* events, a waiting handler has collected exactly the window, and the     *)
(* number that ends the wait covers it.                                    *)
LEMMA CoversMeans ==
    ASSUME Covers
    PROVE  /\ \A b \in Range(queue) \cup held : b.last_seq >= Len(b.events)
           /\ \A c \in Conns : Awaiting(c) \/ spc[c] = "ack" =>
                  /\ Len(events[c]) = window[c]
                  /\ InOneshot(c) => Head(ack_rx[c]) >= window[c]
  BY DEF Covers, BatchesCover, HandlerCovers, Awaiting
=============================================================================
