---------------------------- MODULE ClientProofs ----------------------------
(***************************************************************************)
(* Proofs about the client alone, whoever is at the other end: every step  *)
(* keeps its types and its shape, and never takes a connection back to the *)
(* time before it was accepted.                                            *)
(***************************************************************************)
EXTENDS Client, SequenceTheorems, TLAPS

ClientInv == TransportTypeOK /\ ClientTypeOK /\ ClientShape

(* What a step of a client owes to the rest of the system.                 *)
Sound == /\ ClientInv'
         /\ \A d \in Conns : link'[d] \in {"none", "backlog"} => link[d] \in {"none", "backlog"}

-----------------------------------------------------------------------------
(* The frames of a batch *)

(* A number narrowed to u32 is a number.                                   *)
LEMMA AsU32Type ==
    ASSUME NEW x \in Nat
    PROVE  AsU32(x) \in Nat
  BY U32Assumption DEF AsU32

(* The events of a batch are events.                                       *)
LEMMA EventsType ==
    ASSUME NEW k \in Nat, NEW sizes \in Seq(Nat)
    PROVE  EventsOf(k, sizes) \in Seq(Event)
  BY DEF EventsOf, Event

(* The J frames of a batch are frames that may be compressed together.     *)
LEMMA EncodedType ==
    ASSUME NEW evs \in Seq(Event)
    PROVE  EncodedEvents(evs) \in Seq(InnerFrames)
<1>1. ASSUME NEW i \in 1..Len(evs)
      PROVE  Json(SeqAt(i), evs[i]) \in InnerFrames
  <2>1. SeqAt(i) \in Nat
    <3>1. i - 1 \in Nat  OBVIOUS
    <3>2. AsU32(i - 1) \in Nat  BY <3>1, AsU32Type
    <3>3. AsU32(i - 1) + 1 \in Nat  BY <3>2
    <3> QED  BY <3>3, AsU32Type DEF SeqAt
  <2> QED  BY <2>1 DEF Json, InnerFrames, JsonFrames
<1> HIDE DEF Json
<1> QED  BY <1>1 DEF EncodedEvents

(* What may be inside a compressed frame may be outside one.               *)
LEMMA InnerFramesAreFrames == Seq(InnerFrames) \subseteq Seq(FrameSet)
  BY DEF FrameSet

(* What send feeds for a batch is a non-empty sequence of frames.          *)
LEMMA BatchFramesType ==
    ASSUME NEW c \in Conns, NEW evs \in Seq(Event)
    PROVE  BatchFrames(c, evs) \in Seq(FrameSet) /\ BatchFrames(c, evs) # <<>>
<1> DEFINE body == IF c \in Compressing THEN <<Compressed(EncodedEvents(evs))>>
                                        ELSE EncodedEvents(evs)
           head == <<Window(AsU32(Len(evs)))>>
<1>1. body \in Seq(FrameSet)
  <2>1. Compressed(EncodedEvents(evs)) \in FrameSet
    BY EncodedType DEF Compressed, FrameSet, CompressedFrames
  <2>2. EncodedEvents(evs) \in Seq(FrameSet)
    BY EncodedType, InnerFramesAreFrames
  <2> QED  BY <2>1, <2>2
<1>2. head \in Seq(FrameSet) /\ Len(head) = 1
  <2>1. Window(AsU32(Len(evs))) \in FrameSet
    BY AsU32Type DEF Window, FrameSet, InnerFrames, WindowFrames
  <2> QED  BY <2>1
<1> HIDE DEF head, body
<1>3. head \o body \in Seq(FrameSet) /\ Len(head \o body) = 1 + Len(body)
  BY <1>1, <1>2, ConcatProperties, ZenonT(30)
<1>4. BatchFrames(c, evs) = head \o body  BY DEF BatchFrames, head, body
<1>5. Len(body) \in Nat  BY <1>1
<1> QED  BY <1>3, <1>4, <1>5

(* Numbers below the width of a u32 survive the cast.                      *)
LEMMA AsU32Small ==
    ASSUME NEW x \in Nat, x < U32
    PROVE  AsU32(x) = x
<1>1. ASSUME NEW m \in Nat, NEW y \in Nat, y < m  PROVE y % m = y  BY <1>1, SMT
<1> QED  BY <1>1, U32Assumption DEF AsU32

(* The frames send makes of a batch: the Window with the number of events, *)
(* then the events numbered from 1, one by one or in a compressed frame.   *)
LEMMA FramesOfBatch ==
    ASSUME NEW c \in Conns, NEW evs \in Seq(Event), Len(evs) < U32
    PROVE  /\ BatchFrames(c, evs) \in Seq(FrameSet)
           /\ EncodedEvents(evs) \in Seq(InnerFrames) /\ Len(EncodedEvents(evs)) = Len(evs)
           /\ \A k \in 1..Len(evs) : EncodedEvents(evs)[k] = Json(k, evs[k])
           /\ BatchFrames(c, evs)[1] = Window(Len(evs))
           /\ c \in Compressing => /\ Len(BatchFrames(c, evs)) = 2
                                   /\ BatchFrames(c, evs)[2] = Compressed(EncodedEvents(evs))
           /\ c \notin Compressing =>
                  /\ Len(BatchFrames(c, evs)) = 1 + Len(evs)
                  /\ \A k \in 1..Len(evs) : BatchFrames(c, evs)[1 + k] = Json(k, evs[k])
<1> DEFINE ee == EncodedEvents(evs)
           body == IF c \in Compressing THEN <<Compressed(ee)>> ELSE ee
           win == Window(AsU32(Len(evs)))
<1>1. Len(evs) \in Nat /\ win = Window(Len(evs))
  BY AsU32Small
<1>2. ee \in Seq(InnerFrames)  BY EncodedType
<1>3. Len(ee) = Len(evs) /\ DOMAIN ee = 1..Len(evs)  BY DEF EncodedEvents
<1>4. ASSUME NEW k \in 1..Len(evs)  PROVE ee[k] = Json(k, evs[k])
  <2>1. k - 1 \in Nat /\ k - 1 < U32 /\ (k - 1) + 1 = k /\ k \in Nat /\ k < U32
    BY <1>1, U32Assumption
  <2>2. SeqAt(k) = k  BY <2>1, AsU32Small DEF SeqAt
  <2> QED  BY <2>2 DEF EncodedEvents
<1>5. BatchFrames(c, evs) = <<win>> \o body  BY DEF BatchFrames
<1>6. BatchFrames(c, evs) \in Seq(FrameSet)  BY BatchFramesType
<1>7. body \in Seq(FrameSet)
  <2>1. Compressed(ee) \in FrameSet
    BY <1>2 DEF Compressed, FrameSet, CompressedFrames
  <2>2. ee \in Seq(FrameSet)  BY <1>2, InnerFramesAreFrames
  <2> HIDE DEF ee
  <2> QED  BY <2>1, <2>2
<1>8. win \in FrameSet
  BY <1>1 DEF Window, FrameSet, InnerFrames, WindowFrames
<1> HIDE DEF ee, body, win
<1>9. <<win>> \in Seq(FrameSet) /\ Len(<<win>>) = 1 /\ <<win>>[1] = win  BY <1>8
<1>10. /\ Len(BatchFrames(c, evs)) = 1 + Len(body)
       /\ BatchFrames(c, evs)[1] = win
       /\ \A k \in 1..Len(body) : BatchFrames(c, evs)[1 + k] = body[k]
  <2>1. /\ Len(<<win>> \o body) = 1 + Len(body)
        /\ (<<win>> \o body)[1] = win
        /\ \A k \in 1..Len(body) : (<<win>> \o body)[1 + k] = body[k]
    <3>1. Len(body) \in Nat  BY <1>7
    <3>2. /\ Len(<<win>> \o body) = Len(<<win>>) + Len(body)
          /\ \A i \in 1..(Len(<<win>>) + Len(body)) :
                (<<win>> \o body)[i] = IF i <= Len(<<win>>) THEN <<win>>[i]
                                       ELSE body[i - Len(<<win>>)]
      BY <1>7, <1>9, ConcatProperties
    <3>3. ASSUME NEW k \in 1..Len(body)  PROVE (<<win>> \o body)[1 + k] = body[k]
      <4>1. 1 + k \in 1..(1 + Len(body)) /\ ~(1 + k <= 1) /\ (1 + k) - 1 = k  BY <3>1
      <4> QED  BY <1>9, <3>2, <4>1
    <3>4. (<<win>> \o body)[1] = win  BY <1>9, <3>1, <3>2
    <3> QED  BY <1>9, <3>2, <3>3, <3>4
  <2> QED  BY <1>5, <2>1
<1>11. CASE c \in Compressing
  <2>1. body = <<Compressed(ee)>>  BY <1>11 DEF body
  <2>2. Len(body) = 1 /\ body[1] = Compressed(ee)  BY <2>1
  <2>3. Len(BatchFrames(c, evs)) = 2 /\ BatchFrames(c, evs)[2] = Compressed(ee)
    BY <1>10, <2>2
  <2> QED  BY <1>1, <1>2, <1>3, <1>4, <1>6, <1>10, <1>11, <2>3 DEF ee
<1>12. CASE c \notin Compressing
  <2>1. body = ee  BY <1>12 DEF body
  <2> QED  BY <1>1, <1>2, <1>3, <1>4, <1>6, <1>10, <1>12, <2>1 DEF ee
<1> QED  BY <1>11, <1>12

-----------------------------------------------------------------------------
(* The pieces the actions are made of *)

(* Appending to one client's history keeps the type of all.                *)
LEMMA AppendedTo ==
    ASSUME NEW S, NEW h \in [Conns -> Seq(S)], NEW c \in Conns, NEW x \in S
    PROVE  [h EXCEPT ![c] = Append(@, x)] \in [Conns -> Seq(S)]
  OBVIOUS

(* Emptying one pipe keeps the type of all.                                *)
LEMMA Emptied ==
    ASSUME NEW S, NEW h \in [Conns -> Seq(S)], NEW c \in Conns
    PROVE  [h EXCEPT ![c] = <<>>] \in [Conns -> Seq(S)]
  OBVIOUS

(* Closing one end keeps the type of all.                                  *)
LEMMA EndClosed ==
    ASSUME TransportTypeOK, NEW c \in Conns
    PROVE  [cEnd EXCEPT ![c] = "closed"] \in [Conns -> Ends]
  BY DEF TransportTypeOK, Ends

(* Ok and Err make results.                                                *)
LEMMA ResultTypes ==
    /\ \A n \in Nat : Ok(n) \in Results
    /\ \A e \in Errors : Err(e) \in Results
  BY DEF Ok, Err, Results

(* What a call that returns does to the client's variables.                *)
LEMMA ReturnTypes ==
    ASSUME ClientInv, NEW c \in Conns, NEW r \in Results, Return(c, r)
    PROVE  /\ cpc' = [cpc EXCEPT ![c] = "idle"] /\ cpc' \in [Conns -> ClientPcs]
           /\ tofeed' \in [Conns -> Seq(FrameSet)]
           /\ outcome' \in [Conns -> Seq(Results)]
           /\ \A d \in Conns : d # c => tofeed'[d] = tofeed[d]
<1>1. outcome' \in [Conns -> Seq(Results)]
  BY AppendedTo DEF Return, ClientInv, ClientTypeOK
<1> QED  BY <1>1 DEF Return, ClientInv, ClientTypeOK, ClientPcs

(* A call that returns without touching sent or the transport is sound.    *)
LEMMA ReturnSound ==
    ASSUME ClientInv, NEW c \in Conns, cpc[c] # "new", NEW r \in Results, Return(c, r),
           UNCHANGED <<wbuf, sent, link>>, TransportTypeOK'
    PROVE  Sound
<1>1. ClientTypeOK'
  BY ReturnTypes DEF ClientInv, ClientTypeOK
<1>2. ClientShape'
  BY ReturnTypes DEF ClientInv, ClientTypeOK, ClientShape, InSend
<1> QED  BY <1>1, <1>2 DEF Sound, ClientInv

(* Going on with the next frame of the batch, or failing on it, is sound.  *)
LEMMA FeedOnSound ==
    ASSUME ClientInv, NEW c \in Conns, cpc[c] # "new",
           NEW buf \in Seq(FrameSet), NEW rest \in Seq(FrameSet), FeedOn(c, buf, rest),
           sent' \in [Conns -> Seq(Seq(Event))], sent'[c] # <<>>,
           \A d \in Conns : d # c => sent'[d] = sent[d],
           UNCHANGED transportVars
    PROVE  Sound
<1>1. wbuf' = [wbuf EXCEPT ![c] = buf]  BY DEF FeedOn
<1>2. wbuf' \in [Conns -> Seq(FrameSet)]  BY <1>1 DEF ClientInv, ClientTypeOK
<1>3. TransportTypeOK' /\ link' = link
  BY DEF ClientInv, TransportTypeOK, transportVars
<1>4. CASE Return(c, Err("FrameTooLarge"))
  <2>1. Err("FrameTooLarge") \in Results  BY ResultTypes DEF Errors
  <2>2. ClientTypeOK'
    BY <1>2, <1>4, <2>1, ReturnTypes DEF ClientInv, ClientTypeOK
  <2>3. ClientShape'
    BY <1>3, <1>4, <2>1, ReturnTypes DEF ClientInv, ClientTypeOK, ClientShape, InSend
  <2> QED  BY <1>3, <2>2, <2>3 DEF Sound, ClientInv
<1>5. CASE ~Return(c, Err("FrameTooLarge"))
  <2> DEFINE pc == IF rest = <<>> THEN "flush"
                   ELSE IF Len(buf) >= Boundary THEN "drain" ELSE "feed"
  <2>1. /\ tofeed' = [tofeed EXCEPT ![c] = rest]
        /\ cpc' = [cpc EXCEPT ![c] = pc]
        /\ outcome' = outcome
    BY <1>5 DEF FeedOn
  <2>2. pc \in {"flush", "drain", "feed"} /\ (pc # "flush" => rest # <<>>)  OBVIOUS
  <2> HIDE DEF pc
  <2>3. ClientTypeOK'
    BY <1>2, <2>1, <2>2 DEF ClientInv, ClientTypeOK, ClientPcs
  <2>4. ClientShape'
    BY <1>3, <2>1, <2>2 DEF ClientInv, ClientTypeOK, ClientShape, InSend
  <2> QED  BY <1>3, <2>3, <2>4 DEF Sound, ClientInv
<1> QED  BY <1>4, <1>5
-----------------------------------------------------------------------------
(* One lemma per action *)

(* connect puts the connection into the backlog or fails.                  *)
LEMMA ConnectSound ==
    ASSUME ClientInv, NEW c \in Conns, NEW listening \in BOOLEAN, Connect(c, listening)
    PROVE  Sound
<1>1. link[c] = "none"  BY DEF Connect, ClientInv, ClientShape
<1>2. TransportTypeOK'
  BY DEF Connect, ClientInv, TransportTypeOK, Ends
<1>3. ClientTypeOK'
  BY DEF Connect, ClientInv, ClientTypeOK, ClientPcs
<1>4. ClientShape'
  BY <1>1 DEF Connect, ClientInv, ClientTypeOK, TransportTypeOK, ClientShape, InSend
<1>5. \A d \in Conns : link'[d] \in {"none", "backlog"} => link[d] \in {"none", "backlog"}
  BY <1>1 DEF Connect, ClientInv, TransportTypeOK
<1> QED  BY <1>2, <1>3, <1>4, <1>5 DEF Sound, ClientInv

(* The client's side of the TLS handshake.                                 *)
LEMMA ClientHandshakeSound ==
    ASSUME ClientInv, NEW c \in Conns, ClientHandshake(c)
    PROVE  Sound
<1>1. TransportTypeOK' /\ link' = link
  BY DEF ClientHandshake, ClientInv, TransportTypeOK, Ends
<1>2. ClientTypeOK'
  BY DEF ClientHandshake, ClientInv, ClientTypeOK, ClientPcs
<1>3. ClientShape'
  BY DEF ClientHandshake, ClientInv, ClientTypeOK, ClientShape, InSend
<1> QED  BY <1>1, <1>2, <1>3 DEF Sound, ClientInv

(* The events of a send that is about to begin.                            *)
LEMMA SentTypes ==
    ASSUME ClientInv, NEW c \in Conns, NEW sizes \in Batches,
           sent' = [sent EXCEPT ![c] = Append(@, EventsOf(Len(@) + 1, sizes))]
    PROVE  /\ EventsOf(Len(sent[c]) + 1, sizes) \in Seq(Event)
           /\ sent' \in [Conns -> Seq(Seq(Event))]
           /\ sent'[c] # <<>>
           /\ \A d \in Conns : d # c => sent'[d] = sent[d]
<1>1. sent \in [Conns -> Seq(Seq(Event))] /\ sizes \in Seq(Nat)
  BY ClientAssumption DEF ClientInv, ClientTypeOK
<1>2. EventsOf(Len(sent[c]) + 1, sizes) \in Seq(Event)  BY <1>1, EventsType
<1> DEFINE evs == EventsOf(Len(sent[c]) + 1, sizes)
<1>3. sent' = [sent EXCEPT ![c] = Append(@, evs)]  BY <1>1
<1> HIDE DEF evs
<1>4. evs \in Seq(Event)  BY <1>2 DEF evs
<1>5. sent' \in [Conns -> Seq(Seq(Event))]  BY <1>1, <1>3, <1>4, AppendedTo
<1>6. sent'[c] # <<>>
  <2>1. sent'[c] = Append(sent[c], evs)  BY <1>1, <1>3
  <2>2. PICK s \in Seq(Seq(Event)) : s = sent[c]  BY <1>1
  <2> QED  BY <1>4, <2>1, <2>2, AppendProperties
<1> QED  BY <1>1, <1>2, <1>3, <1>5, <1>6

(* The start of a send.                                                    *)
LEMMA SendSound ==
    ASSUME ClientInv, NEW c \in Conns, NEW sizes \in Batches, Send(c, sizes)
    PROVE  Sound
<1> DEFINE evs == EventsOf(Len(sent[c]) + 1, sizes)
<1>1. cpc[c] = "idle" /\ UNCHANGED transportVars  BY DEF Send, MaySend
<1>2. sent' = [sent EXCEPT ![c] = Append(@, EventsOf(Len(@) + 1, sizes))]
  BY DEF Send, ClientInv, ClientTypeOK
<1>3. /\ evs \in Seq(Event)
      /\ sent' \in [Conns -> Seq(Seq(Event))]
      /\ sent'[c] # <<>>
      /\ \A d \in Conns : d # c => sent'[d] = sent[d]
  BY <1>2, SentTypes
<1>4. CASE sizes = <<>>
  <2>1. Return(c, Ok(0)) /\ wbuf' = wbuf  BY <1>4 DEF Send
  <2>2. Ok(0) \in Results  BY ResultTypes
  <2>3. TransportTypeOK' /\ link' = link
    BY <1>1 DEF ClientInv, TransportTypeOK, transportVars
  <2>4. ClientTypeOK'
    BY <1>3, <2>1, <2>2, ReturnTypes DEF ClientInv, ClientTypeOK
  <2>5. ClientShape'
    BY <1>1, <1>3, <2>1, <2>2, <2>3, ReturnTypes
    DEF ClientInv, ClientTypeOK, ClientShape, InSend
  <2> QED  BY <2>3, <2>4, <2>5 DEF Sound, ClientInv
<1>5. CASE sizes # <<>>
  <2>1. FeedOn(c, wbuf[c], BatchFrames(c, evs))  BY <1>5 DEF Send
  <2> HIDE DEF evs
  <2>2. BatchFrames(c, evs) \in Seq(FrameSet)  BY <1>3, BatchFramesType
  <2>3. wbuf[c] \in Seq(FrameSet)  BY DEF ClientInv, ClientTypeOK
  <2> QED  BY <1>1, <1>3, <2>1, <2>2, <2>3, FeedOnSound
<1> QED  BY <1>4, <1>5

(* A send that fails before anything is fed.                               *)
LEMMA SerializeFailsSound ==
    ASSUME ClientInv, NEW c \in Conns, NEW sizes \in Batches, SerializeFails(c, sizes)
    PROVE  Sound
<1>1. cpc[c] = "idle" /\ UNCHANGED transportVars /\ wbuf' = wbuf
  BY DEF SerializeFails, MaySend
<1>2. /\ sent' \in [Conns -> Seq(Seq(Event))]
      /\ \A d \in Conns : d # c => sent'[d] = sent[d]
  BY SentTypes DEF SerializeFails
<1>3. Return(c, Err("Serialization")) /\ Err("Serialization") \in Results
  BY ResultTypes DEF SerializeFails, Errors
<1>4. TransportTypeOK' /\ link' = link
  BY <1>1 DEF ClientInv, TransportTypeOK, transportVars
<1>5. ClientTypeOK'
  BY <1>1, <1>2, <1>3, ReturnTypes DEF ClientInv, ClientTypeOK
<1>6. ClientShape'
  BY <1>1, <1>2, <1>3, <1>4, ReturnTypes DEF ClientInv, ClientTypeOK, ClientShape, InSend
<1> QED  BY <1>4, <1>5, <1>6 DEF Sound, ClientInv

(* One more frame into the write buffer.                                   *)
LEMMA FeedSound ==
    ASSUME ClientInv, NEW c \in Conns, Feed(c)
    PROVE  Sound
<1>1. /\ cpc[c] = "feed" /\ UNCHANGED <<sent, transportVars>>
      /\ FeedOn(c, Append(wbuf[c], Head(tofeed[c])), Tail(tofeed[c]))
  BY DEF Feed
<1>2. tofeed[c] \in Seq(FrameSet) /\ tofeed[c] # <<>> /\ wbuf[c] \in Seq(FrameSet)
  BY <1>1 DEF ClientInv, ClientTypeOK, ClientShape
<1>3. Head(tofeed[c]) \in FrameSet /\ Tail(tofeed[c]) \in Seq(FrameSet)  BY <1>2
<1>4. Append(wbuf[c], Head(tofeed[c])) \in Seq(FrameSet)  BY <1>2, <1>3
<1>5. sent' \in [Conns -> Seq(Seq(Event))] /\ sent'[c] # <<>>
  BY <1>1 DEF ClientInv, ClientTypeOK, ClientShape, InSend
<1> QED  BY <1>1, <1>3, <1>4, <1>5, FeedOnSound

(* One frame from the write buffer to the socket.                          *)
LEMMA WriteOutSound ==
    ASSUME ClientInv, NEW c \in Conns, WriteOut(c)
    PROVE  Sound
<1>1. wbuf[c] \in Seq(FrameSet) /\ wbuf[c] # <<>>
  BY DEF WriteOut, ClientInv, ClientTypeOK
<1>2. Head(wbuf[c]) \in FrameSet /\ Tail(wbuf[c]) \in Seq(FrameSet)  BY <1>1
<1>3. c2s' \in [Conns -> Seq(FrameSet)]
  <2>1. Append(c2s[c], Head(wbuf[c])) \in Seq(FrameSet)
    BY <1>2 DEF ClientInv, TransportTypeOK
  <2> QED  BY <2>1 DEF WriteOut, Written, ClientInv, TransportTypeOK
<1>4. TransportTypeOK' /\ link' = link
  <2>1. s2c' \in [Conns -> Seq(FrameSet)] /\ cEnd' \in [Conns -> Ends]
    <3>1. \/ cEnd' = [cEnd EXCEPT ![c] = "closed"] /\ s2c' = [s2c EXCEPT ![c] = <<>>]
          \/ cEnd' = cEnd /\ s2c' = s2c
      BY DEF WriteOut
    <3>2. s2c \in [Conns -> Seq(FrameSet)] /\ cEnd \in [Conns -> Ends]
      BY DEF ClientInv, TransportTypeOK
    <3>3. [s2c EXCEPT ![c] = <<>>] \in [Conns -> Seq(FrameSet)]  BY <3>2, Emptied
    <3>4. [cEnd EXCEPT ![c] = "closed"] \in [Conns -> Ends]  BY EndClosed DEF ClientInv
    <3> QED  BY <3>1, <3>2, <3>3, <3>4
  <2> QED  BY <1>3, <2>1 DEF WriteOut, ClientInv, TransportTypeOK
<1> DEFINE pc == IF Len(wbuf[c]) = 1 THEN WhenWritten(cpc[c]) ELSE cpc[c]
<1>5. cpc' = [cpc EXCEPT ![c] = pc]  BY DEF WriteOut, ClientInv, ClientTypeOK
<1>6. /\ pc \in {"feed", "wait", "closed", "drain", "flush", "closing"}
      /\ pc \in {"feed", "drain"} => cpc[c] = "drain"
      /\ pc \in {"feed", "drain", "flush", "wait"} => cpc[c] \in {"drain", "flush"}
  BY DEF WriteOut, WhenWritten
<1> HIDE DEF pc
<1>7. ClientTypeOK'
  BY <1>2, <1>5, <1>6 DEF WriteOut, ClientInv, ClientTypeOK, ClientPcs
<1>8. ClientShape'
  BY <1>4, <1>5, <1>6 DEF WriteOut, ClientInv, ClientTypeOK, ClientShape, InSend
<1> QED  BY <1>4, <1>7, <1>8 DEF Sound, ClientInv

(* Every way a call can fail with nothing but the result changed.          *)
LEMMA FailureSound ==
    ASSUME ClientInv, NEW c \in Conns,
           WriteError(c) \/ WriteTimeout(c) \/ ReceiveEnd(c) \/ AckTimeout(c) \/ Cancel(c)
    PROVE  Sound
<1>1. PICK e \in {"Io", "WriteTimeout", "ConnectionClosed", "AckTimeout", "Cancelled"} :
        Return(c, Err(e)) /\ cpc[c] \in {"drain", "flush", "wait"}
  BY DEF WriteError, WriteTimeout, WriteTimed, ReceiveEnd, AckTimeout, AckTimed, Cancel
<1>2. UNCHANGED <<wbuf, sent, transportVars>>
  BY DEF WriteError, WriteTimeout, WriteTimed, ReceiveEnd, AckTimeout, AckTimed, Cancel
<1>3. TransportTypeOK' /\ link' = link
  BY <1>2 DEF ClientInv, TransportTypeOK, transportVars
<1>4. Err(e) \in Results  BY <1>1, ResultTypes DEF Errors
<1> HIDE DEF Err
<1> QED  BY <1>1, <1>2, <1>3, <1>4, ReturnSound

(* The ack loop reads a frame.                                             *)
LEMMA ReceiveSound ==
    ASSUME ClientInv, NEW c \in Conns, Receive(c)
    PROVE  Sound
<1> DEFINE f == Head(s2c[c])
           r == CASE f.type = "A" -> Ok(Awaited(c))
                  [] f.type = "X" -> Err(f.err)
                  [] OTHER -> Err("UnexpectedFrame")
<1>1. /\ cpc[c] = "wait" /\ s2c[c] # <<>>
      /\ UNCHANGED <<link, cEnd, sEnd, c2s, wbuf, sent>>
      /\ s2c' = [s2c EXCEPT ![c] = Tail(@)]
  BY DEF Receive, Readable
<1>2. s2c[c] \in Seq(FrameSet)  BY DEF ClientInv, TransportTypeOK
<1>3. f \in FrameSet /\ Tail(s2c[c]) \in Seq(FrameSet)  BY <1>1, <1>2
<1>4. TransportTypeOK'
  BY <1>1, <1>3 DEF ClientInv, TransportTypeOK
<1>5. Awaited(c) \in Nat
  <2>1. sent[c] \in Seq(Seq(Event)) /\ sent[c] # <<>>
    BY <1>1 DEF ClientInv, ClientTypeOK, ClientShape, InSend
  <2>2. Len(sent[c][Len(sent[c])]) \in Nat  BY <2>1
  <2> QED  BY <2>2, AsU32Type DEF Awaited
<1> HIDE DEF f
<1>6. f.type = "X" => f.err \in Errors
  BY <1>3 DEF FrameSet, InnerFrames, WindowFrames, JsonFrames, AckFrames, BadFrames,
              CompressedFrames
<1>7. r \in Results
  BY <1>5, <1>6, ResultTypes DEF Errors
<1>8. Return(c, r) \/ UNCHANGED <<cpc, outcome, tofeed>>
  BY DEF Receive, f
<1>9. CASE Return(c, r)
  <2> HIDE DEF r
  <2> QED  BY <1>1, <1>4, <1>7, <1>9, ReturnSound
<1>10. CASE UNCHANGED <<cpc, outcome, tofeed>>
  BY <1>1, <1>4, <1>10 DEF Sound, ClientInv, ClientTypeOK, ClientShape, InSend
<1> QED  BY <1>8, <1>9, <1>10

(* close, with an empty write buffer or not, and its failure.              *)
LEMMA CloseSound ==
    ASSUME ClientInv, NEW c \in Conns, Close(c) \/ CloseFails(c)
    PROVE  Sound
<1>1. TransportTypeOK' /\ link' = link
  <2>1. s2c' \in [Conns -> Seq(FrameSet)] /\ cEnd' \in [Conns -> Ends]
    <3>1. \/ cEnd' = [cEnd EXCEPT ![c] = "closed"] /\ s2c' = [s2c EXCEPT ![c] = <<>>]
          \/ cEnd' = cEnd /\ s2c' = s2c
      BY DEF Close, CloseFails
    <3>2. s2c \in [Conns -> Seq(FrameSet)] /\ cEnd \in [Conns -> Ends]
      BY DEF ClientInv, TransportTypeOK
    <3>3. [s2c EXCEPT ![c] = <<>>] \in [Conns -> Seq(FrameSet)]  BY <3>2, Emptied
    <3>4. [cEnd EXCEPT ![c] = "closed"] \in [Conns -> Ends]  BY EndClosed DEF ClientInv
    <3> QED  BY <3>1, <3>2, <3>3, <3>4
  <2> QED  BY <2>1 DEF Close, CloseFails, ClientInv, TransportTypeOK
<1>2. ClientTypeOK'
  BY DEF Close, CloseFails, ClientInv, ClientTypeOK, ClientPcs
<1>3. ClientShape'
  BY DEF Close, CloseFails, ClientInv, ClientTypeOK, ClientShape, InSend
<1> QED  BY <1>1, <1>2, <1>3 DEF Sound, ClientInv

(* Dropping the Client or the future of its call.                          *)
LEMMA DropSound ==
    ASSUME ClientInv, NEW c \in Conns, Drop(c)
    PROVE  Sound
<1>1. c2s' \in [Conns -> Seq(FrameSet)]
  <2>1. Bad("Io") \in FrameSet
    BY DEF Bad, FrameSet, InnerFrames, BadFrames, Errors
  <2> HIDE DEF Bad
  <2>2. Append(c2s[c], Bad("Io")) \in Seq(FrameSet)
    BY <2>1 DEF ClientInv, TransportTypeOK
  <2> QED  BY <2>2 DEF Drop, Written, ClientInv, TransportTypeOK
<1>2. TransportTypeOK' /\ link' = link
  <2>1. s2c' \in [Conns -> Seq(FrameSet)] /\ cEnd' \in [Conns -> Ends]
    BY Emptied, EndClosed DEF Drop, ClientInv, TransportTypeOK
  <2> QED  BY <1>1, <2>1 DEF Drop, ClientInv, TransportTypeOK
<1>3. ClientTypeOK'
  BY DEF Drop, ClientInv, ClientTypeOK, ClientPcs
<1>4. ClientShape'
  BY DEF Drop, ClientInv, ClientTypeOK, ClientShape, InSend
<1> QED  BY <1>2, <1>3, <1>4 DEF Sound, ClientInv

(* Every step a client takes once connect was called is sound.             *)
THEOREM ClientStepsSound ==
    ASSUME ClientInv, NEW c \in Conns, ClientRuntime(c) \/ ClientChoice(c)
    PROVE  Sound
  BY ClientHandshakeSound, SendSound, SerializeFailsSound, FeedSound, WriteOutSound,
     FailureSound, ReceiveSound, CloseSound, DropSound DEF ClientRuntime, ClientChoice

(* A failing link takes no connection back either.                         *)
THEOREM LinkResetSound ==
    ASSUME ClientInv, NEW c \in Conns, LinkReset(c), UNCHANGED clientVars
    PROVE  Sound
<1>1. TransportTypeOK'  BY DEF LinkReset, ClientInv, TransportTypeOK
<1>2. ClientTypeOK'  BY DEF ClientInv, ClientTypeOK, clientVars
<1>3. ClientShape' /\ \A d \in Conns : link'[d] \in {"none", "backlog"}
                                          => link[d] \in {"none", "backlog"}
  BY DEF LinkReset, ClientInv, TransportTypeOK, ClientShape, InSend, clientVars
<1> QED  BY <1>1, <1>2, <1>3 DEF Sound, ClientInv
=============================================================================
