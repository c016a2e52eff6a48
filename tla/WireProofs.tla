----------------------------- MODULE WireProofs -----------------------------
(***************************************************************************)
(* The clients and the server together, for every finite set of            *)
(* connections, every batch, every bound and every setting of the          *)
(* builders: first the safety properties of the server's books, then what  *)
(* is on the wire between a client that is not used after an error and its *)
(* handler, at every moment, the inductive invariant behind the promises   *)
(* of `send`.                                                              *)
(***************************************************************************)
EXTENDS Lumberjack, ServerProofs, ClientProofs

(* The inductive invariant: the server's, and the client's types and shape.*)
LumberjackInv == ServerInv /\ ClientTypeOK /\ ClientShape

(* The invariant holds what either side's lemmas ask for.                  *)
LEMMA InvIsClientInv == LumberjackInv => ServerInv /\ ClientInv
  BY DEF LumberjackInv, ServerInv, ServerTypes, ClientInv

(* The books are right before the first connection.                        *)
LEMMA InvStarts ==
    ASSUME Init
    PROVE  LumberjackInv
<1>1. ServerInv  BY ServerStarts DEF Init
<1>2. ClientTypeOK
  BY DEF Init, ClientInit, ClientTypeOK, ClientPcs
<1>3. ClientShape
  BY DEF Init, ClientInit, TransportInit, ClientShape, InSend
<1> QED  BY <1>1, <1>2, <1>3 DEF LumberjackInv

(* A sound step of a client or of its link leaves the server's books right.*)
LEMMA SoundStep ==
    ASSUME LumberjackInv, Sound, UNCHANGED <<connVars, serverVars>>
    PROVE  LumberjackInv'
<1>1. ClientInv' /\ \A d \in Conns : link'[d] \in {"none", "backlog"}
                                         => link[d] \in {"none", "backlog"}
  BY DEF Sound
<1>2. TransportTypeOK' /\ ClientTypeOK' /\ ClientShape'  BY <1>1 DEF ClientInv
<1>3. ServerInv'  BY <1>1, <1>2, InvIsClientInv, EnvironmentPreserves
<1> QED  BY <1>2, <1>3 DEF LumberjackInv

(* The server's steps leave the clients alone, and touch no link that its  *)
(* client has not connected.                                               *)
LEMMA ClientKept ==
    ASSUME LumberjackInv, UNCHANGED clientVars,
           \A d \in Conns : link[d] = "none" => link'[d] = "none"
    PROVE  ClientTypeOK' /\ ClientShape'
  BY DEF LumberjackInv, ClientTypeOK, ClientShape, InSend, clientVars

(* A handler never changes the state of a link.                            *)
LEMMA HandlerKeepsLink ==
    ASSUME NEW c \in Conns, Handler(c)
    PROVE  link' = link
  BY DEF Handler, Handshake, ReadWindow, Collect, ReadEnd, Dispatch, DispatchClosed,
         AckReceived, KeepaliveDue, WriteAck, WriteAckFails, transportVars

(* Accepting and stopping touch no connection that was not made.           *)
LEMMA ServerKeepsUnconnected ==
    ASSUME TransportTypeOK, ServerStep
    PROVE  \A d \in Conns : link[d] = "none" => link'[d] = "none"
<1>1. CASE \E c \in Conns : Accept(c)
  BY <1>1 DEF Accept, InBacklog, TransportTypeOK
<1>2. CASE ShutdownSeen \/ AcceptFails
  BY <1>2 DEF ShutdownSeen, AcceptFails, StopLoop
<1>3. CASE \/ \E c \in Conns : TaskEnd(c)
           \/ Recv \/ RecvNone \/ \E b \in held : Resolve(b)
           \/ Shutdown \/ CloseReceiver \/ DropQueued
  BY <1>3 DEF TaskEnd, Recv, RecvNone, Resolve, Shutdown, CloseReceiver, DropQueued,
              transportVars
<1> QED  BY <1>1, <1>2, <1>3 DEF ServerStep

(* Every step of the system keeps the invariant.                           *)
LEMMA InvKept ==
    ASSUME LumberjackInv, [Next]_vars
    PROVE  LumberjackInv'
<1>1. CASE \E c \in Conns : ClientSide(c)
  <2>1. PICK c \in Conns : ClientSide(c)  BY <1>1
  <2>2. (loop # "stopped") \in BOOLEAN  OBVIOUS
  <2>3. Sound  BY <2>1, <2>2, InvIsClientInv, ConnectSound, ClientStepsSound DEF ClientSide
  <2>4. UNCHANGED <<connVars, serverVars>>  BY <2>1 DEF ClientSide
  <2> QED  BY <2>3, <2>4, SoundStep
<1>2. CASE \E c \in Conns : HandlerSide(c)
  <2>1. PICK c \in Conns : Handler(c) /\ UNCHANGED clientVars /\ UNCHANGED serverVars
    BY <1>2 DEF HandlerSide
  <2>2. ServerInv'  BY <2>1, InvIsClientInv, HandlerPreserves
  <2>3. ClientTypeOK' /\ ClientShape'  BY <2>1, HandlerKeepsLink, ClientKept
  <2> QED  BY <2>2, <2>3 DEF LumberjackInv
<1>3. CASE \E c \in Conns : LinkSide(c)
  <2>1. PICK c \in Conns : LinkReset(c) /\ UNCHANGED clientVars
                                        /\ UNCHANGED <<connVars, serverVars>>
    BY <1>3 DEF LinkSide
  <2> QED  BY <2>1, InvIsClientInv, LinkResetSound, SoundStep
<1>4. CASE ServerSide
  <2>1. ServerStep /\ UNCHANGED clientVars  BY <1>4 DEF ServerSide
  <2>2. ServerInv'  BY <2>1, InvIsClientInv, ServerPreserves
  <2>3. \A d \in Conns : link[d] = "none" => link'[d] = "none"
    BY <2>1, InvIsClientInv, ServerKeepsUnconnected DEF ClientInv
  <2>4. ClientTypeOK' /\ ClientShape'  BY <2>1, <2>3, ClientKept
  <2> QED  BY <2>2, <2>4 DEF LumberjackInv
<1>5. CASE UNCHANGED vars
  <2>1. UNCHANGED <<connVars, serverVars>> /\ UNCHANGED clientVars /\ UNCHANGED transportVars
    BY <1>5 DEF vars
  <2>2. TransportTypeOK' /\ \A d \in Conns : link'[d] = link[d]
    BY <2>1, InvIsClientInv DEF ClientInv, TransportTypeOK, transportVars
  <2>3. ServerInv'  BY <2>1, <2>2, InvIsClientInv, EnvironmentPreserves
  <2>4. ClientTypeOK' /\ ClientShape'  BY <2>1, <2>2, ClientKept
  <2> QED  BY <2>3, <2>4 DEF LumberjackInv
<1> QED  BY <1>1, <1>2, <1>3, <1>4, <1>5 DEF Next, Terminated

(* In every behaviour of the system the invariant always holds.            *)
THEOREM InvHolds == Spec => []LumberjackInv
<1>1. Init => LumberjackInv  BY InvStarts
<1>2. LumberjackInv /\ [Next]_vars => LumberjackInv'  BY InvKept
<1> QED  BY <1>1, <1>2, PTL DEF Spec

-----------------------------------------------------------------------------
(* Every variable keeps its type, whatever clients and links do.           *)
THEOREM TypeCorrect == Spec => []TypeOK
<1>1. LumberjackInv => TypeOK
  BY DEF LumberjackInv, ServerInv, ServerTypes, TypeOK
<1> QED  BY <1>1, InvHolds, PTL

(* A connection never has two batches outstanding, so an acknowledgement   *)
(* that comes back through the oneshot belongs to the one batch.           *)
THEOREM OneBatchOutstanding == Spec => []OneOutstanding
<1>1. LumberjackInv => OneOutstanding  BY DEF LumberjackInv, ServerInv
<1> QED  BY <1>1, InvHolds, PTL

(* A handler that waits for an acknowledgement has a batch somewhere that  *)
(* will bring it: a Batch that is acked, dropped or lost with the Server   *)
(* never leaves its connection hanging.                                    *)
THEOREM AckNeverLost == Spec => []NoLostAck
<1>1. LumberjackInv => NoLostAck  BY DEF LumberjackInv, ServerInv
<1> QED  BY <1>1, InvHolds, PTL

(* active_connections() always counts exactly the live handler tasks.      *)
THEOREM GaugeCountsTasks == Spec => []GaugeExact
<1>1. LumberjackInv => GaugeExact  BY DEF LumberjackInv, ServerInv
<1> QED  BY <1>1, InvHolds, PTL

(* After recv has returned None no batch can arrive any more.              *)
THEOREM NoneStaysNone == Spec => []NoneIsFinal
<1>1. LumberjackInv => NoneIsFinal  BY DEF LumberjackInv, ServerInv
<1> QED  BY <1>1, InvHolds, PTL

-----------------------------------------------------------------------------
(* What is on the wire *)

(* A client the crate makes its promises to: its application gives it up   *)
(* after an error, or there was none yet.                                  *)
Healthy(c) == c \notin Reusing \/ ~Broken(c)

(* The batch of the last call of send, its frames, and did the call        *)
(* succeed.                                                                *)
Current(c)   == sent[c][Len(sent[c])]
Encoded(c)   == BatchFrames(c, Current(c))
Succeeded(c) == Len(outcome[c]) = Len(sent[c]) /\ outcome[c][Len(sent[c])].ok

Held(c) == {b \in held : b.conn = c}

NothingOut(c) == Queued(c) = {} /\ Held(c) = {} /\ ack_rx[c] = <<>>
Drained(c)    == c2s[c] = <<>> /\ wbuf[c] = <<>> /\ tofeed[c] = <<>>

(* No batch of the current call has been handed over; one has, and has     *)
(* left the channel.                                                       *)
AllBefore(d, n) == \A i \in DOMAIN d : SendOf(d[i]) < n

Fresh(c)   == AllBefore(Delivered(c), Len(sent[c]))
Arrived(c) == Current(c) \in Range(got[c]) \cup Range(lost[c])

(* The pipe p, the write buffer w and what is to be fed t are consecutive  *)
(* frames of fs after the first j; a client that is gone may have left the *)
(* beginning of a frame at the end.                                        *)
Aligned(p, w, t, end, fs, j) ==
    /\ \A i \in DOMAIN p : \/ p[i] = fs[j + i]
                           \/ i = Len(p) /\ end = "closed" /\ p[i] = Bad("Io")
    /\ \A i \in DOMAIN w : w[i] = fs[j + Len(p) + i]
    /\ \A i \in DOMAIN t : t[i] = fs[j + Len(p) + Len(w) + i]
    /\ j + Len(p) + Len(w) + Len(t) <= Len(fs)

(* The handler has read j frames of the current batch.                     *)
OnTheWay(c, j) ==
    /\ NothingOut(c) /\ s2c[c] = <<>> /\ Fresh(c)
    /\ IF link[c] = "reset"
       THEN c2s[c] = <<>>
       ELSE /\ Aligned(c2s[c], wbuf[c], tofeed[c], cEnd[c], Encoded(c), j)
            /\ InSend(c) => j + Len(c2s[c]) + Len(wbuf[c]) + Len(tofeed[c])
                                = Len(Encoded(c))

Unread(c) == spc[c] \in {"none", "handshake", "window"} /\ OnTheWay(c, 0)

(* The events collected are the first of the batch.                        *)
Collected(c) ==
    /\ window[c] = Len(Current(c)) /\ last_seq[c] = Len(events[c])
    /\ Len(events[c]) <= Len(Current(c))
    /\ \A i \in DOMAIN events[c] : events[c][i] = Current(c)[i]

Partly(c) ==
    /\ spc[c] = "collect"
    /\ Collected(c)
    /\ c \in Compressing => events[c] = <<>>
    /\ OnTheWay(c, 1 + Len(events[c]))

(* All is written and read, and the client waits, or has given up.         *)
Waits(c) == Drained(c) /\ cpc[c] \in {"wait", "idle", "closed"}

HandedOver(c) ==
    /\ spc[c] \in {"dispatch", "await", "keepalive", "ack"}
    /\ Waits(c) /\ Collected(c) /\ Len(events[c]) = Len(Current(c))
    /\ \A i \in DOMAIN s2c[c] : s2c[c][i] = Ack(0)
    /\ spc[c] = "dispatch" => NothingOut(c) /\ Fresh(c) /\ s2c[c] = <<>>
    /\ Held(c) # {} \/ ack_rx[c] # <<>> => Arrived(c)

Answered(c) ==
    /\ spc[c] = "window"
    /\ Waits(c) /\ NothingOut(c) /\ Arrived(c)
    /\ \A i \in DOMAIN s2c[c] : \/ s2c[c][i] = Ack(0)
                                \/ i = Len(s2c[c]) /\ s2c[c][i] = Ack(Len(Current(c)))

Ended(c) == spc[c] \in {"ending", "done"} /\ c2s[c] = <<>> /\ s2c[c] = <<>>

InTransit(c) ==
    /\ sent[c] # <<>> /\ Current(c) # <<>> /\ ~Succeeded(c)
    /\ cpc[c] \notin {"new", "handshake"}
    /\ cpc[c] \in {"idle", "closing"} => Broken(c)
    /\ Unread(c) \/ Partly(c) \/ HandedOver(c) \/ Answered(c) \/ Ended(c)

AtRest(c) ==
    /\ cpc[c] \in {"new", "handshake", "idle", "closed"}
    /\ Drained(c) /\ s2c[c] = <<>> /\ NothingOut(c)
    /\ spc[c] \in {"none", "handshake", "window", "ending", "done"}

Traffic(c) == InTransit(c) \/ AtRest(c)

-----------------------------------------------------------------------------
(* The calls of one client and their results.                              *)
Numbered(c) ==
    \A k \in DOMAIN sent[c] :
        /\ Len(sent[c][k]) < U32
        /\ \A i \in DOMAIN sent[c][k] : sent[c][k][i].send = k

Calls(c) ==
    /\ Numbered(c)
    /\ Len(outcome[c]) <= Len(sent[c])
    /\ InSend(c) => Len(outcome[c]) + 1 = Len(sent[c])
    /\ cpc[c] \in {"new", "handshake", "idle", "closing"} =>
           Len(outcome[c]) = Len(sent[c])
    /\ cpc[c] \in {"new", "handshake"} => sent[c] = <<>>
    /\ cpc[c] \in {"flush", "closing"} => wbuf[c] # <<>>

(* The ends of one connection and the tasks behind them.                   *)
Streams(c) ==
    /\ spc[c] \in {"ending", "done"} <=> sEnd[c] = "closed"
    /\ cpc[c] = "closed" <=> cEnd[c] = "closed"
    /\ sEnd[c] = "closed" \/ link[c] = "reset" => c2s[c] = <<>>
    /\ cEnd[c] = "closed" \/ link[c] = "reset" \/ spc[c] = "none" => s2c[c] = <<>>

(* The results so far are true; what is out is the current batch; what was *)
(* delivered was sent, in that order and once.                             *)
Answers(c) ==
    \A k \in DOMAIN outcome[c] :
        outcome[c][k].ok /\ sent[c][k] # <<>> =>
            /\ outcome[c][k].n = Len(sent[c][k])
            /\ sent[c][k] \in Range(got[c]) \cup Range(lost[c])

OutIsCurrent(c) ==
    \A b \in Queued(c) \cup Held(c) :
        /\ sent[c] # <<>> /\ Current(c) # <<>> /\ ~Succeeded(c)
        /\ b.events = Current(c)

Ordered(d, s) ==
    /\ \A i \in DOMAIN d : /\ d[i] # <<>> /\ SendOf(d[i]) \in DOMAIN s
                           /\ d[i] = s[SendOf(d[i])]
    /\ \A i, j \in DOMAIN d : i < j => SendOf(d[i]) < SendOf(d[j])

InOrderOnce(c) == Ordered(Delivered(c), sent[c])

History(c) == Answers(c) /\ OutIsCurrent(c) /\ InOrderOnce(c)

ConnOk(c) == Calls(c) /\ Streams(c) /\ (Healthy(c) => Traffic(c) /\ History(c))

(* Batches are lost in the channel only once recv cannot be called.        *)
LostLate == \A c \in Conns : lost[c] # <<>> => rx = "dropped"

WireInv == LumberjackInv /\ Covers /\ LostLate /\ \A c \in Conns : ConnOk(c)

-----------------------------------------------------------------------------
(* Frames in a row *)

(* Feeding moves the first frame that is to be fed behind the buffer.      *)
LEMMA AlignFeed ==
    ASSUME NEW p \in Seq(FrameSet), NEW w \in Seq(FrameSet), NEW t \in Seq(FrameSet),
           NEW fs \in Seq(FrameSet), NEW end, NEW j \in Nat,
           Aligned(p, w, t, end, fs, j), t # <<>>
    PROVE  /\ Aligned(p, Append(w, Head(t)), Tail(t), end, fs, j)
           /\ Len(Append(w, Head(t))) + Len(Tail(t)) = Len(w) + Len(t)
<1> DEFINE w2 == Append(w, Head(t))
           t2 == Tail(t)
<1>1. /\ Len(w2) = Len(w) + 1 /\ w2[Len(w) + 1] = t[1]
      /\ \A i \in 1..Len(w) : w2[i] = w[i]
      /\ DOMAIN w2 = 1..(Len(w) + 1)
  BY AppendProperties, HeadTailProperties
<1>2. /\ Len(t) > 0 /\ Len(t2) = Len(t) - 1 /\ DOMAIN t2 = 1..(Len(t) - 1)
      /\ \A i \in 1..(Len(t) - 1) : t2[i] = t[i + 1]
  BY HeadTailProperties
<1>3. Len(p) \in Nat /\ Len(w) \in Nat /\ Len(t) \in Nat
      /\ DOMAIN w = 1..Len(w) /\ DOMAIN t = 1..Len(t)
  OBVIOUS
<1> HIDE DEF w2, t2
<1>4. ASSUME NEW i \in DOMAIN w2  PROVE w2[i] = fs[j + Len(p) + i]
  <2>1. CASE i \in 1..Len(w)  BY <1>1, <1>3, <2>1 DEF Aligned
  <2>2. CASE i = Len(w) + 1
    <3>1. t[1] = fs[j + Len(p) + Len(w) + 1]  BY <1>2, <1>3 DEF Aligned
    <3>2. j + Len(p) + Len(w) + 1 = j + Len(p) + i  BY <1>3, <2>2
    <3> QED  BY <1>1, <2>2, <3>1, <3>2
  <2> QED  BY <1>1, <1>3, <2>1, <2>2
<1>5. \A i \in DOMAIN t2 : t2[i] = fs[j + Len(p) + Len(w2) + i]
  <2>1. ASSUME NEW i \in DOMAIN t2
        PROVE  t2[i] = fs[j + Len(p) + Len(w2) + i]
    <3>1. i \in 1..(Len(t) - 1) /\ i + 1 \in DOMAIN t  BY <1>2, <1>3
    <3>2. t2[i] = fs[j + Len(p) + Len(w) + (i + 1)]  BY <1>2, <3>1 DEF Aligned
    <3>3. j + Len(p) + Len(w) + (i + 1) = j + Len(p) + Len(w2) + i  BY <1>1, <1>3, <3>1
    <3> QED  BY <3>2, <3>3
  <2> QED  BY <2>1
<1>6. Len(w2) + Len(t2) = Len(w) + Len(t)  BY <1>1, <1>2, <1>3
<1>7. j + Len(p) + Len(w2) + Len(t2) <= Len(fs)  BY <1>1, <1>2, <1>3 DEF Aligned
<1> QED  BY <1>4, <1>5, <1>6, <1>7 DEF Aligned, w2, t2

(* Writing moves the first frame of the buffer behind the pipe.            *)
LEMMA AlignWrite ==
    ASSUME NEW p \in Seq(FrameSet), NEW w \in Seq(FrameSet), NEW t \in Seq(FrameSet),
           NEW fs \in Seq(FrameSet), NEW end, NEW j \in Nat,
           Aligned(p, w, t, "open", fs, j), w # <<>>
    PROVE  /\ Aligned(Append(p, Head(w)), Tail(w), t, end, fs, j)
           /\ Len(Append(p, Head(w))) + Len(Tail(w)) = Len(p) + Len(w)
<1> DEFINE p2 == Append(p, Head(w))
           w2 == Tail(w)
<1>1. /\ Len(p2) = Len(p) + 1 /\ p2[Len(p) + 1] = w[1]
      /\ \A i \in 1..Len(p) : p2[i] = p[i]
      /\ DOMAIN p2 = 1..(Len(p) + 1)
  BY AppendProperties, HeadTailProperties
<1>2. /\ Len(w) > 0 /\ Len(w2) = Len(w) - 1 /\ DOMAIN w2 = 1..(Len(w) - 1)
      /\ \A i \in 1..(Len(w) - 1) : w2[i] = w[i + 1]
  BY HeadTailProperties
<1>3. /\ Len(p) \in Nat /\ Len(w) \in Nat /\ Len(t) \in Nat
      /\ DOMAIN p = 1..Len(p) /\ DOMAIN w = 1..Len(w) /\ DOMAIN t = 1..Len(t)
  OBVIOUS
<1> HIDE DEF p2, w2
<1>4. ASSUME NEW i \in DOMAIN p2  PROVE p2[i] = fs[j + i]
  <2>1. \A x \in 1..Len(p) : p[x] = fs[j + x]  BY <1>3 DEF Aligned
  <2>2. w[1] = fs[j + Len(p) + 1]  BY <1>2, <1>3 DEF Aligned
  <2>3. j + (Len(p) + 1) = j + Len(p) + 1  BY <1>3
  <2>4. CASE i \in 1..Len(p)  BY <1>1, <2>1, <2>4
  <2>5. CASE i = Len(p) + 1  BY <1>1, <2>2, <2>3, <2>5
  <2> QED  BY <1>1, <1>3, <2>4, <2>5
<1>5. ASSUME NEW i \in DOMAIN w2  PROVE w2[i] = fs[j + Len(p2) + i]
  <2>1. i \in 1..(Len(w) - 1) /\ i + 1 \in DOMAIN w  BY <1>2, <1>3
  <2>2. w2[i] = fs[j + Len(p) + (i + 1)]  BY <1>2, <2>1 DEF Aligned
  <2>3. j + Len(p) + (i + 1) = j + Len(p2) + i  BY <1>1, <1>3, <2>1
  <2> QED  BY <2>2, <2>3
<1>6. ASSUME NEW i \in DOMAIN t  PROVE t[i] = fs[j + Len(p2) + Len(w2) + i]
  <2>1. t[i] = fs[j + Len(p) + Len(w) + i]  BY DEF Aligned
  <2>2. j + Len(p2) + Len(w2) + i = j + Len(p) + Len(w) + i  BY <1>1, <1>2, <1>3
  <2> QED  BY <2>1, <2>2
<1>7. Len(p2) + Len(w2) = Len(p) + Len(w)  BY <1>1, <1>2, <1>3
<1>8. j + Len(p2) + Len(w2) + Len(t) <= Len(fs)  BY <1>1, <1>2, <1>3 DEF Aligned
<1> QED  BY <1>4, <1>5, <1>6, <1>7, <1>8 DEF Aligned, p2, w2

(* What was not fed may be forgotten.                                      *)
LEMMA AlignCut ==
    ASSUME NEW p \in Seq(FrameSet), NEW w \in Seq(FrameSet), NEW t \in Seq(FrameSet),
           NEW fs \in Seq(FrameSet), NEW end, NEW j \in Nat, Aligned(p, w, t, end, fs, j)
    PROVE  Aligned(p, w, <<>>, end, fs, j)
<1>1. Len(p) \in Nat /\ Len(w) \in Nat /\ Len(t) \in Nat /\ Len(fs) \in Nat  OBVIOUS
<1>2. j + Len(p) + Len(w) + 0 <= Len(fs)  BY <1>1 DEF Aligned
<1> QED  BY <1>2 DEF Aligned

(* Dropping the client forgets the buffer as well, and may cut a frame.    *)
LEMMA AlignDrop ==
    ASSUME NEW p \in Seq(FrameSet), NEW w \in Seq(FrameSet), NEW t \in Seq(FrameSet),
           NEW fs \in Seq(FrameSet), NEW j \in Nat, Aligned(p, w, t, "open", fs, j)
    PROVE  /\ Aligned(p, <<>>, <<>>, "closed", fs, j)
           /\ w # <<>> => Aligned(Append(p, Bad("Io")), <<>>, <<>>, "closed", fs, j)
<1>1. Len(p) \in Nat /\ Len(w) \in Nat /\ Len(t) \in Nat /\ Len(fs) \in Nat  OBVIOUS
<1>2. Aligned(p, <<>>, <<>>, "closed", fs, j)
  <2>1. j + Len(p) + 0 + 0 <= Len(fs)  BY <1>1 DEF Aligned
  <2> QED  BY <2>1 DEF Aligned
<1>3. ASSUME w # <<>>
      PROVE  Aligned(Append(p, Bad("Io")), <<>>, <<>>, "closed", fs, j)
  <2> DEFINE p2 == Append(p, Bad("Io"))
  <2>1. /\ Len(p2) = Len(p) + 1 /\ p2[Len(p) + 1] = Bad("Io") /\ DOMAIN p2 = 1..(Len(p) + 1)
        /\ \A i \in 1..Len(p) : p2[i] = p[i]
    BY AppendProperties
  <2>2. Len(w) >= 1  BY <1>3
  <2> HIDE DEF p2
  <2>3. j + Len(p2) + 0 + 0 <= Len(fs)  BY <1>1, <2>1, <2>2 DEF Aligned
  <2>4. \A i \in 1..Len(p) : p[i] = fs[j + i]  BY DEF Aligned
  <2>5. ASSUME NEW i \in DOMAIN p2
        PROVE  p2[i] = fs[j + i] \/ (i = Len(p2) /\ p2[i] = Bad("Io"))
    <3>1. CASE i \in 1..Len(p)  BY <2>1, <2>4, <3>1
    <3>2. CASE i = Len(p) + 1  BY <2>1, <3>2
    <3> QED  BY <1>1, <2>1, <3>1, <3>2
  <2>6. Aligned(p2, <<>>, <<>>, "closed", fs, j)  BY <2>3, <2>5 DEF Aligned
  <2> QED  BY <2>6 DEF p2
<1> QED  BY <1>2, <1>3

(* Reading takes the first frame of the pipe, which is the next of the     *)
(* batch or the beginning of a frame.                                      *)
LEMMA AlignRead ==
    ASSUME NEW p \in Seq(FrameSet), NEW w \in Seq(FrameSet), NEW t \in Seq(FrameSet),
           NEW fs \in Seq(FrameSet), NEW end, NEW j \in Nat,
           Aligned(p, w, t, end, fs, j), p # <<>>
    PROVE  /\ Aligned(Tail(p), w, t, end, fs, j + 1)
           /\ Head(p) = fs[j + 1] \/ (end = "closed" /\ Head(p) = Bad("Io"))
           /\ j + 1 <= Len(fs)
           /\ (j + 1) + Len(Tail(p)) = j + Len(p)
<1> DEFINE p2 == Tail(p)
<1>1. /\ Len(p) > 0 /\ Len(p2) = Len(p) - 1 /\ DOMAIN p2 = 1..(Len(p) - 1)
      /\ \A i \in 1..(Len(p) - 1) : p2[i] = p[i + 1]
      /\ Head(p) = p[1]
  BY HeadTailProperties
<1>2. /\ Len(p) \in Nat /\ Len(w) \in Nat /\ Len(t) \in Nat /\ Len(fs) \in Nat
      /\ DOMAIN p = 1..Len(p) /\ DOMAIN w = 1..Len(w) /\ DOMAIN t = 1..Len(t)
  OBVIOUS
<1> HIDE DEF p2
<1>3. ASSUME NEW i \in DOMAIN p2
      PROVE  \/ p2[i] = fs[(j + 1) + i]
             \/ i = Len(p2) /\ end = "closed" /\ p2[i] = Bad("Io")
  <2>1. i \in 1..(Len(p) - 1) /\ i + 1 \in DOMAIN p  BY <1>1, <1>2
  <2>2. \/ p[i + 1] = fs[j + (i + 1)]
        \/ i + 1 = Len(p) /\ end = "closed" /\ p[i + 1] = Bad("Io")
    BY <2>1 DEF Aligned
  <2>3. j + (i + 1) = (j + 1) + i  BY <2>1
  <2>4. i + 1 = Len(p) => i = Len(p2)  BY <1>1, <1>2, <2>1
  <2> QED  BY <1>1, <2>1, <2>2, <2>3, <2>4
<1>4. ASSUME NEW i \in DOMAIN w  PROVE w[i] = fs[(j + 1) + Len(p2) + i]
  <2>1. w[i] = fs[j + Len(p) + i]  BY DEF Aligned
  <2>2. (j + 1) + Len(p2) + i = j + Len(p) + i  BY <1>1, <1>2
  <2> QED  BY <2>1, <2>2
<1>5. ASSUME NEW i \in DOMAIN t  PROVE t[i] = fs[(j + 1) + Len(p2) + Len(w) + i]
  <2>1. t[i] = fs[j + Len(p) + Len(w) + i]  BY DEF Aligned
  <2>2. (j + 1) + Len(p2) + Len(w) + i = j + Len(p) + Len(w) + i  BY <1>1, <1>2
  <2> QED  BY <2>1, <2>2
<1>6. (j + 1) + Len(p2) = j + Len(p)  BY <1>1, <1>2
<1>7. (j + 1) + Len(p2) + Len(w) + Len(t) <= Len(fs) /\ j + 1 <= Len(fs)
  BY <1>1, <1>2 DEF Aligned
<1>8. Head(p) = fs[j + 1] \/ (end = "closed" /\ Head(p) = Bad("Io"))
  <2>1. 1 \in DOMAIN p  BY <1>1, <1>2
  <2> QED  BY <1>1, <2>1 DEF Aligned
<1> QED  BY <1>3, <1>4, <1>5, <1>6, <1>7, <1>8 DEF Aligned, p2

-----------------------------------------------------------------------------
(* The frames of a batch, and what was delivered *)

(* What the types say about one connection.                                *)
LEMMA TypesAt ==
    ASSUME LumberjackInv, NEW c \in Conns
    PROVE  /\ c2s[c] \in Seq(FrameSet) /\ s2c[c] \in Seq(FrameSet)
           /\ wbuf[c] \in Seq(FrameSet) /\ tofeed[c] \in Seq(FrameSet)
           /\ sent[c] \in Seq(Seq(Event)) /\ outcome[c] \in Seq(Results)
           /\ got[c] \in Seq(Seq(Event)) /\ lost[c] \in Seq(Seq(Event))
           /\ events[c] \in Seq(Event) /\ window[c] \in Nat /\ last_seq[c] \in Nat
           /\ ack_rx[c] \in Seq(Nat)
           /\ cEnd[c] \in {"open", "closed"} /\ sEnd[c] \in {"open", "closed"}
           /\ spc[c] \in ConnPcs /\ cpc[c] \in ClientPcs
           /\ link[c] \in {"none", "backlog", "up", "reset"}
  BY DEF LumberjackInv, ServerInv, ServerTypes, TransportTypeOK, ConnTypeOK, ServerTypeOK,
         ClientTypeOK, Ends

(* The current batch and its frames.                                       *)
LEMMA CurrentType ==
    ASSUME LumberjackInv, NEW c \in Conns, Numbered(c), sent[c] # <<>>
    PROVE  /\ Len(sent[c]) \in DOMAIN sent[c] /\ Len(sent[c]) \in Nat
           /\ Current(c) \in Seq(Event) /\ Len(Current(c)) < U32 /\ Len(Current(c)) \in Nat
           /\ Encoded(c) \in Seq(FrameSet) /\ Len(Encoded(c)) \in Nat
<1>1. sent[c] \in Seq(Seq(Event))  BY TypesAt
<1>2. Len(sent[c]) \in DOMAIN sent[c] /\ Len(sent[c]) \in Nat  BY <1>1
<1>3. Current(c) \in Seq(Event) /\ Len(Current(c)) < U32
  BY <1>1, <1>2 DEF Current, Numbered
<1>4. Encoded(c) \in Seq(FrameSet)  BY <1>3, FramesOfBatch DEF Encoded
<1> QED  BY <1>2, <1>3, <1>4

(* The batches of one connection in the channel: at most one.              *)
LEMMA QueuedOnce ==
    ASSUME ServerInv, NEW c \in Conns
    PROVE  /\ queue \in Seq(BatchSet) /\ held \in SUBSET BatchSet
           /\ Queued(c) \in SUBSET BatchSet /\ Held(c) \in SUBSET BatchSet
           /\ \A a, b \in Queued(c) : a = b
           /\ \A a, b \in Held(c) : a = b
           /\ InChannel(c) <=> Queued(c) # {}
           /\ InHand(c) <=> Held(c) # {}
           /\ OutOf(c) = Queued(c) \cup Held(c)
           /\ \A b \in Queued(c) : Queued(c) = {b}
<1>1. queue \in Seq(BatchSet) /\ held \in SUBSET BatchSet
  BY DEF ServerInv, ServerTypes, ConnTypeOK, ServerTypeOK
<1>2. Range(queue) \subseteq BatchSet  BY <1>1, RangeOfSeq
<1>3. \A a, b \in Queued(c) : a = b
  BY DEF Queued, Range, ServerInv, OneOutstanding
<1>4. \A a, b \in Held(c) : a = b
  BY DEF Held, ServerInv, OneOutstanding
<1>5. InChannel(c) <=> Queued(c) # {}  BY DEF InChannel, Queued, Range
<1>6. InHand(c) <=> Held(c) # {}  BY DEF InHand, Held
<1>7. OutOf(c) = Queued(c) \cup Held(c)  BY DEF OutOf, Queued, Held
<1> QED  BY <1>1, <1>2, <1>3, <1>4, <1>5, <1>6, <1>7 DEF Queued, Held

(* What was delivered is a sequence of batches.                            *)
LEMMA DeliveredType ==
    ASSUME LumberjackInv, NEW c \in Conns
    PROVE  Delivered(c) \in Seq(Seq(Event))
<1>1. got[c] \in Seq(Seq(Event)) /\ lost[c] \in Seq(Seq(Event))  BY TypesAt
<1>2. Queued(c) # {} => (CHOOSE b \in Queued(c) : TRUE) \in Queued(c)  OBVIOUS
<1>3. Queued(c) \in SUBSET BatchSet  BY QueuedOnce DEF LumberjackInv
<1>4. Queued(c) # {} => (CHOOSE b \in Queued(c) : TRUE).events \in Seq(Event)
  BY <1>2, <1>3 DEF BatchSet
<1> DEFINE tail == IF Queued(c) = {} THEN <<>> ELSE <<(CHOOSE b \in Queued(c) : TRUE).events>>
<1>5. tail \in Seq(Seq(Event))  BY <1>4
<1> HIDE DEF tail
<1>6. (got[c] \o lost[c]) \o tail \in Seq(Seq(Event))  BY <1>1, <1>5, ConcatProperties
<1> QED  BY <1>6 DEF Delivered, tail

-----------------------------------------------------------------------------
(* What a step leaves alone *)

SameClient(c) ==
    /\ cpc'[c] = cpc[c] /\ wbuf'[c] = wbuf[c] /\ tofeed'[c] = tofeed[c]
    /\ sent'[c] = sent[c] /\ outcome'[c] = outcome[c]

SameLink(c) == link'[c] = link[c] /\ cEnd'[c] = cEnd[c] /\ sEnd'[c] = sEnd[c]

SamePipes(c) == c2s'[c] = c2s[c] /\ s2c'[c] = s2c[c]

SameHandler(c) ==
    /\ spc'[c] = spc[c] /\ window'[c] = window[c] /\ events'[c] = events[c]
    /\ last_seq'[c] = last_seq[c] /\ ack_rx'[c] = ack_rx[c]

SameBooks(c) ==
    /\ got'[c] = got[c] /\ lost'[c] = lost[c]
    /\ Queued(c)' = Queued(c) /\ Held(c)' = Held(c)

(* The calls of a client that takes no step.                               *)
LEMMA SameCalls ==
    ASSUME NEW c \in Conns, SameClient(c)
    PROVE  /\ Calls(c)' <=> Calls(c)
           /\ Healthy(c)' <=> Healthy(c)
           /\ Broken(c)' <=> Broken(c)
           /\ InSend(c)' <=> InSend(c)
           /\ Current(c)' = Current(c)
           /\ Encoded(c)' = Encoded(c)
           /\ Succeeded(c)' <=> Succeeded(c)
           /\ Numbered(c)' <=> Numbered(c)
<1>1. Current(c)' = Current(c)  BY DEF SameClient, Current
<1>2. Encoded(c)' = Encoded(c)  BY <1>1 DEF Encoded
<1>3. (Broken(c)' <=> Broken(c)) /\ (InSend(c)' <=> InSend(c))
  BY DEF SameClient, Broken, InSend
<1>4. Healthy(c)' <=> Healthy(c)  BY <1>3 DEF Healthy
<1>5. Succeeded(c)' <=> Succeeded(c)  BY DEF SameClient, Succeeded
<1>6. Numbered(c)' <=> Numbered(c)  BY DEF SameClient, Numbered
<1>7. Calls(c)' <=> Calls(c)  BY <1>3, <1>6 DEF SameClient, Calls
<1> QED  BY <1>1, <1>2, <1>3, <1>4, <1>5, <1>6, <1>7

(* What was delivered, when no batch moves.                                *)
LEMMA SameDelivered ==
    ASSUME NEW c \in Conns, SameBooks(c)
    PROVE  Delivered(c)' = Delivered(c)
  BY DEF SameBooks, Delivered

(* The history of a connection whose client and batches do not move.       *)
LEMMA SameHistory ==
    ASSUME NEW c \in Conns, SameClient(c), SameBooks(c)
    PROVE  /\ History(c)' <=> History(c)
           /\ Fresh(c)' <=> Fresh(c)
           /\ Arrived(c)' <=> Arrived(c)
<1>1. Delivered(c)' = Delivered(c)  BY SameDelivered
<1>2. sent'[c] = sent[c] /\ outcome'[c] = outcome[c]  BY DEF SameClient
<1>3. /\ got'[c] = got[c] /\ lost'[c] = lost[c]
      /\ Queued(c)' = Queued(c) /\ Held(c)' = Held(c)
  BY DEF SameBooks
<1>4. Current(c)' = Current(c) /\ (Succeeded(c)' <=> Succeeded(c))  BY SameCalls
<1>5. Fresh(c)' <=> Fresh(c)  BY <1>1, <1>2 DEF Fresh
<1>6. Arrived(c)' <=> Arrived(c)  BY <1>3, <1>4 DEF Arrived
<1>7. Answers(c)' <=> Answers(c)  BY <1>2, <1>3 DEF Answers
<1>8. OutIsCurrent(c)' <=> OutIsCurrent(c)  BY <1>2, <1>3, <1>4 DEF OutIsCurrent
<1>9. InOrderOnce(c)' <=> InOrderOnce(c)  BY <1>1, <1>2 DEF InOrderOnce
<1> QED  BY <1>5, <1>6, <1>7, <1>8, <1>9 DEF History

(* A connection none of whose parts moves.                                 *)
LEMMA Untouched ==
    ASSUME NEW c \in Conns, ConnOk(c),
           SameClient(c), SameLink(c), SamePipes(c), SameHandler(c), SameBooks(c)
    PROVE  ConnOk(c)'
<1> USE SameCalls, SameHistory
<1>1. Streams(c)'
  BY DEF ConnOk, Streams, SameClient, SameLink, SamePipes, SameHandler
<1>2. NothingOut(c)' <=> NothingOut(c)  BY DEF NothingOut, SameBooks, SameHandler
<1>3. Drained(c)' <=> Drained(c)  BY DEF Drained, SamePipes, SameClient
<1>4. AtRest(c) => AtRest(c)'
  BY <1>2, <1>3 DEF AtRest, SameClient, SamePipes, SameHandler
<1>5. \A j : OnTheWay(c, j)' <=> OnTheWay(c, j)
  BY <1>2 DEF OnTheWay, Aligned, SameClient, SamePipes, SameLink
<1>6. Collected(c)' <=> Collected(c)  BY DEF Collected, SameHandler
<1>7. Unread(c) => Unread(c)'  BY <1>5 DEF Unread, SameHandler
<1>8. Partly(c) => Partly(c)'  BY <1>5, <1>6 DEF Partly, SameHandler
<1>9. Waits(c)' <=> Waits(c)  BY <1>3 DEF Waits, SameClient
<1>10. HandedOver(c) => HandedOver(c)'
  BY <1>2, <1>6, <1>9 DEF HandedOver, SameHandler, SamePipes, SameBooks
<1>11. Answered(c) => Answered(c)'
  BY <1>2, <1>9 DEF Answered, SameHandler, SamePipes
<1>12. Ended(c) => Ended(c)'  BY DEF Ended, SameHandler, SamePipes
<1>13. InTransit(c) => InTransit(c)'
  BY <1>7, <1>8, <1>10, <1>11, <1>12 DEF InTransit, SameClient
<1> QED  BY <1>1, <1>4, <1>13 DEF ConnOk, Traffic

-----------------------------------------------------------------------------
(* Steps of a handler *)

(* No batch moves.                                                         *)
LEMMA NoBatchMoves ==
    ASSUME UNCHANGED <<queue, held, got, lost>>, NEW c \in Conns
    PROVE  SameBooks(c)
  BY DEF SameBooks, Queued, Held

(* A healthy client's connection is in one of these phases.                *)
LEMMA Phases ==
    ASSUME NEW c \in Conns, ConnOk(c), Healthy(c)
    PROVE  /\ \/ AtRest(c)
              \/ InTransit(c) /\ Unread(c)
              \/ InTransit(c) /\ Partly(c)
              \/ InTransit(c) /\ HandedOver(c)
              \/ InTransit(c) /\ Answered(c)
              \/ InTransit(c) /\ Ended(c)
           /\ History(c)
  BY DEF ConnOk, Traffic, InTransit

(* The handler returns, with no Ack on its way.                            *)
LEMMA FinishOk ==
    ASSUME LumberjackInv, NEW c \in Conns, ConnOk(c), NEW r, Finish(c, r),
           SameClient(c), SameBooks(c),
           link'[c] = link[c], cEnd'[c] = cEnd[c], s2c'[c] = s2c[c],
           Healthy(c) => s2c[c] = <<>>
    PROVE  ConnOk(c)'
<1>1. /\ spc'[c] = "ending" /\ sEnd'[c] = "closed" /\ c2s'[c] = <<>> /\ ack_rx'[c] = <<>>
  BY DEF Finish, LumberjackInv, ServerInv, ServerTypes, TransportTypeOK, ConnTypeOK
<1> USE SameCalls, SameHistory
<1>2. Calls(c)'  BY DEF ConnOk
<1>3. Streams(c)'  BY <1>1 DEF ConnOk, Streams, SameClient
<1>4. ASSUME Healthy(c)  PROVE Traffic(c)'
  <2>1. CASE AtRest(c)
    <3>1. NothingOut(c)'  BY <1>1, <2>1 DEF AtRest, NothingOut, SameBooks
    <3>2. Drained(c)'  BY <1>1, <2>1 DEF AtRest, Drained, SameClient
    <3> QED  BY <1>1, <1>4, <2>1, <3>1, <3>2 DEF Traffic, AtRest, SameClient
  <2>2. CASE InTransit(c)
    <3>1. Ended(c)'  BY <1>1, <1>4 DEF Ended
    <3> QED  BY <2>2, <3>1 DEF Traffic, InTransit, SameClient
  <2> QED  BY <1>4, <2>1, <2>2 DEF ConnOk, Traffic
<1> QED  BY <1>2, <1>3, <1>4 DEF ConnOk

(* While a healthy client's handler reads, or waits for room in the        *)
(* channel, or cannot write, no Ack is on its way.                         *)
LEMMA NoAckOnTheWay ==
    ASSUME NEW c \in Conns, ConnOk(c), Healthy(c),
           \/ spc[c] \in {"handshake", "collect", "dispatch"}
           \/ spc[c] = "window" /\ c2s[c] # <<>>
           \/ link[c] = "reset" \/ cEnd[c] = "closed"
    PROVE  s2c[c] = <<>>
<1>1. CASE link[c] = "reset" \/ cEnd[c] = "closed"  BY <1>1 DEF ConnOk, Streams
<1>2. CASE AtRest(c)  BY <1>2 DEF AtRest
<1>3. CASE Unread(c)  BY <1>3 DEF Unread, OnTheWay
<1>4. CASE Partly(c)  BY <1>4 DEF Partly, OnTheWay
<1>5. CASE HandedOver(c) /\ ~(link[c] = "reset" \/ cEnd[c] = "closed")
  BY <1>5 DEF HandedOver
<1>6. CASE Answered(c) /\ ~(link[c] = "reset" \/ cEnd[c] = "closed")
  BY <1>6 DEF Answered, Waits, Drained
<1>7. CASE Ended(c)  BY <1>7 DEF Ended
<1> QED  BY <1>1, <1>2, <1>3, <1>4, <1>5, <1>6, <1>7, Phases

(* The frames of the current batch, by what they decode to.                *)
LEMMA NextIsNext ==
    ASSUME LumberjackInv, NEW c \in Conns, ConnOk(c), sent[c] # <<>>, NEW j \in Nat,
           OnTheWay(c, j), link[c] # "reset", c2s[c] # <<>>
    PROVE  /\ Aligned(Tail(c2s[c]), wbuf[c], tofeed[c], cEnd[c], Encoded(c), j + 1)
           /\ (j + 1) + Len(Tail(c2s[c])) = j + Len(c2s[c])
           /\ j + 1 <= Len(Encoded(c))
           /\ \/ NextFrame(c) = DecodeWithLimit(Encoded(c)[j + 1], ServerMax)
              \/ cEnd[c] = "closed" /\ NextFrame(c) = Bad("Io")
<1>1. Numbered(c)  BY DEF ConnOk, Calls
<1>2. Encoded(c) \in Seq(FrameSet)  BY <1>1, CurrentType
<1>3. Aligned(c2s[c], wbuf[c], tofeed[c], cEnd[c], Encoded(c), j)  BY DEF OnTheWay
<1>4. c2s[c] \in Seq(FrameSet) /\ wbuf[c] \in Seq(FrameSet) /\ tofeed[c] \in Seq(FrameSet)
  BY TypesAt
<1>5. /\ Aligned(Tail(c2s[c]), wbuf[c], tofeed[c], cEnd[c], Encoded(c), j + 1)
      /\ (j + 1) + Len(Tail(c2s[c])) = j + Len(c2s[c])
      /\ j + 1 <= Len(Encoded(c))
      /\ Head(c2s[c]) = Encoded(c)[j + 1] \/ (cEnd[c] = "closed" /\ Head(c2s[c]) = Bad("Io"))
  <2> DEFINE p == c2s[c]  w == wbuf[c]  t == tofeed[c]  fs == Encoded(c)  end == cEnd[c]
  <2>1. /\ p \in Seq(FrameSet) /\ w \in Seq(FrameSet) /\ t \in Seq(FrameSet)
        /\ fs \in Seq(FrameSet) /\ p # <<>> /\ Aligned(p, w, t, end, fs, j)
    BY <1>2, <1>3, <1>4
  <2> HIDE DEF p, w, t, fs, end
  <2>2. /\ Aligned(Tail(p), w, t, end, fs, j + 1)
        /\ (j + 1) + Len(Tail(p)) = j + Len(p)
        /\ j + 1 <= Len(fs)
        /\ Head(p) = fs[j + 1] \/ (end = "closed" /\ Head(p) = Bad("Io"))
    BY <2>1, AlignRead
  <2> QED  BY <2>2 DEF p, w, t, fs, end
<1>6. DecodeWithLimit(Bad("Io"), ServerMax) = Bad("Io")
  BY DEF DecodeWithLimit, Oversize, Bad
<1> QED  BY <1>5, <1>6 DEF NextFrame

(* The handshake is done.                                                  *)
LEMMA HandshakeOk ==
    ASSUME LumberjackInv, NEW c \in Conns, ConnOk(c), spc[c] = "handshake", spc'[c] = "window",
           SameClient(c), SameBooks(c), SameLink(c), SamePipes(c), ack_rx'[c] = ack_rx[c]
    PROVE  ConnOk(c)'
<1> USE SameCalls, SameHistory
<1>1. Calls(c)'  BY DEF ConnOk
<1>2. Streams(c)'  BY DEF ConnOk, Streams, SameClient, SameLink, SamePipes
<1>3. NothingOut(c)' <=> NothingOut(c)  BY DEF NothingOut, SameBooks
<1>4. CASE ~Healthy(c)  BY <1>1, <1>2, <1>4 DEF ConnOk
<1>5. CASE Healthy(c) /\ AtRest(c)
  <2>1. AtRest(c)'
    BY <1>3, <1>5 DEF AtRest, Drained, SameClient, SamePipes
  <2> QED  BY <1>1, <1>2, <1>5, <2>1 DEF ConnOk, Traffic
<1>6. CASE Healthy(c) /\ InTransit(c) /\ Unread(c)
  <2>1. OnTheWay(c, 0)'
    BY <1>3, <1>6 DEF Unread, OnTheWay, Aligned, SameClient, SamePipes, SameLink
  <2>2. InTransit(c)'  BY <1>6, <2>1 DEF InTransit, Unread, SameClient
  <2> QED  BY <1>1, <1>2, <1>6, <2>2 DEF ConnOk, Traffic
<1> QED  BY <1>4, <1>5, <1>6, Phases DEF Partly, HandedOver, Answered, Ended

(* A step that takes a frame of the pipe leaves the stream in order.       *)
LEMMA ReadStreams ==
    ASSUME NEW c \in Conns, Streams(c), c2s[c] # <<>>,
           spc[c] \notin {"none", "ending", "done"}, spc'[c] \notin {"none", "ending", "done"},
           SameClient(c), SameLink(c), s2c'[c] = s2c[c]
    PROVE  Streams(c)'
  BY DEF Streams, SameClient, SameLink

(* After a frame was read the rest is on the way.                          *)
LEMMA StillOnTheWay ==
    ASSUME LumberjackInv, NEW c \in Conns, NEW j \in Nat, OnTheWay(c, j), link[c] # "reset",
           SameClient(c), SameBooks(c), SameLink(c), ack_rx'[c] = ack_rx[c],
           c2s'[c] = Tail(c2s[c]), s2c'[c] = s2c[c],
           Aligned(Tail(c2s[c]), wbuf[c], tofeed[c], cEnd[c], Encoded(c), j + 1),
           (j + 1) + Len(Tail(c2s[c])) = j + Len(c2s[c])
    PROVE  OnTheWay(c, j + 1)'
<1> USE SameCalls, SameHistory
<1>1. NothingOut(c)' /\ s2c'[c] = <<>> /\ Fresh(c)'
  BY DEF OnTheWay, NothingOut, SameBooks
<1>2. Aligned(c2s[c], wbuf[c], tofeed[c], cEnd[c], Encoded(c), j + 1)'
  <2>1. Aligned(c2s'[c], wbuf'[c], tofeed'[c], cEnd'[c], Encoded(c)', j + 1)
    BY DEF SameClient, SameLink
  <2> QED  BY <2>1
<1>3. InSend(c)' => (j + 1) + Len(c2s'[c]) + Len(wbuf'[c]) + Len(tofeed'[c])
                        = Len(Encoded(c)')
  BY DEF OnTheWay, SameClient
<1> QED  BY <1>1, <1>2, <1>3 DEF OnTheWay, SameLink

(* The Window frame of the batch: the handler expects as many events as    *)
(* the call was given.                                                     *)
LEMMA ReadWindowOk ==
    ASSUME LumberjackInv, NEW c \in Conns, ConnOk(c),
           spc[c] = "window", link[c] # "reset", c2s[c] # <<>>, NextFrame(c).type = "W",
           spc'[c] = IF NextFrame(c).n = 0 THEN "dispatch" ELSE "collect",
           window'[c] = NextFrame(c).n, events'[c] = <<>>, last_seq'[c] = 0,
           ack_rx'[c] = ack_rx[c], c2s'[c] = Tail(c2s[c]), s2c'[c] = s2c[c],
           SameClient(c), SameBooks(c), SameLink(c)
    PROVE  ConnOk(c)'
<1> USE SameCalls, SameHistory
<1>1. Calls(c)'  BY DEF ConnOk
<1>2. Streams(c)'  BY ReadStreams DEF ConnOk
<1>3. CASE ~Healthy(c)  BY <1>1, <1>2, <1>3 DEF ConnOk
<1>4. CASE Healthy(c)
  <2>1. InTransit(c) /\ Unread(c)
    BY <1>4, Phases DEF AtRest, Drained, Partly, HandedOver, Answered, Waits, Ended
  <2>0. PICK j \in Nat : j = 0  OBVIOUS
  <2>2. OnTheWay(c, j) /\ sent[c] # <<>> /\ Current(c) # <<>>
    BY <2>0, <2>1 DEF InTransit, Unread
  <2>3. /\ Aligned(Tail(c2s[c]), wbuf[c], tofeed[c], cEnd[c], Encoded(c), j + 1)
        /\ (j + 1) + Len(Tail(c2s[c])) = j + Len(c2s[c])
        /\ \/ NextFrame(c) = DecodeWithLimit(Encoded(c)[j + 1], ServerMax)
           \/ cEnd[c] = "closed" /\ NextFrame(c) = Bad("Io")
    BY <2>2, NextIsNext
  <2>4. Current(c) \in Seq(Event) /\ Len(Current(c)) < U32 /\ Len(Current(c)) # 0
    BY <2>2, CurrentType DEF ConnOk, Calls
  <2>5. Encoded(c)[j + 1] = Window(Len(Current(c)))
    BY <2>0, <2>4, FramesOfBatch DEF Encoded
  <2>6. NextFrame(c) = Window(Len(Current(c)))
    <3>1. NextFrame(c) # Bad("Io")  BY DEF Bad
    <3>2. DecodeWithLimit(Window(Len(Current(c))), ServerMax) = Window(Len(Current(c)))
      BY DEF DecodeWithLimit, Oversize, Window
    <3> QED  BY <2>3, <2>5, <3>1, <3>2
  <2>7. window'[c] = Len(Current(c)) /\ spc'[c] = "collect"  BY <2>4, <2>6 DEF Window
  <2>8. OnTheWay(c, j + 1)'  BY <2>2, <2>3, StillOnTheWay
  <2>9. Collected(c)'  BY <2>4, <2>7 DEF Collected
  <2>10. Partly(c)'
    <3>1. 1 + Len(events'[c]) = j + 1  BY <2>0
    <3> QED  BY <2>7, <2>8, <2>9, <3>1 DEF Partly
  <2>11. InTransit(c)'  BY <2>1, <2>10 DEF InTransit, SameClient
  <2> QED  BY <1>1, <1>2, <1>4, <2>11 DEF ConnOk, Traffic
<1> QED  BY <1>3, <1>4

(* The frames Collect takes, and the events it has then.                   *)
Taken(c) == Contents(NextFrame(c), window[c] - Len(events[c]))
More(c)  == events[c] \o [i \in DOMAIN Taken(c) |-> Taken(c)[i].data]

(* A handler that collects, with a frame to read.                          *)
CanCollect(c) == Partly(c) /\ InTransit(c) /\ link[c] # "reset" /\ c2s[c] # <<>>

(* The frames the handler takes, in order, are the next events of the      *)
(* batch: one, or from a compressed frame all.                             *)
LEMMA CollectedFrames ==
    ASSUME LumberjackInv, NEW c \in Conns, ConnOk(c), CanCollect(c),
           NEW fs, fs = Taken(c), InOrder(fs, last_seq[c])
    PROVE  /\ fs \in Seq(FrameSet) /\ Len(fs) > 0
           /\ \A i \in 1..Len(fs) : fs[i] = Json(Len(events[c]) + i,
                                                 Current(c)[Len(events[c]) + i])
           /\ c \in Compressing => Len(fs) = Len(Current(c)) /\ Len(events[c]) = 0
           /\ c \notin Compressing => Len(fs) = 1
<1> DEFINE n == Len(events[c])
           j == 1 + n
           cur == Current(c)
<1>0. fs = Contents(NextFrame(c), window[c] - n) /\ link[c] # "reset" /\ c2s[c] # <<>>
  BY DEF Taken, CanCollect
<1>1. sent[c] # <<>> /\ cur # <<>> /\ Collected(c) /\ OnTheWay(c, j)
  BY DEF CanCollect, InTransit, Partly
<1>2. cur \in Seq(Event) /\ Len(cur) < U32 /\ Len(cur) \in Nat /\ Len(cur) # 0
  BY <1>1, CurrentType DEF ConnOk, Calls
<1>3. events[c] \in Seq(Event) /\ n \in Nat /\ j \in Nat  BY TypesAt
<1>4. n < Len(cur) /\ window[c] = Len(cur)
  BY <1>1 DEF LumberjackInv, ServerInv, CollectRoom, CanCollect, Partly, Collected
<1>5. /\ j + 1 <= Len(Encoded(c))
      /\ \/ NextFrame(c) = DecodeWithLimit(Encoded(c)[j + 1], ServerMax)
         \/ NextFrame(c) = Bad("Io")
  <2> HIDE DEF j
  <2> QED  BY <1>0, <1>1, <1>3, NextIsNext
<1> DEFINE room == window[c] - n
<1>6. room \in Nat /\ room > 0 /\ room = Len(cur) - n  BY <1>2, <1>3, <1>4
<1>7. \A e : NextFrame(c) # Bad(e)
  <2>1. ASSUME NEW e, NextFrame(c) = Bad(e)  PROVE FALSE
    <3>1. fs = <<Bad(e)>>  BY <1>0, <2>1 DEF Contents, Bad
    <3>2. 1 \in DOMAIN fs /\ fs[1].type = "X"  BY <3>1 DEF Bad
    <3> QED  BY <3>2 DEF InOrder, FrameOk
  <2> QED  BY <2>1
<1>8. NextFrame(c) = Encoded(c)[j + 1]  BY <1>5, <1>7 DEF DecodeWithLimit
<1>9. CASE c \notin Compressing
  <2>1. Encoded(c)[1 + (n + 1)] = Json(n + 1, cur[n + 1])
    <3>1. n + 1 \in 1..Len(cur)  BY <1>2, <1>3, <1>4
    <3> QED  BY <1>2, <1>9, <3>1, FramesOfBatch DEF Encoded
  <2>2. j + 1 = 1 + (n + 1)  BY <1>3
  <2>3. fs = <<Json(n + 1, cur[n + 1])>>  BY <1>0, <1>8, <2>1, <2>2 DEF Contents, Json
  <2>4. Json(n + 1, cur[n + 1]) \in FrameSet
    <3>1. n + 1 \in 1..Len(cur)  BY <1>2, <1>3, <1>4
    <3> QED  BY <1>2, <1>3, <3>1 DEF Json, FrameSet, InnerFrames, JsonFrames
  <2> DEFINE f == Json(n + 1, cur[n + 1])
  <2>5. fs = <<f>> /\ f \in FrameSet  BY <2>3, <2>4
  <2> HIDE DEF f
  <2>6. fs \in Seq(FrameSet) /\ Len(fs) = 1 /\ fs[1] = f
    <3>1. ASSUME NEW g \in FrameSet
          PROVE  <<g>> \in Seq(FrameSet) /\ Len(<<g>>) = 1 /\ <<g>>[1] = g
      OBVIOUS
    <3>2. <<f>> \in Seq(FrameSet) /\ Len(<<f>>) = 1 /\ <<f>>[1] = f  BY <2>5, <3>1
    <3> QED  BY <2>5, <3>2, Zenon
  <2>7. ASSUME NEW i \in 1..Len(fs)  PROVE fs[i] = Json(n + i, cur[n + i])
    BY <2>6 DEF f
  <2> HIDE DEF n
  <2> QED  BY <1>9, <2>6, <2>7 DEF n
<1>10. CASE c \in Compressing
  <2> DEFINE ee == EncodedEvents(cur)
  <2>1. n = 0 /\ j + 1 = 2 /\ room = Len(cur)  BY <1>2, <1>6, <1>10 DEF CanCollect, Partly
  <2>2. /\ ee \in Seq(InnerFrames) /\ Len(ee) = Len(cur)
        /\ \A k \in 1..Len(cur) : ee[k] = Json(k, cur[k])
        /\ Encoded(c)[2] = Compressed(ee)
    BY <1>2, <1>10, FramesOfBatch DEF Encoded
  <2>3. NextFrame(c) = Compressed(ee)  BY <1>8, <2>1, <2>2
  <2> HIDE DEF ee
  <2>4. fs = [i \in 1..Min({Len(ee), room}) |-> DecodeWithLimit(ee[i], ServerMax)]
    BY <1>0, <2>3 DEF Contents, Compressed
  <2>5. Min({Len(ee), room}) = Len(cur)  BY <1>2, <2>1, <2>2, MinOfTwo
  <2>6. fs = [i \in 1..Len(cur) |-> DecodeWithLimit(ee[i], ServerMax)]  BY <2>4, <2>5
  <2>7. ASSUME NEW i \in 1..Len(cur)  PROVE fs[i] = Json(i, cur[i]) /\ fs[i] \in FrameSet
    <3>1. i \in DOMAIN fs /\ fs[i] = DecodeWithLimit(ee[i], ServerMax)  BY <2>6
    <3>2. fs[i].type = "J"  BY <3>1 DEF InOrder, FrameOk
    <3>3. fs[i] = ee[i]  BY <3>1, <3>2 DEF DecodeWithLimit, Bad
    <3>4. ee[i] = Json(i, cur[i])  BY <2>2
    <3>5. Json(i, cur[i]) \in FrameSet
      BY <1>2 DEF Json, FrameSet, InnerFrames, JsonFrames
    <3> QED  BY <3>3, <3>4, <3>5
  <2>8. fs \in Seq(FrameSet) /\ Len(fs) = Len(cur)
    <3>1. DOMAIN fs = 1..Len(cur) /\ \A i \in 1..Len(cur) : fs[i] \in FrameSet
      BY <2>6, <2>7
    <3>2. fs = [i \in 1..Len(cur) |-> fs[i]]  BY <2>6
    <3> QED  BY <1>2, <3>1, <3>2
  <2>9. ASSUME NEW i \in 1..Len(fs)  PROVE fs[i] = Json(n + i, cur[n + i])
    <3>1. n + i = i  BY <2>1, <2>8
    <3> QED  BY <2>7, <2>8, <3>1
  <2> QED  BY <1>2, <1>10, <2>1, <2>8, <2>9
<1> QED  BY <1>9, <1>10

(* The beginning of a sequence and what comes next in it.                  *)
LEMMA Continued ==
    ASSUME NEW S, NEW a \in Seq(S), NEW b \in Seq(S), NEW cur \in Seq(S),
           \A i \in DOMAIN a : a[i] = cur[i],
           \A i \in DOMAIN b : b[i] = cur[Len(a) + i]
    PROVE  /\ a \o b \in Seq(S) /\ Len(a \o b) = Len(a) + Len(b)
           /\ \A i \in 1..(Len(a) + Len(b)) : (a \o b)[i] = cur[i]
<1>1. /\ a \o b \in Seq(S) /\ Len(a \o b) = Len(a) + Len(b)
      /\ \A i \in 1..(Len(a) + Len(b)) :
            (a \o b)[i] = IF i <= Len(a) THEN a[i] ELSE b[i - Len(a)]
  BY ConcatProperties
<1>2. Len(a) \in Nat /\ Len(b) \in Nat /\ DOMAIN a = 1..Len(a) /\ DOMAIN b = 1..Len(b)
  OBVIOUS
<1>3. ASSUME NEW i \in 1..(Len(a) + Len(b))  PROVE (a \o b)[i] = cur[i]
  <2>1. CASE i <= Len(a)  BY <1>1, <1>2, <2>1
  <2>2. CASE ~(i <= Len(a))
    <3>1. i - Len(a) \in DOMAIN b /\ Len(a) + (i - Len(a)) = i  BY <1>2, <2>2
    <3> QED  BY <1>1, <2>2, <3>1
  <2> QED  BY <2>1, <2>2
<1> QED  BY <1>1, <1>3

(* What frames in a row carry, and the number of the last.                 *)
LEMMA CarriedData ==
    ASSUME NEW n \in Nat, NEW cur \in Seq(Event), NEW fs \in Seq(FrameSet),
           Len(fs) > 0, n + Len(fs) <= Len(cur),
           \A i \in 1..Len(fs) : fs[i] = Json(n + i, cur[n + i])
    PROVE  /\ [i \in DOMAIN fs |-> fs[i].data] \in Seq(Event)
           /\ Len([i \in DOMAIN fs |-> fs[i].data]) = Len(fs)
           /\ \A i \in 1..Len(fs) : [k \in DOMAIN fs |-> fs[k].data][i] = cur[n + i]
           /\ \A p : PrevSeq(fs, Len(fs) + 1, p) = n + Len(fs)
<1>1. Len(fs) \in Nat /\ Len(cur) \in Nat /\ DOMAIN fs = 1..Len(fs)  OBVIOUS
<1>2. ASSUME NEW i \in 1..Len(fs)
      PROVE  fs[i].data = cur[n + i] /\ cur[n + i] \in Event /\ fs[i].seq = n + i
  <2>1. fs[i] = Json(n + i, cur[n + i])  OBVIOUS
  <2>2. n + i \in 1..Len(cur)  BY <1>1
  <2> QED  BY <2>1, <2>2 DEF Json
<1> DEFINE data == [i \in DOMAIN fs |-> fs[i].data]
<1>3. data \in Seq(Event) /\ Len(data) = Len(fs) /\ \A i \in 1..Len(fs) : data[i] = cur[n + i]
  BY <1>1, <1>2
<1>4. ASSUME NEW p  PROVE PrevSeq(fs, Len(fs) + 1, p) = n + Len(fs)
  <2>1. Len(fs) \in 1..Len(fs) /\ (Len(fs) + 1) - 1 = Len(fs) /\ Len(fs) + 1 # 1
    BY <1>1
  <2> QED  BY <1>2, <2>1 DEF PrevSeq
<1> QED  BY <1>3, <1>4

(* The events it has then are again the first of the batch.                *)
LEMMA CollectedMore ==
    ASSUME LumberjackInv, NEW c \in Conns, ConnOk(c), CanCollect(c),
           InOrder(Taken(c), last_seq[c])
    PROVE  /\ More(c) \in Seq(Event) /\ Len(More(c)) <= Len(Current(c))
           /\ \A i \in 1..Len(More(c)) : More(c)[i] = Current(c)[i]
           /\ PrevSeq(Taken(c), Len(Taken(c)) + 1, last_seq[c]) = Len(More(c))
           /\ c \in Compressing => Len(More(c)) = Len(Current(c)) /\ Len(events[c]) = 0
           /\ c \notin Compressing => Len(More(c)) = Len(events[c]) + 1
<1> DEFINE fs == Taken(c)
           n == Len(events[c])
           cur == Current(c)
           data == [i \in DOMAIN fs |-> fs[i].data]
           e == events[c]
<1>1. /\ sent[c] # <<>> /\ window[c] = Len(cur)
      /\ \A i \in DOMAIN e : e[i] = cur[i]
  BY DEF CanCollect, InTransit, Partly, Collected
<1>2. cur \in Seq(Event) /\ Len(cur) < U32 /\ Len(cur) \in Nat
  BY <1>1, CurrentType DEF ConnOk, Calls
<1>3. e \in Seq(Event) /\ n \in Nat /\ n < Len(cur)
  BY <1>1, TypesAt DEF LumberjackInv, ServerInv, CollectRoom, CanCollect, Partly
<1>4. /\ fs \in Seq(FrameSet) /\ Len(fs) > 0
      /\ \A i \in 1..Len(fs) : fs[i] = Json(n + i, cur[n + i])
      /\ c \in Compressing => Len(fs) = Len(cur) /\ n = 0
      /\ c \notin Compressing => Len(fs) = 1
  BY CollectedFrames
<1>5. n + Len(fs) <= Len(cur) /\ Len(fs) \in Nat  BY <1>2, <1>3, <1>4
<1>6. PrevSeq(fs, Len(fs) + 1, last_seq[c]) = n + Len(fs)
  <2> HIDE DEF n, cur, fs
  <2> QED  BY <1>2, <1>3, <1>4, <1>5, CarriedData, ZenonT(30)
<1>7. /\ data \in Seq(Event) /\ Len(data) = Len(fs)
      /\ \A i \in 1..Len(fs) : data[i] = cur[n + i]
  <2> HIDE DEF n, cur, fs
  <2> QED  BY <1>2, <1>3, <1>4, <1>5, CarriedData, ZenonT(30)
<1>8. \A i \in DOMAIN data : data[i] = cur[Len(e) + i]
  <2> HIDE DEF data
  <2> QED  BY <1>7
<1>9. More(c) = e \o data  BY DEF More
<1>10. Len(e) = n  OBVIOUS
<1> HIDE DEF data, e, cur, fs
<1>11. /\ e \o data \in Seq(Event) /\ Len(e \o data) = Len(e) + Len(data)
       /\ \A i \in 1..(Len(e) + Len(data)) : (e \o data)[i] = cur[i]
  <2>1. e \in Seq(Event) /\ data \in Seq(Event) /\ cur \in Seq(Event)  BY <1>2, <1>3, <1>7
  <2>2. \A i \in DOMAIN e : e[i] = cur[i]  BY <1>1
  <2> QED  BY <2>1, <2>2, <1>8, Continued
<1> HIDE DEF n
<1>12. /\ More(c) \in Seq(Event) /\ Len(More(c)) = n + Len(fs)
       /\ \A i \in 1..Len(More(c)) : More(c)[i] = cur[i]
  BY <1>7, <1>9, <1>10, <1>11
<1>13. /\ c \in Compressing => Len(fs) = Len(cur) /\ n = 0
       /\ c \notin Compressing => Len(fs) = 1
  BY <1>4
<1>14. /\ Len(More(c)) <= Len(cur)
       /\ PrevSeq(fs, Len(fs) + 1, last_seq[c]) = Len(More(c))
       /\ c \in Compressing => Len(More(c)) = Len(cur) /\ n = 0
       /\ c \notin Compressing => Len(More(c)) = n + 1
  <2>1. Len(More(c)) = n + Len(fs) /\ n \in Nat /\ Len(fs) \in Nat  BY <1>3, <1>5, <1>12
  <2>2. CASE c \in Compressing  BY <1>5, <1>6, <1>13, <2>1, <2>2
  <2>3. CASE c \notin Compressing  BY <1>5, <1>6, <1>13, <2>1, <2>3
  <2> QED  BY <2>2, <2>3
<1> QED  BY <1>12, <1>14 DEF n, cur, fs

(* What a handler that collects in order does, at its connection.          *)
CollectsAt(c) ==
    /\ spc[c] = "collect" /\ link[c] # "reset" /\ c2s[c] # <<>>
    /\ InOrder(Taken(c), last_seq[c])
    /\ events'[c] = More(c) /\ window'[c] = window[c]
    /\ last_seq'[c] = PrevSeq(Taken(c), Len(Taken(c)) + 1, last_seq[c])
    /\ spc'[c] = (IF Complete(window[c], Len(More(c))) THEN "dispatch" ELSE "collect")
    /\ ack_rx'[c] = ack_rx[c] /\ c2s'[c] = Tail(c2s[c]) /\ s2c'[c] = s2c[c]

(* The next events of the batch; with the last one everything is read.     *)
LEMMA CollectOk ==
    ASSUME LumberjackInv, NEW c \in Conns, ConnOk(c), CollectsAt(c),
           SameClient(c), SameBooks(c), SameLink(c), LumberjackInv'
    PROVE  ConnOk(c)'
<1>1. Calls(c)'  BY SameCalls DEF ConnOk
<1>2. Streams(c)'
  <2>1. /\ Streams(c) /\ c2s[c] # <<>> /\ s2c'[c] = s2c[c]
        /\ spc[c] \notin {"none", "ending", "done"} /\ spc'[c] \notin {"none", "ending", "done"}
    BY DEF ConnOk, CollectsAt
  <2> QED  BY <2>1, ReadStreams
<1>3. CASE ~Healthy(c)  BY <1>1, <1>2, <1>3, SameCalls DEF ConnOk
<1>4. CASE Healthy(c)
  <2> DEFINE n == Len(events[c])
             cur == Current(c)
  <2>1. CanCollect(c) /\ InTransit(c)
    BY <1>4, Phases DEF AtRest, Unread, HandedOver, Answered, Ended, CanCollect, CollectsAt
  <2>2. PICK j \in Nat : j = 1 + n  BY TypesAt
  <2>3. OnTheWay(c, j) /\ sent[c] # <<>> /\ cur # <<>> /\ window[c] = Len(cur)
    BY <2>1, <2>2 DEF InTransit, CanCollect, Partly, Collected
  <2>4. cur \in Seq(Event) /\ Len(cur) < U32 /\ Len(cur) \in Nat
    BY <2>3, CurrentType DEF ConnOk, Calls
  <2>5. n \in Nat  BY TypesAt
  <2>6. /\ More(c) \in Seq(Event) /\ Len(More(c)) <= Len(cur)
        /\ \A i \in 1..Len(More(c)) : More(c)[i] = cur[i]
        /\ last_seq'[c] = Len(More(c))
        /\ c \in Compressing => Len(More(c)) = Len(cur) /\ n = 0
        /\ c \notin Compressing => Len(More(c)) = n + 1
    BY <2>1, CollectedMore DEF CollectsAt
  <2>7. events'[c] = More(c) /\ window'[c] = window[c] /\ Len(More(c)) \in Nat
    BY <2>6 DEF CollectsAt
  <2>8. Collected(c)'  BY <2>3, <2>6, <2>7, SameCalls DEF Collected
  <2>9. /\ Aligned(Tail(c2s[c]), wbuf[c], tofeed[c], cEnd[c], Encoded(c), j + 1)
        /\ (j + 1) + Len(Tail(c2s[c])) = j + Len(c2s[c])
    BY <2>3, NextIsNext DEF CollectsAt
  <2>10. OnTheWay(c, j + 1)'
    <3>1. link[c] # "reset" /\ ack_rx'[c] = ack_rx[c] /\ c2s'[c] = Tail(c2s[c]) /\ s2c'[c] = s2c[c]
      BY DEF CollectsAt
    <3> QED  BY <2>3, <2>9, <3>1, StillOnTheWay
  <2>11. InTransit(c)' <=> Unread(c)' \/ Partly(c)' \/ HandedOver(c)' \/ Answered(c)' \/ Ended(c)'
    BY <2>1, SameCalls DEF InTransit, SameClient
  <2>12. History(c)' /\ Healthy(c)'  BY <1>4, Phases, SameCalls, SameHistory
  <2>13. CASE Len(More(c)) < Len(cur)
    <3>1. spc'[c] = "collect"  BY <2>3, <2>4, <2>7, <2>13 DEF CollectsAt, Complete
    <3>2. c \notin Compressing /\ Len(More(c)) = n + 1  BY <2>4, <2>6, <2>13
    <3>3. j + 1 = 1 + Len(events'[c])  BY <2>2, <2>5, <2>7, <3>2
    <3>4. Partly(c)'  BY <2>8, <2>10, <3>1, <3>2, <3>3 DEF Partly
    <3> QED  BY <1>1, <1>2, <2>11, <2>12, <3>4 DEF ConnOk, Traffic
  <2>14. CASE Len(More(c)) = Len(cur)
    <3>1. spc'[c] = "dispatch"  BY <2>3, <2>4, <2>7, <2>14 DEF CollectsAt, Complete
    <3>2. Len(Encoded(c)) = j + 1
      <4>1. /\ c \in Compressing => Len(Encoded(c)) = 2
            /\ c \notin Compressing => Len(Encoded(c)) = 1 + Len(cur)
        BY <2>4, FramesOfBatch DEF Encoded
      <4>2. /\ c \in Compressing => n = 0
            /\ c \notin Compressing => Len(cur) = n + 1
        BY <2>6, <2>14
      <4>3. CASE c \in Compressing
        <5>1. Len(Encoded(c)) = 2 /\ n = 0  BY <4>1, <4>2, <4>3
        <5> HIDE DEF n
        <5> QED  BY <2>2, <5>1
      <4>4. CASE c \notin Compressing
        <5>1. Len(Encoded(c)) = 1 + Len(cur) /\ Len(cur) = n + 1  BY <4>1, <4>2, <4>4
        <5> HIDE DEF n, cur
        <5> QED  BY <2>2, <2>5, <5>1
      <4> QED  BY <4>3, <4>4
    <3>3. c2s'[c] \in Seq(FrameSet) /\ wbuf'[c] \in Seq(FrameSet) /\ tofeed'[c] \in Seq(FrameSet)
      BY DEF LumberjackInv, ServerInv, ServerTypes, TransportTypeOK, ClientTypeOK
    <3>4. Drained(c)'
      <4>1. (j + 1) + Len(c2s'[c]) + Len(wbuf'[c]) + Len(tofeed'[c]) <= j + 1
        BY <2>9, <3>2 DEF Aligned, SameClient, CollectsAt
      <4>2. ASSUME NEW p \in Seq(FrameSet), NEW w \in Seq(FrameSet), NEW t \in Seq(FrameSet),
                   (j + 1) + Len(p) + Len(w) + Len(t) <= j + 1
            PROVE  p = <<>> /\ w = <<>> /\ t = <<>>
        <5>1. Len(p) \in Nat /\ Len(w) \in Nat /\ Len(t) \in Nat  OBVIOUS
        <5>2. Len(p) = 0 /\ Len(w) = 0 /\ Len(t) = 0  BY <4>2, <5>1
        <5> QED  BY <5>2, EmptySeq
      <4> QED  BY <3>3, <4>1, <4>2 DEF Drained
    <3>5. cpc'[c] \in {"wait", "idle", "closed"}
      <4>1. cpc'[c] \in ClientPcs /\ cpc'[c] \notin {"new", "handshake"}
        BY <2>1, TypesAt DEF InTransit, SameClient
      <4>2. cpc'[c] \notin {"feed", "drain"}
        BY <3>4 DEF LumberjackInv, ClientShape, Drained
      <4>3. cpc'[c] \notin {"flush", "closing"}  BY <1>1, <3>4 DEF Calls, Drained
      <4> QED  BY <4>1, <4>2, <4>3 DEF ClientPcs
    <3>6. HandedOver(c)'
      <4>1. NothingOut(c)' /\ Fresh(c)' /\ s2c'[c] = <<>>  BY <2>10 DEF OnTheWay
      <4>2. Held(c)' = {} /\ ack_rx'[c] = <<>>  BY <4>1 DEF NothingOut
      <4>3. Len(events'[c]) = Len(Current(c)')  BY <2>7, <2>14, SameCalls
      <4> QED  BY <2>8, <3>1, <3>4, <3>5, <4>1, <4>2, <4>3 DEF HandedOver, Waits
    <3> QED  BY <1>1, <1>2, <2>11, <2>12, <3>6 DEF ConnOk, Traffic
  <2> QED  BY <2>4, <2>6, <2>7, <2>13, <2>14
<1> QED  BY <1>3, <1>4

-----------------------------------------------------------------------------
(* Batches that move *)

(* What was received, then what was lost, then what is in the channel.     *)
Joined(g, l, q) == g \o l \o (IF q = {} THEN <<>> ELSE <<(CHOOSE b \in q : TRUE).events>>)

(* What was delivered, put together.                                       *)
LEMMA DeliveredIsJoined ==
    ASSUME NEW c \in Conns
    PROVE  Delivered(c) = Joined(got[c], lost[c], Queued(c))
  BY DEF Delivered, Joined

(* The channel holds nothing, or one batch.                                *)
LEMMA JoinedParts ==
    ASSUME NEW g \in Seq(Seq(Event)), NEW l \in Seq(Seq(Event)), NEW b \in BatchSet
    PROVE  /\ Joined(g, l, {}) = g \o l
           /\ Joined(g, l, {b}) = Append(g \o l, b.events)
           /\ g \o l \in Seq(Seq(Event)) /\ b.events \in Seq(Event)
<1>1. g \o l \in Seq(Seq(Event))  BY ConcatProperties
<1>2. b.events \in Seq(Event)  BY DEF BatchSet
<1>3. (CHOOSE x \in {b} : TRUE) = b /\ {b} # {}  OBVIOUS
<1> DEFINE gl == g \o l
<1>4. gl \in Seq(Seq(Event))  BY <1>1
<1> HIDE DEF gl
<1>5. gl \o <<>> = gl  BY <1>4, ConcatEmptySeq
<1>6. gl \o <<b.events>> = Append(gl, b.events)  BY <1>2, <1>4, AppendIsConcat
<1> QED  BY <1>1, <1>2, <1>3, <1>5, <1>6 DEF Joined, gl

(* Receiving the batch, or losing it, leaves what was delivered as it was. *)
LEMMA JoinedMoves ==
    ASSUME NEW g \in Seq(Seq(Event)), NEW l \in Seq(Seq(Event)), NEW b \in BatchSet
    PROVE  /\ Joined(Append(g, b.events), <<>>, {}) = Joined(g, <<>>, {b})
           /\ Joined(g, Append(l, b.events), {}) = Joined(g, l, {b})
<1> DEFINE e == b.events
<1>1. e \in Seq(Event)  BY DEF BatchSet
<1> HIDE DEF e
<1>2. <<>> \in Seq(Seq(Event)) /\ Append(g, e) \in Seq(Seq(Event))
      /\ Append(l, e) \in Seq(Seq(Event)) /\ <<e>> \in Seq(Seq(Event))
  BY <1>1
<1>3. Joined(Append(g, e), <<>>, {}) = Append(g, e) \o <<>>
  BY <1>2, JoinedParts
<1>4. Joined(g, <<>>, {b}) = Append(g \o <<>>, e)  BY <1>2, JoinedParts DEF e
<1>5. Append(g, e) \o <<>> = Append(g, e) /\ g \o <<>> = g
  BY <1>2, ConcatEmptySeq
<1>6. Joined(g, Append(l, e), {}) = g \o Append(l, e)  BY <1>2, JoinedParts
<1>7. Joined(g, l, {b}) = Append(g \o l, e)  BY JoinedParts DEF e
<1>8. g \o Append(l, e) = Append(g \o l, e)
  <2>1. Append(l, e) = l \o <<e>>  BY <1>1, AppendIsConcat
  <2>2. g \o (l \o <<e>>) = (g \o l) \o <<e>>  BY <1>2, ConcatAssociative, SMTT(30)
  <2>3. g \o l \in Seq(Seq(Event))  BY ConcatProperties
  <2>4. (g \o l) \o <<e>> = Append(g \o l, e)  BY <1>1, <2>3, AppendIsConcat
  <2> QED  BY <2>1, <2>2, <2>4
<1> QED  BY <1>3, <1>4, <1>5, <1>6, <1>7, <1>8 DEF e

(* A batch enters the channel.                                             *)
LEMMA QueueAppend ==
    ASSUME ServerInv, NEW b \in BatchSet, queue' = Append(queue, b), NEW d \in Conns
    PROVE  Queued(d)' = IF d = b.conn THEN Queued(d) \cup {b} ELSE Queued(d)
<1>1. queue \in Seq(BatchSet)  BY DEF ServerInv, ServerTypes, ConnTypeOK
<1>2. Range(queue') = Range(queue) \cup {b}  BY <1>1 DEF Range
<1> QED  BY <1>2 DEF Queued

(* The oldest batch leaves the channel.                                    *)
LEMMA QueuePop ==
    ASSUME ServerInv, queue # <<>>, queue' = Tail(queue), NEW d \in Conns
    PROVE  /\ Head(queue) \in BatchSet /\ Head(queue).conn \in Conns
           /\ d = Head(queue).conn => Queued(d) = {Head(queue)} /\ Queued(d)' = {}
           /\ d # Head(queue).conn => Queued(d)' = Queued(d)
<1> DEFINE b == Head(queue)
<1>1. queue \in Seq(BatchSet)  BY DEF ServerInv, ServerTypes, ConnTypeOK
<1>2. /\ b \in BatchSet /\ b.conn \in Conns /\ InChannel(b.conn)
      /\ \A c \in Conns : InChannel(c)' <=> InChannel(c) /\ c # b.conn
  BY PopQueue
<1>3. Range(queue) = Range(queue') \cup {b}
  <2>1. /\ Len(queue) \in Nat /\ Len(queue) > 0 /\ b = queue[1]
        /\ DOMAIN queue = 1..Len(queue)
        /\ DOMAIN queue' = 1..(Len(queue) - 1)
        /\ \A i \in 1..(Len(queue) - 1) : queue'[i] = queue[i + 1]
    BY <1>1, HeadTailProperties
  <2> HIDE DEF b
  <2>2. ASSUME NEW x \in Range(queue)  PROVE x \in Range(queue') \cup {b}
    <3>1. PICK i \in 1..Len(queue) : x = queue[i]  BY <2>1 DEF Range
    <3>2. CASE i = 1  BY <2>1, <3>1, <3>2
    <3>3. CASE i # 1
      <4>1. i - 1 \in 1..(Len(queue) - 1) /\ (i - 1) + 1 = i  BY <2>1, <3>3
      <4> QED  BY <2>1, <3>1, <4>1, ZenonT(30) DEF Range
    <3> QED  BY <3>2, <3>3
  <2>3. ASSUME NEW x \in Range(queue')  PROVE x \in Range(queue)
    <3>1. PICK i \in 1..(Len(queue) - 1) : x = queue'[i]  BY <2>1 DEF Range
    <3>2. i + 1 \in 1..Len(queue)  BY <2>1
    <3> QED  BY <2>1, <3>1, <3>2 DEF Range
  <2>4. b \in Range(queue)
    <3>1. 1 \in DOMAIN queue  BY <2>1
    <3> QED  BY <2>1, <3>1 DEF Range
  <2> QED  BY <2>2, <2>3, <2>4
<1> HIDE DEF b
<1>4. CASE d = b.conn
  <2>1. b \in Queued(d)  BY <1>3, <1>4 DEF Queued
  <2>2. Queued(d) = {b}  BY <2>1, QueuedOnce
  <2>3. Queued(d)' = {}  BY <1>2, <1>4 DEF Queued, InChannel, Range
  <2> QED  BY <1>2, <1>4, <2>2, <2>3 DEF b
<1>5. CASE d # b.conn
  <2>1. Queued(d)' = Queued(d)  BY <1>3, <1>5 DEF Queued
  <2> QED  BY <1>2, <1>5, <2>1 DEF b
<1> QED  BY <1>4, <1>5

(* A batch of the current call is the newest that was delivered.           *)
LEMMA AppendInOrder ==
    ASSUME NEW d \in Seq(Seq(Event)), NEW s \in Seq(Seq(Event)), s # <<>>,
           Ordered(d, s), AllBefore(d, Len(s)),
           NEW cur \in Seq(Event), cur = s[Len(s)], cur # <<>>, SendOf(cur) = Len(s)
    PROVE  Ordered(Append(d, cur), s)
<1> DEFINE e == Append(d, cur)
<1>1. Len(d) \in Nat /\ Len(s) \in Nat /\ DOMAIN d = 1..Len(d) /\ Len(s) \in DOMAIN s
  OBVIOUS
<1> USE DEF Ordered, AllBefore
<1>2. /\ DOMAIN e = 1..(Len(d) + 1) /\ e[Len(d) + 1] = cur
      /\ \A i \in 1..Len(d) : e[i] = d[i]
  BY <1>1, AppendProperties
<1> HIDE DEF e
<1>3. ASSUME NEW i \in DOMAIN e
      PROVE  e[i] # <<>> /\ SendOf(e[i]) \in DOMAIN s /\ e[i] = s[SendOf(e[i])]
  <2>1. CASE i \in 1..Len(d)  BY <1>1, <1>2, <2>1
  <2>2. CASE i = Len(d) + 1  BY <1>1, <1>2, <2>2
  <2> QED  BY <1>1, <1>2, <2>1, <2>2
<1>4. ASSUME NEW i \in DOMAIN e, NEW j \in DOMAIN e, i < j
      PROVE  SendOf(e[i]) < SendOf(e[j])
  <2>1. i \in 1..Len(d) /\ e[i] = d[i] /\ i \in DOMAIN d  BY <1>1, <1>2, <1>4
  <2>2. CASE j \in 1..Len(d)
    <3>1. e[j] = d[j] /\ j \in DOMAIN d  BY <1>1, <1>2, <2>2
    <3> QED  BY <1>4, <2>1, <3>1
  <2>3. CASE j = Len(d) + 1  BY <1>2, <2>1, <2>3
  <2>4. j \in 1..(Len(d) + 1)  BY <1>2
  <2>5. j \in 1..Len(d) \/ j = Len(d) + 1  BY <1>1, <2>4
  <2> QED  BY <2>2, <2>3, <2>5
<1>5. Ordered(e, s)  BY <1>3, <1>4
<1> HIDE DEF Ordered, AllBefore
<1> QED  BY <1>5 DEF e

(* What a handler that hands its batch over does, at its connection.       *)
DispatchesAt(c) ==
    /\ spc[c] = "dispatch" /\ spc'[c] = "await"
    /\ window'[c] = window[c] /\ events'[c] = events[c] /\ last_seq'[c] = last_seq[c]
    /\ ack_rx'[c] = ack_rx[c]
    /\ Queued(c)' = Queued(c) \cup {NewBatch(c)}
    /\ Held(c)' = Held(c) /\ got'[c] = got[c] /\ lost'[c] = lost[c]

(* The batch that is handed over is the current one, whole; no earlier     *)
(* batch is out, and this one was not handed over before.                  *)
LEMMA Handing ==
    ASSUME LumberjackInv, NEW c \in Conns, ConnOk(c), Healthy(c), DispatchesAt(c)
    PROVE  /\ InTransit(c) /\ HandedOver(c) /\ Fresh(c) /\ NothingOut(c)
           /\ sent[c] # <<>> /\ Current(c) # <<>> /\ ~Succeeded(c)
           /\ NewBatch(c) \in BatchSet /\ NewBatch(c).events = Current(c)
           /\ Queued(c)' = {NewBatch(c)}
           /\ Delivered(c)' = Append(Delivered(c), Current(c))
           /\ SendOf(Current(c)) = Len(sent[c])
<1>1. InTransit(c) /\ HandedOver(c) /\ spc[c] = "dispatch"
  BY Phases DEF AtRest, Unread, Partly, Answered, Ended, DispatchesAt
<1>2. Fresh(c) /\ NothingOut(c)  BY <1>1 DEF HandedOver
<1>3. sent[c] # <<>> /\ Current(c) # <<>> /\ ~Succeeded(c)  BY <1>1 DEF InTransit
<1>4. Current(c) \in Seq(Event) /\ Len(sent[c]) \in DOMAIN sent[c]
  BY <1>3, CurrentType DEF ConnOk, Calls
<1>5. events[c] = Current(c)
  <2>1. events[c] \in Seq(Event)  BY TypesAt
  <2>2. Len(events[c]) = Len(Current(c)) /\ \A i \in DOMAIN events[c] : events[c][i] = Current(c)[i]
    BY <1>1 DEF HandedOver, Collected
  <2> QED  BY <1>4, <2>1, <2>2, SeqEqual
<1>6. NewBatch(c) \in BatchSet /\ NewBatch(c).events = Current(c)
  BY <1>5, TypesAt DEF NewBatch, BatchSet
<1>7. Queued(c) = {} /\ Queued(c)' = {NewBatch(c)}
  BY <1>2 DEF NothingOut, DispatchesAt
<1>8. got[c] \in Seq(Seq(Event)) /\ lost[c] \in Seq(Seq(Event))  BY TypesAt
<1>9. Delivered(c)' = Append(Delivered(c), Current(c))
  <2> DEFINE b == NewBatch(c)  g == got[c]  l == lost[c]
  <2>1. Delivered(c) = Joined(g, l, {})  BY <1>7 DEF Delivered, Joined
  <2>2. Delivered(c)' = Joined(g, l, {b})
    <3> HIDE DEF b
    <3> QED  BY <1>7 DEF Delivered, Joined, DispatchesAt, b
  <2>3. b \in BatchSet /\ g \in Seq(Seq(Event)) /\ l \in Seq(Seq(Event)) /\ b.events = Current(c)
    BY <1>6, <1>8
  <2> HIDE DEF b, g, l
  <2>4. Joined(g, l, {}) = g \o l /\ Joined(g, l, {b}) = Append(g \o l, b.events)
    BY <2>3, JoinedParts
  <2> QED  BY <2>1, <2>2, <2>3, <2>4
<1>10. SendOf(Current(c)) = Len(sent[c])
  <2>1. 1 \in DOMAIN Current(c)  BY <1>3, <1>4
  <2> QED  BY <1>4, <2>1 DEF SendOf, Current, ConnOk, Calls, Numbered
<1> QED  BY <1>1, <1>2, <1>3, <1>6, <1>7, <1>9, <1>10

(* The handler hands its batch over.                                       *)
LEMMA DispatchOk ==
    ASSUME LumberjackInv, NEW c \in Conns, ConnOk(c), DispatchesAt(c),
           SameClient(c), SameLink(c), SamePipes(c)
    PROVE  ConnOk(c)'
<1>1. Calls(c)'  BY SameCalls DEF ConnOk
<1>2. Streams(c)'
  BY DEF ConnOk, Streams, SameClient, SameLink, SamePipes, DispatchesAt
<1>3. CASE ~Healthy(c)  BY <1>1, <1>2, <1>3, SameCalls DEF ConnOk
<1>4. CASE Healthy(c)
  <2>1. /\ InTransit(c) /\ HandedOver(c) /\ Fresh(c) /\ NothingOut(c)
        /\ sent[c] # <<>> /\ Current(c) # <<>> /\ ~Succeeded(c)
        /\ NewBatch(c).events = Current(c)
        /\ Queued(c)' = {NewBatch(c)}
        /\ Delivered(c)' = Append(Delivered(c), Current(c))
        /\ SendOf(Current(c)) = Len(sent[c])
    BY <1>4, Handing
  <2>2. sent'[c] = sent[c] /\ outcome'[c] = outcome[c]  BY DEF SameClient
  <2>3. HandedOver(c)'
    <3>1. Waits(c)' /\ Collected(c)'
      BY <2>1, SameCalls DEF HandedOver, Waits, Drained, Collected, SameClient, SamePipes,
                             DispatchesAt
    <3>2. Held(c)' = {} /\ ack_rx'[c] = <<>>
      BY <2>1 DEF NothingOut, DispatchesAt
    <3> QED  BY <2>1, <3>1, <3>2, SameCalls DEF HandedOver, SamePipes, DispatchesAt
  <2>4. InTransit(c)'  BY <2>1, <2>3, SameCalls DEF InTransit, SameClient
  <2>5. History(c)  BY <1>4 DEF ConnOk
  <2>6. Answers(c)'  BY <2>2, <2>5 DEF History, Answers, DispatchesAt
  <2>7. OutIsCurrent(c)'
    <3>1. Held(c)' = {}  BY <2>1 DEF NothingOut, DispatchesAt
    <3> QED  BY <2>1, <2>2, <3>1, SameCalls DEF OutIsCurrent
  <2>8. InOrderOnce(c)'
    <3> DEFINE d == Delivered(c)
               s == sent[c]
               cur == Current(c)
    <3>1. d \in Seq(Seq(Event)) /\ s \in Seq(Seq(Event))  BY DeliveredType, TypesAt
    <3>2. Ordered(d, s) /\ AllBefore(d, Len(s))
      BY <2>1, <2>5 DEF History, InOrderOnce, Fresh
    <3>3. cur = s[Len(s)] /\ s # <<>> /\ cur # <<>> /\ SendOf(cur) = Len(s)
      BY <2>1 DEF Current
    <3>4. Delivered(c)' = Append(d, cur) /\ sent'[c] = s  BY <2>1, <2>2
    <3>5. cur \in Seq(Event)  BY <2>1, CurrentType DEF ConnOk, Calls
    <3> HIDE DEF d, s, cur
    <3>6. Ordered(Append(d, cur), s)  BY <3>1, <3>2, <3>3, <3>5, AppendInOrder
    <3> QED  BY <3>4, <3>6 DEF InOrderOnce
  <2> QED  BY <1>1, <1>2, <2>4, <2>6, <2>7, <2>8 DEF ConnOk, Traffic, History
<1> QED  BY <1>3, <1>4

(* The handler takes the acknowledgement, or its interval fires.           *)
LEMMA WaitOk ==
    ASSUME LumberjackInv, NEW c \in Conns, ConnOk(c),
           spc[c] = "await", spc'[c] \in {"ack", "keepalive"},
           window'[c] = window[c], events'[c] = events[c], last_seq'[c] = last_seq[c],
           ack_rx'[c] = ack_rx[c],
           SameClient(c), SameBooks(c), SameLink(c), SamePipes(c)
    PROVE  ConnOk(c)'
<1> USE SameCalls, SameHistory
<1>1. Calls(c)'  BY DEF ConnOk
<1>2. Streams(c)'  BY DEF ConnOk, Streams, SameClient, SameLink, SamePipes
<1>3. CASE ~Healthy(c)  BY <1>1, <1>2, <1>3 DEF ConnOk
<1>4. CASE Healthy(c)
  <2>1. InTransit(c) /\ HandedOver(c)
    BY <1>4, Phases DEF AtRest, Unread, Partly, Answered, Ended
  <2>2. Waits(c)' /\ Collected(c)'
    BY <2>1 DEF HandedOver, Waits, Drained, Collected, SameClient, SamePipes
  <2>3. HandedOver(c)'
    BY <2>1, <2>2 DEF HandedOver, SamePipes, SameBooks
  <2>4. InTransit(c)'  BY <2>1, <2>3 DEF InTransit, SameClient
  <2> QED  BY <1>1, <1>2, <1>4, <2>4 DEF ConnOk, Traffic
<1> QED  BY <1>3, <1>4

(* One more Ack on its way, unless the client is gone.                     *)
AckGoes(c, seq) ==
    s2c'[c] = IF cEnd[c] = "closed" THEN s2c[c] ELSE Append(s2c[c], Ack(seq))

(* Every Ack on the way but the last is a keepalive.                       *)
LEMMA AckAppended ==
    ASSUME NEW p \in Seq(FrameSet), \A i \in DOMAIN p : p[i] = Ack(0), NEW seq \in Nat
    PROVE  LET q == Append(p, Ack(seq)) IN
           \A i \in DOMAIN q : q[i] = Ack(0) \/ (i = Len(q) /\ q[i] = Ack(seq))
<1> DEFINE a == Ack(seq)
           q == Append(p, a)
<1>1. a \in FrameSet  BY DEF Ack, FrameSet, InnerFrames, AckFrames
<1> HIDE DEF a
<1>2. /\ DOMAIN q = 1..(Len(p) + 1) /\ Len(q) = Len(p) + 1 /\ q[Len(p) + 1] = a
      /\ \A i \in 1..Len(p) : q[i] = p[i]
  BY <1>1, AppendProperties
<1>3. DOMAIN p = 1..Len(p) /\ Len(p) \in Nat  OBVIOUS
<1> HIDE DEF q
<1>4. ASSUME NEW i \in DOMAIN q  PROVE q[i] = Ack(0) \/ (i = Len(q) /\ q[i] = a)
  <2>1. CASE i \in 1..Len(p)  BY <1>2, <1>3, <2>1
  <2>2. CASE i = Len(p) + 1  BY <1>2, <2>2
  <2> QED  BY <1>2, <1>3, <2>1, <2>2
<1> QED  BY <1>4 DEF q, a

(* The handler writes a keepalive and waits on.                            *)
LEMMA KeepaliveOk ==
    ASSUME LumberjackInv, NEW c \in Conns, ConnOk(c),
           spc[c] = "keepalive", link[c] # "reset", spc'[c] = "await", AckGoes(c, 0),
           window'[c] = window[c], events'[c] = events[c], last_seq'[c] = last_seq[c],
           ack_rx'[c] = ack_rx[c], c2s'[c] = c2s[c],
           SameClient(c), SameBooks(c), SameLink(c)
    PROVE  ConnOk(c)'
<1> USE SameCalls, SameHistory
<1>1. Calls(c)'  BY DEF ConnOk
<1>2. Streams(c)'  BY DEF ConnOk, Streams, SameClient, SameLink, AckGoes
<1>3. CASE ~Healthy(c)  BY <1>1, <1>2, <1>3 DEF ConnOk
<1>4. CASE Healthy(c)
  <2>1. InTransit(c) /\ HandedOver(c)
    BY <1>4, Phases DEF AtRest, Unread, Partly, Answered, Ended
  <2>2. Waits(c)' /\ Collected(c)'
    BY <2>1 DEF HandedOver, Waits, Drained, Collected, SameClient
  <2>3. \A i \in DOMAIN s2c'[c] : s2c'[c][i] = Ack(0)
    <3>1. s2c[c] \in Seq(FrameSet) /\ \A i \in DOMAIN s2c[c] : s2c[c][i] = Ack(0)
      BY <2>1, TypesAt DEF HandedOver
    <3> QED  BY <3>1, AckAppended DEF AckGoes
  <2>4. HandedOver(c)'
    BY <2>1, <2>2, <2>3 DEF HandedOver, SameBooks
  <2>5. InTransit(c)'  BY <2>1, <2>4 DEF InTransit, SameClient
  <2> QED  BY <1>1, <1>2, <1>4, <2>5 DEF ConnOk, Traffic
<1> QED  BY <1>3, <1>4

(* The handler writes the acknowledgement of the batch.                    *)
LEMMA AckOk ==
    ASSUME LumberjackInv, Covers, NEW c \in Conns, ConnOk(c),
           spc[c] = "ack", link[c] # "reset", spc'[c] = "window", AckGoes(c, Head(ack_rx[c])),
           ack_rx'[c] = <<>>, c2s'[c] = c2s[c],
           SameClient(c), SameBooks(c), SameLink(c)
    PROVE  ConnOk(c)'
<1> USE SameCalls, SameHistory
<1>1. Calls(c)'  BY DEF ConnOk
<1>2. Streams(c)'  BY DEF ConnOk, Streams, SameClient, SameLink, AckGoes
<1>3. CASE ~Healthy(c)  BY <1>1, <1>2, <1>3 DEF ConnOk
<1>4. CASE Healthy(c)
  <2>1. InTransit(c) /\ HandedOver(c)
    BY <1>4, Phases DEF AtRest, Unread, Partly, Answered, Ended
  <2>2. InOneshot(c) /\ ~InChannel(c) /\ ~InHand(c)
    BY DEF LumberjackInv, ServerInv, NoLostAck, OneOutstanding
  <2>3. NothingOut(c)'
    BY <2>2, QueuedOnce DEF LumberjackInv, NothingOut, SameBooks
  <2>4. Arrived(c)'  BY <2>1, <2>2 DEF HandedOver, InOneshot
  <2>5. Waits(c)'
    BY <2>1 DEF HandedOver, Waits, Drained, SameClient
  <2>6. Head(ack_rx[c]) = Len(Current(c))
    BY <2>1, <2>2 DEF Covers, HandlerCovers, HandedOver, Collected
  <2>7. \A i \in DOMAIN s2c'[c] : \/ s2c'[c][i] = Ack(0)
                                  \/ i = Len(s2c'[c]) /\ s2c'[c][i] = Ack(Len(Current(c)))
    <3>1. s2c[c] \in Seq(FrameSet) /\ \A i \in DOMAIN s2c[c] : s2c[c][i] = Ack(0)
      BY <2>1, TypesAt DEF HandedOver
    <3>2. Len(Current(c)) \in Nat
      BY <2>1, CurrentType DEF ConnOk, Calls, InTransit
    <3> QED  BY <2>6, <3>1, <3>2, AckAppended DEF AckGoes
  <2>8. Answered(c)'  BY <2>3, <2>4, <2>5, <2>7 DEF Answered
  <2>9. InTransit(c)'  BY <2>1, <2>8 DEF InTransit, SameClient
  <2> QED  BY <1>1, <1>2, <1>4, <2>9 DEF ConnOk, Traffic
<1> QED  BY <1>3, <1>4

Same(c) == SameClient(c) /\ SameLink(c) /\ SamePipes(c) /\ SameHandler(c) /\ SameBooks(c)

(* A handler that returns touches its own connection only.                 *)
LEMMA FinishElsewhere ==
    ASSUME LumberjackInv, NEW c \in Conns, NEW d \in Conns, d # c, NEW r, Finish(c, r),
           UNCHANGED <<link, cEnd, s2c, queue, clientVars, serverVars>>
    PROVE  Same(d)
<1>1. SameClient(d)  BY DEF SameClient, clientVars
<1>2. SameBooks(d)  BY NoBatchMoves DEF serverVars
<1>3. SameLink(d) /\ SamePipes(d) /\ SameHandler(d)
  BY DEF Finish, SameLink, SamePipes, SameHandler, LumberjackInv, ServerInv, ServerTypes,
         TransportTypeOK, ConnTypeOK
<1> QED  BY <1>1, <1>2, <1>3 DEF Same

(* A step of a handler touches its own connection only.                    *)
LEMMA HandlerElsewhere ==
    ASSUME LumberjackInv, NEW c \in Conns, HandlerSide(c), NEW d \in Conns, d # c
    PROVE  Same(d)
<1>1. Handler(c) /\ UNCHANGED clientVars /\ UNCHANGED serverVars  BY DEF HandlerSide
<1>2. SameClient(d)  BY <1>1 DEF SameClient, clientVars
<1>3. CASE \E r : Finish(c, r) /\ UNCHANGED <<link, cEnd, s2c, queue>>
  BY <1>1, <1>3, FinishElsewhere
<1>4. CASE UNCHANGED queue
  <2>1. SameBooks(d)  BY <1>1, <1>4, NoBatchMoves DEF serverVars
  <2> USE <1>2, <1>3, <2>1
          DEF Same, SameLink, SamePipes, SameHandler, LumberjackInv, ServerInv, ServerTypes,
              TransportTypeOK, ConnTypeOK, locals, transportVars
  <2>2. CASE Handshake(c)  BY <2>2 DEF Handshake
  <2>3. CASE ReadWindow(c)  BY <2>3 DEF ReadWindow
  <2>4. CASE Collect(c)  BY <2>4 DEF Collect
  <2>5. CASE ReadEnd(c) \/ DispatchClosed(c) \/ WriteAckFails(c)
    BY <2>5 DEF ReadEnd, DispatchClosed, WriteAckFails
  <2>6. CASE AckReceived(c) \/ KeepaliveDue(c)  BY <2>6 DEF AckReceived, KeepaliveDue
  <2>7. CASE WriteAck(c)  BY <2>7 DEF WriteAck, Written
  <2>8. CASE Dispatch(c)  BY <1>4, <2>8 DEF Dispatch
  <2> QED  BY <1>1, <2>2, <2>3, <2>4, <2>5, <2>6, <2>7, <2>8 DEF Handler
<1>5. CASE Dispatch(c)
  <2>1. NewBatch(c) \in BatchSet /\ NewBatch(c).conn = c
    BY TypesAt DEF NewBatch, BatchSet
  <2>2. Queued(d)' = Queued(d)
    <3> HIDE DEF NewBatch
    <3>1. queue' = Append(queue, NewBatch(c))  BY <1>5 DEF Dispatch
    <3> QED  BY <2>1, <3>1, QueueAppend DEF LumberjackInv
  <2>3. SameBooks(d)  BY <1>1, <2>2 DEF SameBooks, serverVars, Held
  <2> QED  BY <1>2, <1>5, <2>3
      DEF Dispatch, Same, SameLink, SamePipes, SameHandler, LumberjackInv, ServerInv,
          ServerTypes, TransportTypeOK, ConnTypeOK, locals, transportVars
<1>6. UNCHANGED queue \/ Dispatch(c)
  BY <1>1 DEF Handler, Handshake, ReadWindow, Collect, ReadEnd, DispatchClosed,
     AckReceived, KeepaliveDue, WriteAck, WriteAckFails
<1> QED  BY <1>4, <1>5, <1>6

(* A handler that returns, for whatever reason.                            *)
LEMMA HandlerReturns ==
    ASSUME LumberjackInv, NEW c \in Conns, ConnOk(c), NEW r, Finish(c, r),
           UNCHANGED <<link, cEnd, s2c, queue, clientVars, serverVars>>,
           \/ spc[c] \in {"handshake", "collect", "dispatch"}
           \/ spc[c] = "window" /\ c2s[c] # <<>>
           \/ link[c] = "reset" \/ cEnd[c] = "closed"
    PROVE  ConnOk(c)'
<1>1. SameClient(c)  BY DEF SameClient, clientVars
<1>2. SameBooks(c)  BY NoBatchMoves DEF serverVars
<1>3. Healthy(c) => s2c[c] = <<>>  BY NoAckOnTheWay
<1> QED  BY <1>1, <1>2, <1>3, FinishOk

(* Every step of a handler keeps its connection as it should be.           *)
LEMMA HandlerOk ==
    ASSUME LumberjackInv, Covers, NEW c \in Conns, ConnOk(c), HandlerSide(c), LumberjackInv'
    PROVE  ConnOk(c)'
<1>1. Handler(c) /\ UNCHANGED clientVars /\ UNCHANGED serverVars  BY DEF HandlerSide
<1>2. SameClient(c)  BY <1>1 DEF SameClient, clientVars
<1>3. UNCHANGED queue => SameBooks(c)  BY <1>1, NoBatchMoves DEF serverVars
<1>4. ServerTypes  BY DEF LumberjackInv, ServerInv
<1>5. CASE Handshake(c)
  <2>1. CASE Finish(c, "Handshake")  BY <1>1, <1>5, <2>1, HandlerReturns DEF Handshake
  <2>2. CASE ~Finish(c, "Handshake")
    <3>1. /\ spc[c] = "handshake" /\ spc'[c] = "window" /\ ack_rx'[c] = ack_rx[c]
          /\ SameLink(c) /\ SamePipes(c) /\ UNCHANGED queue
      BY <1>4, <1>5, <2>2 DEF Handshake, SameLink, SamePipes, ServerTypes, ConnTypeOK
    <3> QED  BY <1>2, <1>3, <3>1, HandshakeOk
  <2> QED  BY <2>1, <2>2
<1>6. CASE ReadWindow(c)
  <2>1. spc[c] = "window" /\ link[c] # "reset" /\ c2s[c] # <<>> /\ UNCHANGED queue
    BY <1>6 DEF ReadWindow, Readable
  <2>2. CASE NextFrame(c).type = "W"
    <3>1. /\ spc'[c] = (IF NextFrame(c).n = 0 THEN "dispatch" ELSE "collect")
          /\ window'[c] = NextFrame(c).n /\ events'[c] = <<>> /\ last_seq'[c] = 0
          /\ ack_rx'[c] = ack_rx[c] /\ c2s'[c] = Tail(c2s[c]) /\ s2c'[c] = s2c[c]
          /\ SameLink(c)
      BY <1>4, <1>6, <2>2 DEF ReadWindow, SameLink, ServerTypes, ConnTypeOK, TransportTypeOK
    <3> QED  BY <1>2, <1>3, <2>1, <2>2, <3>1, ReadWindowOk
  <2>3. CASE NextFrame(c).type # "W"
    <3>1. PICK r : Finish(c, r)  BY <1>6, <2>3 DEF ReadWindow
    <3> QED  BY <1>1, <1>6, <2>1, <3>1, HandlerReturns DEF ReadWindow
  <2> QED  BY <2>2, <2>3
<1>7. CASE Collect(c)
  <2>1. spc[c] = "collect" /\ link[c] # "reset" /\ c2s[c] # <<>> /\ UNCHANGED queue
    BY <1>7 DEF Collect, Readable
  <2>2. CASE InOrder(Taken(c), last_seq[c])
    <3>1. /\ events'[c] = More(c) /\ window'[c] = window[c]
          /\ last_seq'[c] = PrevSeq(Taken(c), Len(Taken(c)) + 1, last_seq[c])
          /\ spc'[c] = (IF Complete(window[c], Len(More(c))) THEN "dispatch" ELSE "collect")
          /\ ack_rx'[c] = ack_rx[c] /\ c2s'[c] = Tail(c2s[c]) /\ s2c'[c] = s2c[c]
          /\ SameLink(c)
      BY <1>4, <1>7, <2>1, <2>2
      DEF Collect, Taken, More, SameLink, ServerTypes, ConnTypeOK, TransportTypeOK
    <3>2. CollectsAt(c)  BY <2>1, <2>2, <3>1 DEF CollectsAt
    <3> QED  BY <1>2, <1>3, <2>1, <3>1, <3>2, CollectOk
  <2>3. CASE ~InOrder(Taken(c), last_seq[c])
    <3>1. PICK r : Finish(c, r)  BY <1>7, <2>3 DEF Collect, Taken
    <3> QED  BY <1>1, <1>7, <2>1, <3>1, HandlerReturns DEF Collect
  <2> QED  BY <2>2, <2>3
<1>8. CASE ReadEnd(c) \/ DispatchClosed(c) \/ WriteAckFails(c)
  <2>1. PICK r : Finish(c, r)
    BY <1>8 DEF ReadEnd, DispatchClosed, WriteAckFails
  <2>2. /\ UNCHANGED <<link, cEnd, s2c, queue>>
        /\ spc[c] = "dispatch" \/ link[c] = "reset" \/ cEnd[c] = "closed"
    BY <1>8 DEF ReadEnd, DispatchClosed, WriteAckFails, AtEof, WriteFails
  <2> QED  BY <1>1, <2>1, <2>2, HandlerReturns
<1>9. CASE Dispatch(c)
  <2>1. NewBatch(c) \in BatchSet /\ NewBatch(c).conn = c
    BY TypesAt DEF NewBatch, BatchSet
  <2> HIDE DEF NewBatch
  <2>2. queue' = Append(queue, NewBatch(c))  BY <1>9 DEF Dispatch
  <2>3. Queued(c)' = Queued(c) \cup {NewBatch(c)}
    BY <2>1, <2>2, QueueAppend DEF LumberjackInv
  <2>4. DispatchesAt(c)
    BY <1>1, <1>4, <1>9, <2>3 DEF Dispatch, DispatchesAt, locals, serverVars, Held,
                                  ServerTypes, ConnTypeOK
  <2>5. SameLink(c) /\ SamePipes(c)
    BY <1>9 DEF Dispatch, SameLink, SamePipes, transportVars
  <2> QED  BY <1>2, <2>4, <2>5, DispatchOk
<1>10. CASE AckReceived(c) \/ KeepaliveDue(c)
  <2>1. /\ spc[c] = "await" /\ spc'[c] \in {"ack", "keepalive"} /\ UNCHANGED queue
        /\ window'[c] = window[c] /\ events'[c] = events[c] /\ last_seq'[c] = last_seq[c]
        /\ ack_rx'[c] = ack_rx[c] /\ SameLink(c) /\ SamePipes(c)
    BY <1>4, <1>10 DEF AckReceived, KeepaliveDue, locals, transportVars, SameLink, SamePipes,
                       ServerTypes, ConnTypeOK
  <2> QED  BY <1>2, <1>3, <2>1, WaitOk
<1>11. CASE WriteAck(c) /\ spc[c] = "keepalive"
  <2>1. /\ spc'[c] = "await" /\ UNCHANGED queue /\ link[c] # "reset" /\ AckGoes(c, 0)
        /\ window'[c] = window[c] /\ events'[c] = events[c] /\ last_seq'[c] = last_seq[c]
        /\ ack_rx'[c] = ack_rx[c] /\ c2s'[c] = c2s[c] /\ SameLink(c)
    BY <1>4, <1>11 DEF WriteAck, Writable, Written, AckGoes, locals, SameLink, ServerTypes,
                       ConnTypeOK, TransportTypeOK
  <2> QED  BY <1>2, <1>3, <1>11, <2>1, KeepaliveOk
<1>12. CASE WriteAck(c) /\ spc[c] = "ack"
  <2>1. /\ spc'[c] = "window" /\ UNCHANGED queue /\ link[c] # "reset"
        /\ ack_rx'[c] = <<>> /\ c2s'[c] = c2s[c] /\ SameLink(c)
    BY <1>4, <1>12 DEF WriteAck, Writable, SameLink, ServerTypes, ConnTypeOK
  <2>2. AckGoes(c, Head(ack_rx[c]))
    <3>1. s2c' = Written(s2c, cEnd, c, Ack(Head(ack_rx[c])))  BY <1>12 DEF WriteAck
    <3> QED  BY <1>4, <3>1 DEF Written, AckGoes, ServerTypes, TransportTypeOK
  <2> QED  BY <1>2, <1>3, <1>12, <2>1, <2>2, AckOk
<1>13. WriteAck(c) => spc[c] \in {"keepalive", "ack"}  BY DEF WriteAck
<1> QED  BY <1>1, <1>5, <1>6, <1>7, <1>8, <1>9, <1>10, <1>11, <1>12, <1>13 DEF Handler

-----------------------------------------------------------------------------
(* Steps of the accept loop and of the application that owns the Server *)

(* The connection is accepted.                                             *)
LEMMA AcceptOk ==
    ASSUME LumberjackInv, NEW c \in Conns, ConnOk(c),
           spc[c] = "none", spc'[c] \in {"handshake", "window"},
           link'[c] = "reset" <=> link[c] = "reset", cEnd'[c] = cEnd[c], sEnd'[c] = sEnd[c],
           ack_rx'[c] = ack_rx[c], SameClient(c), SameBooks(c), SamePipes(c)
    PROVE  ConnOk(c)'
<1> USE SameCalls, SameHistory
<1>1. Calls(c)'  BY DEF ConnOk
<1>2. Streams(c)'  BY DEF ConnOk, Streams, SameClient, SamePipes
<1>3. NothingOut(c)' <=> NothingOut(c)  BY DEF NothingOut, SameBooks
<1>4. CASE ~Healthy(c)  BY <1>1, <1>2, <1>4 DEF ConnOk
<1>5. CASE Healthy(c) /\ AtRest(c)
  <2>1. AtRest(c)'  BY <1>3, <1>5 DEF AtRest, Drained, SameClient, SamePipes
  <2> QED  BY <1>1, <1>2, <1>5, <2>1 DEF ConnOk, Traffic
<1>6. CASE Healthy(c) /\ InTransit(c) /\ Unread(c)
  <2>1. OnTheWay(c, 0)'
    BY <1>3, <1>6 DEF Unread, OnTheWay, Aligned, SameClient, SamePipes
  <2>2. InTransit(c)'  BY <1>6, <2>1 DEF InTransit, Unread, SameClient
  <2> QED  BY <1>1, <1>2, <1>6, <2>2 DEF ConnOk, Traffic
<1> QED  BY <1>4, <1>5, <1>6, Phases DEF Partly, HandedOver, Answered, Ended

(* The connection fails, or goes with the listener it waited for: what was *)
(* on its way is gone.                                                     *)
LEMMA ResetOk ==
    ASSUME LumberjackInv, NEW c \in Conns, ConnOk(c),
           link'[c] = "reset", cEnd'[c] = cEnd[c], sEnd'[c] = sEnd[c],
           c2s'[c] = <<>>, s2c'[c] = <<>>,
           SameClient(c), SameBooks(c), SameHandler(c)
    PROVE  ConnOk(c)'
<1> USE SameCalls, SameHistory
<1>1. Calls(c)'  BY DEF ConnOk
<1>2. Streams(c)'  BY DEF ConnOk, Streams, SameClient, SameHandler
<1>3. NothingOut(c)' <=> NothingOut(c)  BY DEF NothingOut, SameBooks, SameHandler
<1>4. \A j : OnTheWay(c, j) => OnTheWay(c, j)'  BY <1>3 DEF OnTheWay
<1>5. Drained(c) => Drained(c)'  BY DEF Drained, SameClient
<1>6. Collected(c)' <=> Collected(c)  BY DEF Collected, SameHandler
<1>7. Waits(c) => Waits(c)'  BY <1>5 DEF Waits, SameClient
<1>8. CASE ~Healthy(c)  BY <1>1, <1>2, <1>8 DEF ConnOk
<1>9. CASE AtRest(c)
  <2>1. AtRest(c)'  BY <1>3, <1>5, <1>9 DEF AtRest, SameClient, SameHandler
  <2> QED  BY <1>1, <1>2, <2>1 DEF ConnOk, Traffic
<1>10. CASE InTransit(c)
  <2>1. Unread(c) => Unread(c)'  BY <1>4 DEF Unread, SameHandler
  <2>2. Partly(c) => Partly(c)'  BY <1>4, <1>6 DEF Partly, SameHandler
  <2>3. HandedOver(c) => HandedOver(c)'
    BY <1>3, <1>6, <1>7 DEF HandedOver, SameHandler, SameBooks
  <2>4. Answered(c) => Answered(c)'  BY <1>3, <1>7 DEF Answered, SameHandler
  <2>5. Ended(c) => Ended(c)'  BY DEF Ended, SameHandler
  <2>6. InTransit(c)'
    BY <1>10, <2>1, <2>2, <2>3, <2>4, <2>5 DEF InTransit, SameClient
  <2> QED  BY <1>1, <1>2, <2>6 DEF ConnOk, Traffic
<1> QED  BY <1>8, <1>9, <1>10 DEF ConnOk, Traffic

(* The task of a connection ends.                                          *)
LEMMA TaskEndOk ==
    ASSUME LumberjackInv, NEW c \in Conns, ConnOk(c),
           spc[c] = "ending", spc'[c] = "done", ack_rx'[c] = ack_rx[c],
           SameClient(c), SameBooks(c), SameLink(c), SamePipes(c)
    PROVE  ConnOk(c)'
<1> USE SameCalls, SameHistory
<1>1. Calls(c)'  BY DEF ConnOk
<1>2. Streams(c)'  BY DEF ConnOk, Streams, SameClient, SameLink, SamePipes
<1>3. NothingOut(c)' <=> NothingOut(c)  BY DEF NothingOut, SameBooks
<1>4. CASE ~Healthy(c)  BY <1>1, <1>2, <1>4 DEF ConnOk
<1>5. CASE Healthy(c) /\ AtRest(c)
  <2>1. AtRest(c)'  BY <1>3, <1>5 DEF AtRest, Drained, SameClient, SamePipes
  <2> QED  BY <1>1, <1>2, <1>5, <2>1 DEF ConnOk, Traffic
<1>6. CASE Healthy(c) /\ InTransit(c) /\ Ended(c)
  <2>1. Ended(c)'  BY <1>6 DEF Ended, SamePipes
  <2>2. InTransit(c)'  BY <1>6, <2>1 DEF InTransit, SameClient
  <2> QED  BY <1>1, <1>2, <1>6, <2>2 DEF ConnOk, Traffic
<1> QED  BY <1>4, <1>5, <1>6, Phases DEF Unread, Partly, HandedOver, Answered

(* The batch of a connection moves on: to the application, or out of its   *)
(* hands, or out of a channel that is dropped.                             *)
MovesOn(c) ==
    /\ Queued(c) \cup Held(c) # {}
    /\ Queued(c)' \cup Held(c)' \subseteq Queued(c) \cup Held(c)
    /\ Delivered(c)' = Delivered(c)
    /\ Range(got[c]) \cup Range(lost[c]) \subseteq Range(got'[c]) \cup Range(lost'[c])
    /\ spc'[c] = spc[c] /\ window'[c] = window[c] /\ events'[c] = events[c]
    /\ last_seq'[c] = last_seq[c]

LEMMA MovesOk ==
    ASSUME LumberjackInv, NEW c \in Conns, ConnOk(c), MovesOn(c),
           SameClient(c), SameLink(c), SamePipes(c),
           Healthy(c) /\ HandedOver(c) => Arrived(c)'
    PROVE  ConnOk(c)'
<1> USE SameCalls
<1>1. Calls(c)'  BY DEF ConnOk
<1>2. Streams(c)'  BY DEF ConnOk, Streams, SameClient, SameLink, SamePipes, MovesOn
<1>3. CASE ~Healthy(c)  BY <1>1, <1>2, <1>3 DEF ConnOk
<1>4. CASE Healthy(c)
  <2>1. ~NothingOut(c)  BY DEF NothingOut, MovesOn
  <2>2. InTransit(c) /\ (HandedOver(c) \/ Ended(c)) /\ History(c)
    BY <1>4, <2>1, Phases DEF AtRest, Unread, Partly, OnTheWay, Answered
  <2>3. ASSUME HandedOver(c)  PROVE HandedOver(c)'
    <3>1. Waits(c)' /\ Collected(c)'
      BY <2>3 DEF HandedOver, Waits, Drained, Collected, SameClient, SamePipes, MovesOn
    <3>2. spc[c] # "dispatch"  BY <2>1, <2>3 DEF HandedOver
    <3> QED  BY <1>4, <2>3, <3>1, <3>2 DEF HandedOver, SamePipes, MovesOn
  <2>4. Ended(c) => Ended(c)'  BY DEF Ended, SamePipes, MovesOn
  <2>5. InTransit(c)'  BY <2>2, <2>3, <2>4 DEF InTransit, SameClient
  <2>6. Answers(c)'
    BY <2>2 DEF History, Answers, SameClient, MovesOn
  <2>7. OutIsCurrent(c)'
    BY <2>2 DEF History, OutIsCurrent, SameClient, MovesOn
  <2>8. InOrderOnce(c)'
    BY <2>2 DEF History, InOrderOnce, SameClient, MovesOn
  <2> QED  BY <1>1, <1>2, <2>5, <2>6, <2>7, <2>8 DEF ConnOk, Traffic, History
<1> QED  BY <1>3, <1>4

(* A batch at the end of a row is in it, and so is what was there before.  *)
LEMMA AppendRange ==
    ASSUME NEW s \in Seq(Seq(Event)), NEW e \in Seq(Event)
    PROVE  Range(Append(s, e)) = Range(s) \cup {e}
<1>1. /\ DOMAIN Append(s, e) = 1..(Len(s) + 1) /\ Append(s, e)[Len(s) + 1] = e
      /\ \A i \in 1..Len(s) : Append(s, e)[i] = s[i]
      /\ DOMAIN s = 1..Len(s) /\ Len(s) \in Nat
  BY AppendProperties
<1>2. Len(s) + 1 \in 1..(Len(s) + 1) /\ 1..(Len(s) + 1) = 1..Len(s) \cup {Len(s) + 1}
  BY <1>1
<1> QED  BY <1>1, <1>2 DEF Range

(* What the Server does with the batches of one connection leaves the      *)
(* others alone.                                                           *)
LEMMA AckedElsewhere ==
    ASSUME ServerInv, NEW b \in BatchSet, NEW d \in Conns, d # b.conn
    PROVE  Acked(ack_rx, b)[d] = ack_rx[d]
  BY DEF Acked, ServerInv, ServerTypes, ConnTypeOK

(* recv takes the oldest batch out of the channel: the batches it moves.   *)
LEMMA RecvBooks ==
    ASSUME LumberjackInv, LostLate, Recv, NEW b \in BatchSet, b = Head(queue),
           NEW c \in Conns, c = b.conn
    PROVE  /\ Queued(c) = {b} /\ Queued(c)' = {}
           /\ Held(c) = {} /\ Held(c)' = {b}
           /\ Delivered(c)' = Delivered(c)
           /\ Range(got'[c]) = Range(got[c]) \cup {b.events} /\ lost'[c] = lost[c]
           /\ \A d \in Conns : d # c => SameBooks(d)
<1>1. /\ rx = "open" /\ queue # <<>> /\ queue' = Tail(queue) /\ held' = held \cup {b}
      /\ got' = [got EXCEPT ![c] = Append(@, b.events)] /\ lost' = lost
  BY DEF Recv
<1>2. ServerInv  BY DEF LumberjackInv
<1>3. /\ Queued(c) = {b} /\ Queued(c)' = {}
      /\ \A d \in Conns : d # c => Queued(d)' = Queued(d)
  <2>1. queue # <<>> /\ queue' = Tail(queue)  BY <1>1
  <2>2. Queued(c) = {b} /\ Queued(c)' = {}  BY <1>2, <2>1, QueuePop
  <2>3. \A d \in Conns : d # c => Queued(d)' = Queued(d)
    BY <1>2, <2>1, QueuePop
  <2> QED  BY <2>2, <2>3
<1>4. got \in [Conns -> Seq(Seq(Event))]
  BY <1>2 DEF ServerInv, ServerTypes, ServerTypeOK
<1>5. \A d \in Conns : d # c => SameBooks(d)
  BY <1>1, <1>3, <1>4 DEF SameBooks, Held
<1>6. got'[c] = Append(got[c], b.events) /\ lost[c] = <<>> /\ lost'[c] = <<>>
  BY <1>1, <1>4 DEF LostLate
<1>7. Held(c) = {} /\ Held(c)' = {b}
  <2>1. InChannel(c) /\ ~InHand(c)
    BY <1>2, <1>3, QueuedOnce DEF ServerInv, OneOutstanding
  <2>2. Held(c) = {}  BY <1>2, <2>1, QueuedOnce
  <2> QED  BY <1>1, <2>2 DEF Held
<1>8. b.events \in Seq(Event) /\ got[c] \in Seq(Seq(Event))  BY <1>4 DEF BatchSet
<1>9. Delivered(c)' = Delivered(c)
  <2>1. Delivered(c) = Joined(got[c], <<>>, {b})  BY <1>3, <1>6, DeliveredIsJoined
  <2>2. Delivered(c)' = Joined(Append(got[c], b.events), <<>>, {})
    BY <1>3, <1>6 DEF Delivered, Joined
  <2>3. <<>> \in Seq(Seq(Event))  OBVIOUS
  <2> QED  BY <1>8, <2>1, <2>2, <2>3, JoinedMoves
<1>10. Range(got'[c]) = Range(got[c]) \cup {b.events}  BY <1>6, <1>8, AppendRange
<1> QED  BY <1>3, <1>5, <1>6, <1>7, <1>9, <1>10

(* The connections afterwards.                                             *)
LEMMA RecvOk ==
    ASSUME LumberjackInv, LostLate, \A d \in Conns : ConnOk(d), Recv, UNCHANGED clientVars
    PROVE  \A d \in Conns : ConnOk(d)'
<1>1. PICK b \in BatchSet : b = Head(queue)  BY PopQueue DEF LumberjackInv, Recv
<1>2. PICK c \in Conns : c = b.conn  BY DEF BatchSet
<1>3. /\ Queued(c) = {b} /\ Queued(c)' = {} /\ Held(c) = {} /\ Held(c)' = {b}
      /\ Delivered(c)' = Delivered(c)
      /\ Range(got'[c]) = Range(got[c]) \cup {b.events} /\ lost'[c] = lost[c]
      /\ \A d \in Conns : d # c => SameBooks(d)
  BY <1>1, <1>2, RecvBooks
<1>4. \A d \in Conns : SameClient(d) /\ SameLink(d) /\ SamePipes(d) /\ SameHandler(d)
  BY DEF Recv, SameClient, SameLink, SamePipes, SameHandler, clientVars, transportVars, locals
<1>5. ASSUME NEW d \in Conns, d # c  PROVE ConnOk(d)'
  BY <1>3, <1>4, <1>5, Untouched
<1>6. MovesOn(c)  BY <1>3, <1>4 DEF MovesOn, SameHandler
<1>7. ASSUME Healthy(c)  PROVE Arrived(c)'
  <2>1. OutIsCurrent(c)  BY <1>7 DEF ConnOk, History
  <2>2. b.events = Current(c)  BY <1>3, <2>1 DEF OutIsCurrent
  <2>3. Current(c)' = Current(c)  BY <1>4, SameCalls
  <2> QED  BY <1>3, <2>2, <2>3 DEF Arrived
<1>8. ConnOk(c)'  BY <1>4, <1>6, <1>7, MovesOk
<1> QED  BY <1>5, <1>8

(* The application acks or drops a batch it holds.                         *)
LEMMA ResolveOk ==
    ASSUME LumberjackInv, \A d \in Conns : ConnOk(d), NEW b \in held, Resolve(b),
           UNCHANGED clientVars
    PROVE  \A d \in Conns : ConnOk(d)'
<1> DEFINE c == b.conn
<1>1. /\ held' = held \ {b} /\ ack_rx' = Acked(ack_rx, b)
      /\ queue' = queue /\ got' = got /\ lost' = lost
  BY DEF Resolve
<1>2. ServerInv  BY DEF LumberjackInv
<1>3. b \in BatchSet /\ c \in Conns
  BY <1>2 DEF ServerInv, ServerTypes, ServerTypeOK, BatchSet
<1>4. \A d \in Conns : /\ SameClient(d) /\ SameLink(d) /\ SamePipes(d)
                       /\ spc'[d] = spc[d] /\ window'[d] = window[d] /\ events'[d] = events[d]
                       /\ last_seq'[d] = last_seq[d]
  BY DEF Resolve, SameClient, SameLink, SamePipes, clientVars, transportVars, locals
<1>5. \A d \in Conns : Queued(d)' = Queued(d) /\ Delivered(d)' = Delivered(d)
  BY <1>1 DEF Queued, Delivered
<1>6. ASSUME NEW d \in Conns, d # c  PROVE ConnOk(d)'
  <2>1. SameBooks(d)  BY <1>1, <1>5, <1>6 DEF SameBooks, Held
  <2>2. SameHandler(d)  BY <1>1, <1>2, <1>3, <1>4, <1>6, AckedElsewhere DEF SameHandler
  <2> QED  BY <1>4, <2>1, <2>2, Untouched
<1> HIDE DEF c
<1>7. b \in Held(c) /\ Held(c)' \subseteq Held(c)  BY <1>1 DEF Held, c
<1>8. MovesOn(c)  BY <1>1, <1>3, <1>4, <1>5, <1>7 DEF MovesOn
<1>9. ASSUME HandedOver(c)  PROVE Arrived(c)'
  <2>1. Arrived(c)  BY <1>7, <1>9 DEF HandedOver
  <2>2. Current(c)' = Current(c)  BY <1>3, <1>4, SameCalls
  <2> QED  BY <1>1, <2>1, <2>2 DEF Arrived
<1>10. ConnOk(c)'  BY <1>3, <1>4, <1>8, <1>9, MovesOk
<1> QED  BY <1>6, <1>10

(* A batch is dropped with the Server's half of the channel.               *)
LEMMA DropBooks ==
    ASSUME LumberjackInv, DropQueued, NEW b \in BatchSet, b = Head(queue),
           NEW c \in Conns, c = b.conn
    PROVE  /\ Queued(c) = {b} /\ Queued(c)' = {}
           /\ Held(c) = {} /\ Held(c)' = {}
           /\ Delivered(c)' = Delivered(c)
           /\ Range(lost'[c]) = Range(lost[c]) \cup {b.events} /\ got'[c] = got[c]
           /\ \A d \in Conns : d # c => SameBooks(d)
<1>1. /\ queue # <<>> /\ queue' = Tail(queue) /\ got' = got /\ held' = held
      /\ lost' = [lost EXCEPT ![c] = Append(@, b.events)]
  BY DEF DropQueued
<1>2. ServerInv  BY DEF LumberjackInv
<1>3. /\ Queued(c) = {b} /\ Queued(c)' = {}
      /\ \A d \in Conns : d # c => Queued(d)' = Queued(d)
  <2>1. queue # <<>> /\ queue' = Tail(queue)  BY <1>1
  <2>2. Queued(c) = {b} /\ Queued(c)' = {}  BY <1>2, <2>1, QueuePop
  <2>3. \A d \in Conns : d # c => Queued(d)' = Queued(d)
    BY <1>2, <2>1, QueuePop
  <2> QED  BY <2>2, <2>3
<1>4. lost \in [Conns -> Seq(Seq(Event))]
  BY <1>2 DEF ServerInv, ServerTypes, ServerTypeOK
<1>5. \A d \in Conns : d # c => SameBooks(d)
  BY <1>1, <1>3, <1>4 DEF SameBooks, Held
<1>6. lost'[c] = Append(lost[c], b.events) /\ got'[c] = got[c]  BY <1>1, <1>4
<1>7. Held(c) = {} /\ Held(c)' = {}
  <2>1. InChannel(c) /\ ~InHand(c)
    BY <1>2, <1>3, QueuedOnce DEF ServerInv, OneOutstanding
  <2>2. Held(c) = {}  BY <1>2, <2>1, QueuedOnce
  <2> QED  BY <1>1, <2>2 DEF Held
<1>8. b.events \in Seq(Event) /\ lost[c] \in Seq(Seq(Event)) /\ got[c] \in Seq(Seq(Event))
  BY TypesAt DEF BatchSet
<1>9. Delivered(c)' = Delivered(c)
  <2>1. Delivered(c) = Joined(got[c], lost[c], {b})  BY <1>3, DeliveredIsJoined
  <2>2. Delivered(c)' = Joined(got[c], Append(lost[c], b.events), {})
    BY <1>3, <1>6 DEF Delivered, Joined
  <2> QED  BY <1>8, <2>1, <2>2, JoinedMoves, ZenonT(30)
<1>10. Range(lost'[c]) = Range(lost[c]) \cup {b.events}  BY <1>6, <1>8, AppendRange
<1> QED  BY <1>3, <1>5, <1>6, <1>7, <1>9, <1>10

(* The connections afterwards.                                             *)
LEMMA DropQueuedOk ==
    ASSUME LumberjackInv, \A d \in Conns : ConnOk(d), DropQueued, UNCHANGED clientVars
    PROVE  \A d \in Conns : ConnOk(d)'
<1>1. PICK b \in BatchSet : b = Head(queue)  BY PopQueue DEF LumberjackInv, DropQueued
<1>2. PICK c \in Conns : c = b.conn  BY DEF BatchSet
<1>3. /\ Queued(c) = {b} /\ Queued(c)' = {} /\ Held(c) = {} /\ Held(c)' = {}
      /\ Delivered(c)' = Delivered(c)
      /\ Range(lost'[c]) = Range(lost[c]) \cup {b.events} /\ got'[c] = got[c]
      /\ \A d \in Conns : d # c => SameBooks(d)
  BY <1>1, <1>2, DropBooks
<1>4. \A d \in Conns : /\ SameClient(d) /\ SameLink(d) /\ SamePipes(d)
                       /\ spc'[d] = spc[d] /\ window'[d] = window[d] /\ events'[d] = events[d]
                       /\ last_seq'[d] = last_seq[d]
  BY DEF DropQueued, SameClient, SameLink, SamePipes, clientVars, transportVars, locals
<1>5. ack_rx' = Acked(ack_rx, b) /\ ServerInv  BY <1>1 DEF DropQueued, LumberjackInv
<1>6. ASSUME NEW d \in Conns, d # c  PROVE ConnOk(d)'
  <2>1. SameHandler(d)  BY <1>2, <1>4, <1>5, <1>6, AckedElsewhere DEF SameHandler
  <2> QED  BY <1>3, <1>4, <1>6, <2>1, Untouched
<1>7. MovesOn(c)  BY <1>3, <1>4 DEF MovesOn
<1>8. ASSUME Healthy(c)  PROVE Arrived(c)'
  <2>1. OutIsCurrent(c)  BY <1>8 DEF ConnOk, History
  <2>2. b.events = Current(c)  BY <1>3, <2>1 DEF OutIsCurrent
  <2>3. Current(c)' = Current(c)  BY <1>4, SameCalls
  <2> QED  BY <1>3, <2>2, <2>3 DEF Arrived
<1>9. ConnOk(c)'  BY <1>4, <1>7, <1>8, MovesOk
<1> QED  BY <1>6, <1>9

(* A connection is accepted.                                               *)
LEMMA AcceptsOk ==
    ASSUME LumberjackInv, \A d \in Conns : ConnOk(d), NEW c \in Conns, Accept(c),
           UNCHANGED clientVars
    PROVE  \A d \in Conns : ConnOk(d)'
<1>1. ServerTypes  BY DEF LumberjackInv, ServerInv
<1>2. \A d \in Conns : SameClient(d) /\ SameBooks(d) /\ SamePipes(d)
  <2>1. UNCHANGED <<queue, held, got, lost>>  BY DEF Accept
  <2>2. \A d \in Conns : SameBooks(d)  BY <2>1, NoBatchMoves
  <2> QED  BY <2>2 DEF Accept, SameClient, SamePipes, clientVars
<1>3. ASSUME NEW d \in Conns, d # c  PROVE ConnOk(d)'
  <2>1. SameLink(d) /\ SameHandler(d)
    BY <1>1, <1>3 DEF Accept, SameLink, SameHandler, locals, ServerTypes, TransportTypeOK,
                      ConnTypeOK
  <2> QED  BY <1>2, <2>1, Untouched
<1>4. /\ spc[c] = "none" /\ spc'[c] \in {"handshake", "window"}
      /\ link'[c] = "reset" <=> link[c] = "reset"
      /\ cEnd'[c] = cEnd[c] /\ sEnd'[c] = sEnd[c] /\ ack_rx'[c] = ack_rx[c]
  BY <1>1 DEF Accept, InBacklog, LumberjackInv, ServerInv, LinkPhase, ServerTypes,
              TransportTypeOK, ConnTypeOK
<1>5. ConnOk(c)'  BY <1>2, <1>4, AcceptOk
<1> QED  BY <1>3, <1>5

(* The accept loop stops; the connections in its backlog are reset.        *)
LEMMA StopLoopOk ==
    ASSUME LumberjackInv, \A d \in Conns : ConnOk(d), StopLoop, UNCHANGED clientVars
    PROVE  \A d \in Conns : ConnOk(d)'
<1>1. \A d \in Conns : SameClient(d) /\ SameBooks(d) /\ SameHandler(d)
  <2>1. UNCHANGED <<queue, held, got, lost>>  BY DEF StopLoop, connVars
  <2>2. \A d \in Conns : SameBooks(d)  BY <2>1, NoBatchMoves
  <2> QED  BY <2>2 DEF StopLoop, SameClient, SameHandler, clientVars, connVars
<1>2. ASSUME NEW d \in Conns, link[d] # "backlog"  PROVE ConnOk(d)'
  <2>1. SameLink(d) /\ SamePipes(d)  BY <1>2 DEF StopLoop, SameLink, SamePipes
  <2> QED  BY <1>1, <2>1, Untouched
<1>3. ASSUME NEW d \in Conns, link[d] = "backlog"  PROVE ConnOk(d)'
  <2>1. /\ link'[d] = "reset" /\ cEnd'[d] = cEnd[d] /\ sEnd'[d] = sEnd[d]
        /\ c2s'[d] = <<>> /\ s2c'[d] = s2c[d]
    BY <1>3 DEF StopLoop
  <2>2. spc[d] = "none"  BY <1>3 DEF LumberjackInv, ServerInv, LinkPhase
  <2>3. s2c[d] = <<>>  BY <2>2 DEF ConnOk, Streams
  <2> QED  BY <1>1, <2>1, <2>3, ResetOk
<1> QED  BY <1>2, <1>3

(* A link fails.                                                           *)
LEMMA LinkResetOk ==
    ASSUME LumberjackInv, \A d \in Conns : ConnOk(d), NEW c \in Conns, LinkSide(c)
    PROVE  \A d \in Conns : ConnOk(d)'
<1>1. LinkReset(c) /\ UNCHANGED clientVars /\ UNCHANGED connVars /\ UNCHANGED serverVars
  BY DEF LinkSide
<1>2. \A d \in Conns : SameClient(d) /\ SameBooks(d) /\ SameHandler(d)
  <2>1. UNCHANGED <<queue, held, got, lost>>  BY <1>1 DEF connVars, serverVars
  <2>2. \A d \in Conns : SameBooks(d)  BY <2>1, NoBatchMoves
  <2> QED  BY <1>1, <2>2 DEF SameClient, SameHandler, clientVars, connVars
<1>3. TransportTypeOK  BY DEF LumberjackInv, ServerInv, ServerTypes
<1>4. ASSUME NEW d \in Conns, d # c  PROVE ConnOk(d)'
  <2>1. SameLink(d) /\ SamePipes(d)
    BY <1>1, <1>3, <1>4 DEF LinkReset, SameLink, SamePipes, TransportTypeOK
  <2> QED  BY <1>2, <2>1, Untouched
<1>5. /\ link'[c] = "reset" /\ cEnd'[c] = cEnd[c] /\ sEnd'[c] = sEnd[c]
      /\ c2s'[c] = <<>> /\ s2c'[c] = <<>>
  BY <1>1, <1>3 DEF LinkReset, TransportTypeOK
<1>6. ConnOk(c)'  BY <1>2, <1>5, ResetOk
<1> QED  BY <1>4, <1>6

(* The task of a connection ends.                                          *)
LEMMA TaskEndsOk ==
    ASSUME LumberjackInv, \A d \in Conns : ConnOk(d), NEW c \in Conns, TaskEnd(c),
           UNCHANGED clientVars
    PROVE  \A d \in Conns : ConnOk(d)'
<1>1. ServerTypes  BY DEF LumberjackInv, ServerInv
<1>2. \A d \in Conns : SameClient(d) /\ SameBooks(d) /\ SamePipes(d) /\ SameLink(d)
  <2>1. UNCHANGED <<queue, held, got, lost>>  BY DEF TaskEnd
  <2>2. \A d \in Conns : SameBooks(d)  BY <2>1, NoBatchMoves
  <2> QED  BY <2>2 DEF TaskEnd, SameClient, SamePipes, SameLink, clientVars, transportVars
<1>3. ASSUME NEW d \in Conns, d # c  PROVE ConnOk(d)'
  <2>1. SameHandler(d)
    BY <1>1, <1>3 DEF TaskEnd, SameHandler, locals, ServerTypes, ConnTypeOK
  <2> QED  BY <1>2, <2>1, Untouched
<1>4. spc[c] = "ending" /\ spc'[c] = "done" /\ ack_rx'[c] = ack_rx[c]
  BY <1>1 DEF TaskEnd, ServerTypes, ConnTypeOK
<1>5. ConnOk(c)'  BY <1>2, <1>4, TaskEndOk
<1> QED  BY <1>3, <1>5

(* Steps that move nothing of any connection.                              *)
LEMMA NothingMoves ==
    ASSUME \A d \in Conns : ConnOk(d), UNCHANGED clientVars, UNCHANGED transportVars,
           UNCHANGED <<spc, locals, ack_rx, queue, held, got, lost>>
    PROVE  \A d \in Conns : ConnOk(d)'
<1>1. ASSUME NEW d \in Conns  PROVE ConnOk(d)'
  <2>1. SameBooks(d)  BY NoBatchMoves
  <2>2. SameClient(d) /\ SameLink(d) /\ SamePipes(d) /\ SameHandler(d)
    BY DEF SameClient, SameLink, SamePipes, SameHandler, clientVars, transportVars, locals
  <2> QED  BY <2>1, <2>2, Untouched
<1> QED  BY <1>1

(* The accept loop and the application leave every connection as it should *)
(* be.                                                                     *)
LEMMA ServerOk ==
    ASSUME LumberjackInv, LostLate, \A d \in Conns : ConnOk(d), ServerSide
    PROVE  LostLate' /\ \A d \in Conns : ConnOk(d)'
<1>1. ServerStep /\ UNCHANGED clientVars  BY DEF ServerSide
<1>2. CASE \E c \in Conns : Accept(c)  BY <1>1, <1>2, AcceptsOk DEF Accept, LostLate
<1>3. CASE \E c \in Conns : TaskEnd(c)  BY <1>1, <1>3, TaskEndsOk DEF TaskEnd, LostLate
<1>4. CASE ShutdownSeen \/ AcceptFails
  BY <1>1, <1>4, StopLoopOk DEF ShutdownSeen, AcceptFails, StopLoop, connVars, LostLate
<1>5. CASE Recv  BY <1>1, <1>5, RecvOk DEF Recv, LostLate
<1>6. CASE RecvNone \/ Shutdown \/ CloseReceiver
  <2>1. /\ UNCHANGED transportVars
        /\ UNCHANGED <<spc, locals, ack_rx, queue, held, got, lost>>
    BY <1>6 DEF RecvNone, Shutdown, CloseReceiver, connVars, serverVars, locals
  <2>2. LostLate'
    BY <1>6, <2>1 DEF RecvNone, Shutdown, CloseReceiver, connVars, LostLate
  <2> QED  BY <1>1, <2>1, <2>2, NothingMoves
<1>7. CASE \E b \in held : Resolve(b)  BY <1>1, <1>7, ResolveOk DEF Resolve, LostLate
<1>8. CASE DropQueued  BY <1>1, <1>8, DropQueuedOk DEF DropQueued, LostLate
<1> QED  BY <1>1, <1>2, <1>3, <1>4, <1>5, <1>6, <1>7, <1>8 DEF ServerStep

-----------------------------------------------------------------------------
(* Steps of a client *)

(* A step of a client or of its application touches its own connection     *)
(* only.                                                                   *)
LEMMA ClientElsewhere ==
    ASSUME LumberjackInv, NEW c \in Conns, ClientSide(c), NEW d \in Conns
    PROVE  SameHandler(d) /\ SameBooks(d) /\ (d # c => Same(d))
<1>1. /\ Connect(c, loop # "stopped") \/ ClientRuntime(c) \/ ClientChoice(c)
      /\ UNCHANGED connVars /\ UNCHANGED serverVars
  BY DEF ClientSide
<1>2. SameHandler(d)  BY <1>1 DEF SameHandler, connVars
<1>3. SameBooks(d)  BY <1>1, NoBatchMoves DEF connVars, serverVars
<1>4. ASSUME d # c  PROVE Same(d)
  <2> USE <1>2, <1>3, <1>4
          DEF Same, SameLink, SamePipes, SameClient, LumberjackInv, ServerInv, ServerTypes,
              TransportTypeOK, ClientTypeOK, transportVars
  <2>1. CASE Connect(c, loop # "stopped")  BY <2>1 DEF Connect
  <2>2. CASE ClientHandshake(c)  BY <2>2 DEF ClientHandshake
  <2>3. CASE Feed(c)  BY <2>3 DEF Feed, FeedOn, Return
  <2>4. CASE WriteOut(c)  BY <2>4 DEF WriteOut, Written
  <2>5. CASE WriteError(c) \/ ReceiveEnd(c) \/ WriteTimeout(c) \/ AckTimeout(c) \/ Cancel(c)
    BY <2>5 DEF WriteError, ReceiveEnd, WriteTimeout, AckTimeout, Cancel, Return
  <2>6. CASE Receive(c)  BY <2>6 DEF Receive, Return
  <2>7. CASE CloseFails(c) \/ Close(c)  BY <2>7 DEF CloseFails, Close
  <2>8. CASE Drop(c)  BY <2>8 DEF Drop, Written
  <2>9. ASSUME NEW sizes \in Batches, Send(c, sizes)  PROVE Same(d)
    BY <2>9 DEF Send, FeedOn, Return
  <2>10. ASSUME NEW sizes \in Batches, SerializeFails(c, sizes)  PROVE Same(d)
    BY <2>10 DEF SerializeFails, Return
  <2> QED  BY <1>1, <2>1, <2>2, <2>3, <2>4, <2>5, <2>6, <2>7, <2>8, <2>9, <2>10
           DEF ClientRuntime, ClientChoice
<1> QED  BY <1>2, <1>3, <1>4

(* A result is appended to the results of a client.                        *)
LEMMA OneMoreResult ==
    ASSUME NEW o \in Seq(Results), NEW r \in Results
    PROVE  /\ Len(Append(o, r)) = Len(o) + 1 /\ Append(o, r)[Len(o) + 1] = r
           /\ DOMAIN Append(o, r) = DOMAIN o \cup {Len(o) + 1}
           /\ \A k \in DOMAIN o : Append(o, r)[k] = o[k]
           /\ Len(o) + 1 \notin DOMAIN o
<1>1. /\ DOMAIN Append(o, r) = 1..(Len(o) + 1) /\ Append(o, r)[Len(o) + 1] = r
      /\ Len(Append(o, r)) = Len(o) + 1
      /\ \A i \in 1..Len(o) : Append(o, r)[i] = o[i]
      /\ DOMAIN o = 1..Len(o) /\ Len(o) \in Nat
  BY AppendProperties
<1>2. 1..(Len(o) + 1) = 1..Len(o) \cup {Len(o) + 1} /\ Len(o) + 1 \notin 1..Len(o)
  BY <1>1
<1> QED  BY <1>1, <1>2

(* The same of a batch that is appended to what was sent.                  *)
LEMMA OneMoreSent ==
    ASSUME NEW s \in Seq(Seq(Event)), NEW e \in Seq(Event)
    PROVE  /\ Len(Append(s, e)) = Len(s) + 1 /\ Append(s, e)[Len(s) + 1] = e
           /\ DOMAIN Append(s, e) = DOMAIN s \cup {Len(s) + 1}
           /\ \A k \in DOMAIN s : Append(s, e)[k] = s[k]
           /\ Len(s) + 1 \notin DOMAIN s /\ Append(s, e) # <<>>
           /\ DOMAIN s = 1..Len(s)
<1>1. /\ DOMAIN Append(s, e) = 1..(Len(s) + 1) /\ Append(s, e)[Len(s) + 1] = e
      /\ Len(Append(s, e)) = Len(s) + 1
      /\ \A i \in 1..Len(s) : Append(s, e)[i] = s[i]
      /\ DOMAIN s = 1..Len(s) /\ Len(s) \in Nat
  BY AppendProperties
<1>2. 1..(Len(s) + 1) = 1..Len(s) \cup {Len(s) + 1} /\ Len(s) + 1 \notin 1..Len(s)
  BY <1>1
<1> QED  BY <1>1, <1>2

(* A client that has met an error stays broken; a healthy one was healthy. *)
LEMMA BrokenGrows ==
    ASSUME LumberjackInv, NEW c \in Conns, NEW r \in Results,
           outcome'[c] = Append(outcome[c], r)
    PROVE  /\ Broken(c)' <=> Broken(c) \/ r.err \notin {"none", "Serialization"}
           /\ Healthy(c)' => Healthy(c)
<1> DEFINE o == outcome[c]
           bad(x) == x.err \notin {"none", "Serialization"}
<1>1. o \in Seq(Results)  BY TypesAt
<1> HIDE DEF o
<1>2. /\ DOMAIN Append(o, r) = DOMAIN o \cup {Len(o) + 1} /\ Append(o, r)[Len(o) + 1] = r
      /\ \A k \in DOMAIN o : Append(o, r)[k] = o[k]
  BY <1>1, OneMoreResult
<1>3. outcome'[c] = Append(o, r)  BY DEF o
<1>4. Broken(c) <=> \E k \in DOMAIN o : bad(o[k])  BY DEF Broken, o
<1>5. Broken(c)' <=> \E k \in DOMAIN Append(o, r) : bad(Append(o, r)[k])
  BY <1>3 DEF Broken
<1> HIDE DEF bad
<1>6. Broken(c)' <=> Broken(c) \/ bad(r)  BY <1>2, <1>4, <1>5
<1> QED  BY <1>6 DEF Healthy, bad

(* A call of send returns: the results and the calls stay in step.         *)
LEMMA Returned ==
    ASSUME LumberjackInv, NEW c \in Conns, Calls(c), InSend(c), NEW r \in Results,
           cpc'[c] = "idle", outcome'[c] = Append(outcome[c], r), sent'[c] = sent[c]
    PROVE  /\ Calls(c)' /\ ~InSend(c)'
           /\ Len(sent[c]) \in DOMAIN sent[c]
           /\ outcome'[c][Len(sent[c])] = r
           /\ DOMAIN outcome'[c] = DOMAIN outcome[c] \cup {Len(sent[c])}
           /\ \A k \in DOMAIN outcome[c] : outcome'[c][k] = outcome[c][k]
           /\ Succeeded(c)' <=> r.ok
<1> DEFINE o == outcome[c]
           o2 == Append(o, r)
<1>1. o \in Seq(Results)  BY TypesAt
<1>2. sent[c] # <<>> /\ sent[c] \in Seq(Seq(Event))
  BY TypesAt DEF LumberjackInv, ClientShape
<1>3. Len(sent[c]) \in DOMAIN sent[c]  BY <1>2
<1>4. Len(o) + 1 = Len(sent[c])  BY DEF Calls
<1>5. outcome'[c] = o2  OBVIOUS
<1> HIDE DEF o
<1>6. /\ Len(o2) = Len(o) + 1 /\ o2[Len(o) + 1] = r
      /\ DOMAIN o2 = DOMAIN o \cup {Len(o) + 1}
      /\ \A k \in DOMAIN o : o2[k] = o[k]
  BY <1>1, OneMoreResult
<1> HIDE DEF o2
<1>7. Numbered(c)'  BY DEF Calls, Numbered
<1>8. Len(outcome'[c]) = Len(sent'[c])  BY <1>4, <1>5, <1>6
<1>9. ~InSend(c)'  BY DEF InSend
<1>10. Len(sent'[c]) \in Nat  BY <1>2
<1>11. Calls(c)'  BY <1>7, <1>8, <1>9, <1>10 DEF Calls
<1>12. Succeeded(c)' <=> r.ok
  <2>1. outcome'[c][Len(sent'[c])] = r  BY <1>4, <1>5, <1>6
  <2> QED  BY <1>8, <2>1 DEF Succeeded
<1> QED  BY <1>3, <1>4, <1>5, <1>6, <1>9, <1>11, <1>12 DEF o

(* Frames of a call are on their way, j of them read by the handler.       *)
Under(c, j) == InTransit(c) /\ OnTheWay(c, j) /\ link[c] # "reset" /\ sEnd[c] = "open"

(* A step of a client in the middle of a call, or after one that failed:   *)
(* frames move along the buffers towards the pipe, or are forgotten from   *)
(* the end.                                                                *)
Passes(c) ==
    /\ link'[c] = link[c] /\ sent'[c] = sent[c] /\ s2c'[c] \in {s2c[c], <<>>}
    /\ sEnd[c] = "closed" \/ link[c] = "reset" => c2s'[c] = c2s[c]
    /\ Waits(c) => Waits(c)'
    /\ \A j \in Nat : Under(c, j) =>
           /\ Aligned(c2s'[c], wbuf'[c], tofeed'[c], cEnd'[c], Encoded(c), j)
           /\ InSend(c)' => j + Len(c2s'[c]) + Len(wbuf'[c]) + Len(tofeed'[c])
                                = Len(Encoded(c))

LEMMA TransitOk ==
    ASSUME LumberjackInv, NEW c \in Conns, ConnOk(c), Healthy(c), InTransit(c),
           SameHandler(c), SameBooks(c), Passes(c), ~Succeeded(c)',
           cpc'[c] \notin {"new", "handshake"}, cpc'[c] \in {"idle", "closing"} => Broken(c)'
    PROVE  InTransit(c)'
<1>1. Current(c)' = Current(c) /\ Encoded(c)' = Encoded(c)
  BY DEF Current, Encoded, Passes
<1>2. NothingOut(c)' <=> NothingOut(c)  BY DEF NothingOut, SameBooks, SameHandler
<1>3. Fresh(c)' <=> Fresh(c)  BY SameDelivered DEF Fresh, Passes
<1>4. Arrived(c)' <=> Arrived(c)  BY <1>1 DEF Arrived, SameBooks
<1>5. Collected(c)' <=> Collected(c)  BY <1>1 DEF Collected, SameHandler
<1>6. s2c[c] = <<>> => s2c'[c] = <<>>  BY DEF Passes
<1>7. ASSUME NEW j \in Nat, OnTheWay(c, j), sEnd[c] = "open"
      PROVE  OnTheWay(c, j)'
  <2>1. NothingOut(c)' /\ s2c'[c] = <<>> /\ Fresh(c)'
    BY <1>2, <1>3, <1>6, <1>7 DEF OnTheWay
  <2>2. CASE link[c] = "reset"  BY <1>7, <2>1, <2>2 DEF OnTheWay, Passes
  <2>3. CASE link[c] # "reset"
    <3>1. /\ Aligned(c2s'[c], wbuf'[c], tofeed'[c], cEnd'[c], Encoded(c), j)
          /\ InSend(c)' => j + Len(c2s'[c]) + Len(wbuf'[c]) + Len(tofeed'[c])
                               = Len(Encoded(c))
          /\ link'[c] # "reset"
      BY <1>7, <2>3 DEF Passes, Under
    <3> QED  BY <1>1, <2>1, <3>1 DEF OnTheWay
  <2> QED  BY <2>2, <2>3
<1>8. spc[c] \notin {"ending", "done"} => sEnd[c] = "open"
  BY TypesAt DEF ConnOk, Streams
<1>9. Unread(c) => Unread(c)'  BY <1>7, <1>8 DEF Unread, SameHandler
<1>10. Partly(c) => Partly(c)'
  <2>1. 1 + Len(events[c]) \in Nat  BY TypesAt
  <2> QED  BY <1>5, <1>7, <1>8, <2>1 DEF Partly, SameHandler
<1>11. HandedOver(c) => HandedOver(c)'
  <2>1. ASSUME HandedOver(c)  PROVE HandedOver(c)'
    <3>1. Waits(c)' /\ Collected(c)'  BY <1>5, <2>1 DEF HandedOver, Passes
    <3>2. \A i \in DOMAIN s2c'[c] : s2c'[c][i] = Ack(0)
      <4>1. CASE s2c'[c] = s2c[c]  BY <2>1, <4>1 DEF HandedOver
      <4>2. CASE s2c'[c] = <<>>  BY <4>2
      <4> QED  BY <4>1, <4>2 DEF Passes
    <3> QED  BY <1>1, <1>2, <1>3, <1>4, <1>6, <2>1, <3>1, <3>2
             DEF HandedOver, SameHandler, SameBooks
  <2> QED  BY <2>1
<1>12. Answered(c) => Answered(c)'
  <2>1. ASSUME Answered(c)  PROVE Answered(c)'
    <3>1. Waits(c)' /\ NothingOut(c)' /\ Arrived(c)' /\ spc'[c] = "window"
      BY <1>2, <1>4, <2>1 DEF Answered, Passes, SameHandler
    <3>2. CASE s2c'[c] = s2c[c]  BY <1>1, <2>1, <3>1, <3>2 DEF Answered
    <3>3. CASE s2c'[c] = <<>>  BY <3>1, <3>3 DEF Answered
    <3> QED  BY <3>2, <3>3 DEF Passes
  <2> QED  BY <2>1
<1>13. Ended(c) => Ended(c)'
  <2>1. spc[c] \in {"ending", "done"} => sEnd[c] = "closed"  BY DEF ConnOk, Streams
  <2> QED  BY <1>6, <2>1 DEF Ended, SameHandler, Passes
<1> QED  BY <1>1, <1>9, <1>10, <1>11, <1>12, <1>13 DEF InTransit, Passes

(* A step of a client between two calls.                                   *)
LEMMA RestOk ==
    ASSUME NEW c \in Conns, AtRest(c), SameHandler(c), SameBooks(c),
           c2s'[c] = c2s[c], s2c'[c] \in {s2c[c], <<>>}, wbuf'[c] \in {wbuf[c], <<>>},
           tofeed'[c] \in {tofeed[c], <<>>}, cpc'[c] \in {"handshake", "idle", "closed"}
    PROVE  AtRest(c)'
<1>1. NothingOut(c)'  BY DEF AtRest, NothingOut, SameBooks, SameHandler
<1>2. Drained(c)'  BY DEF AtRest, Drained
<1> QED  BY <1>1, <1>2 DEF AtRest, SameHandler

(* The history of a connection whose batches and calls do not move.        *)
LEMMA HistoryKept ==
    ASSUME NEW c \in Conns, SameBooks(c), sent'[c] = sent[c], Answers(c)', ~Succeeded(c)',
           History(c)
    PROVE  History(c)'
<1>1. Delivered(c)' = Delivered(c)  BY SameDelivered
<1>2. Current(c)' = Current(c)  BY DEF Current
<1>3. OutIsCurrent(c)'  BY <1>2 DEF History, OutIsCurrent, SameBooks
<1>4. InOrderOnce(c)'  BY <1>1 DEF History, InOrderOnce
<1> QED  BY <1>3, <1>4 DEF History

(* A call of send fails; the client is given up, or was not healthy, or is *)
(* not any more.                                                           *)
LEMMA FailOk ==
    ASSUME LumberjackInv, NEW c \in Conns, ConnOk(c), InSend(c),
           NEW e \in Errors \ {"Serialization"},
           cpc'[c] = "idle", outcome'[c] = Append(outcome[c], Err(e)),
           SameHandler(c), SameBooks(c), SameLink(c), SamePipes(c), Passes(c)
    PROVE  ConnOk(c)'
<1>1. Err(e) \in Results /\ Err(e).err = e /\ ~Err(e).ok  BY ResultTypes DEF Err
<1> DEFINE r == Err(e)
<1> HIDE DEF r
<1>2. Calls(c) /\ sent'[c] = sent[c]  BY DEF ConnOk, Passes
<1>3. /\ Calls(c)'
      /\ outcome'[c][Len(sent[c])] = r /\ DOMAIN outcome'[c] = DOMAIN outcome[c] \cup {Len(sent[c])}
      /\ \A k \in DOMAIN outcome[c] : outcome'[c][k] = outcome[c][k]
      /\ Succeeded(c)' <=> r.ok
  <2>1. r \in Results /\ outcome'[c] = Append(outcome[c], r)  BY <1>1 DEF r
  <2> QED  BY <1>2, <2>1, Returned
<1>4. Broken(c)' /\ (Healthy(c)' => Healthy(c))
  <2>1. r \in Results /\ outcome'[c] = Append(outcome[c], r) /\ r.err = e
    BY <1>1 DEF r
  <2>2. e \notin {"none", "Serialization"}  BY DEF Errors
  <2> QED  BY <2>1, <2>2, BrokenGrows
<1>5. cpc[c] # "closed" /\ cpc'[c] # "closed"  BY DEF InSend
<1>6. Streams(c)'
  BY <1>5 DEF ConnOk, Streams, SameHandler, SameLink, SamePipes
<1>7. ASSUME Healthy(c)  PROVE Traffic(c)' /\ History(c)'
  <2>1. ~AtRest(c)  BY DEF AtRest, InSend
  <2>2. InTransit(c) /\ History(c)  BY <1>7, <2>1 DEF ConnOk, Traffic
  <2>3. ~r.ok  BY <1>1 DEF r
  <2>4. ~Succeeded(c)'  BY <1>3, <2>3
  <2>5. InTransit(c)'  BY <1>4, <1>7, <2>2, <2>4, TransitOk
  <2>6. Answers(c)'
    BY <1>2, <1>3, <2>2, <2>3 DEF History, Answers, SameBooks
  <2>7. History(c)'  BY <1>2, <2>2, <2>4, <2>6, HistoryKept
  <2> QED  BY <2>5, <2>7 DEF Traffic
<1> QED  BY <1>3, <1>4, <1>6, <1>7 DEF ConnOk

(* A step in the middle of a call, or one that closes or drops the client. *)
LEMMA StepOk ==
    ASSUME LumberjackInv, NEW c \in Conns, ConnOk(c), Calls(c)', Streams(c)',
           outcome'[c] = outcome[c], cpc'[c] \notin {"new", "handshake"},
           InTransit(c) /\ cpc'[c] \in {"idle", "closing"} => Broken(c),
           AtRest(c) => AtRest(c)',
           SameHandler(c), SameBooks(c), Passes(c)
    PROVE  ConnOk(c)'
<1>1. (Broken(c)' <=> Broken(c)) /\ (Healthy(c)' <=> Healthy(c))  BY DEF Broken, Healthy
<1>2. sent'[c] = sent[c]  BY DEF Passes
<1>3. Succeeded(c)' <=> Succeeded(c)  BY <1>2 DEF Succeeded
<1>4. ASSUME Healthy(c)  PROVE Traffic(c)' /\ History(c)'
  <2>1. History(c)  BY <1>4 DEF ConnOk
  <2>2. Answers(c)'  BY <1>2, <2>1 DEF History, Answers, SameBooks
  <2>3. CASE InTransit(c)
    <3>1. ~Succeeded(c)'  BY <1>3, <2>3 DEF InTransit
    <3>2. InTransit(c)'  BY <1>1, <1>4, <2>3, <3>1, TransitOk
    <3>3. History(c)'  BY <1>2, <2>1, <2>2, <3>1, HistoryKept
    <3> QED  BY <3>2, <3>3 DEF Traffic
  <2>4. CASE AtRest(c)
    <3>1. Queued(c) = {} /\ Held(c) = {}  BY <2>4 DEF AtRest, NothingOut
    <3>2. OutIsCurrent(c)'  BY <3>1 DEF OutIsCurrent, SameBooks
    <3>3. InOrderOnce(c)'  BY <1>2, <2>1, SameDelivered DEF History, InOrderOnce
    <3> QED  BY <2>2, <2>4, <3>2, <3>3 DEF Traffic, History
  <2> QED  BY <1>4, <2>3, <2>4 DEF ConnOk, Traffic
<1> QED  BY <1>1, <1>4 DEF ConnOk

(* What is on its way, with its types.                                     *)
LEMMA UnderWay ==
    ASSUME LumberjackInv, NEW c \in Conns, ConnOk(c), NEW j \in Nat, Under(c, j)
    PROVE  /\ c2s[c] \in Seq(FrameSet) /\ wbuf[c] \in Seq(FrameSet)
           /\ tofeed[c] \in Seq(FrameSet) /\ Encoded(c) \in Seq(FrameSet)
           /\ Aligned(c2s[c], wbuf[c], tofeed[c], cEnd[c], Encoded(c), j)
           /\ InSend(c) => j + Len(c2s[c]) + Len(wbuf[c]) + Len(tofeed[c]) = Len(Encoded(c))
<1>1. sent[c] # <<>> /\ OnTheWay(c, j) /\ link[c] # "reset"  BY DEF Under, InTransit
<1>2. Encoded(c) \in Seq(FrameSet)  BY <1>1, CurrentType DEF ConnOk, Calls
<1> QED  BY <1>1, <1>2, TypesAt DEF OnTheWay

(* A client that is there has its end of the stream open.                  *)
LEMMA EndIsOpen ==
    ASSUME LumberjackInv, NEW c \in Conns, ConnOk(c), cpc[c] # "closed"
    PROVE  cEnd[c] = "open"
  BY TypesAt DEF ConnOk, Streams

(* A call that fails forgets what it has not fed.                          *)
LEMMA FailPasses ==
    ASSUME LumberjackInv, NEW c \in Conns, ConnOk(c), InSend(c), cpc'[c] = "idle",
           tofeed'[c] = <<>>, wbuf'[c] = wbuf[c], sent'[c] = sent[c],
           SameLink(c), SamePipes(c)
    PROVE  Passes(c)
<1>1. ~InSend(c)'  BY DEF InSend
<1>2. Waits(c) => Waits(c)'  BY DEF Waits, Drained, SamePipes
<1>3. ASSUME NEW j \in Nat, Under(c, j)
      PROVE  Aligned(c2s'[c], wbuf'[c], tofeed'[c], cEnd'[c], Encoded(c), j)
  <2> DEFINE p == c2s[c]  w == wbuf[c]  t == tofeed[c]  fs == Encoded(c)  end == cEnd[c]
  <2>1. /\ p \in Seq(FrameSet) /\ w \in Seq(FrameSet) /\ t \in Seq(FrameSet)
        /\ fs \in Seq(FrameSet) /\ Aligned(p, w, t, end, fs, j)
    BY <1>3, UnderWay
  <2>2. c2s'[c] = p /\ wbuf'[c] = w /\ tofeed'[c] = <<>> /\ cEnd'[c] = end
    BY DEF SameLink, SamePipes
  <2> HIDE DEF p, w, t, fs, end
  <2>3. Aligned(p, w, <<>>, end, fs, j)  BY <2>1, AlignCut
  <2> QED  BY <2>2, <2>3 DEF fs
<1> QED  BY <1>1, <1>2, <1>3 DEF Passes, SameLink, SamePipes

(* The next frame goes into the write buffer; the rest stays to be fed, or *)
(* is given up because its first frame is too large.                       *)
LEMMA FeedPasses ==
    ASSUME LumberjackInv, NEW c \in Conns, ConnOk(c), cpc[c] = "feed",
           wbuf'[c] = Append(wbuf[c], Head(tofeed[c])), sent'[c] = sent[c],
           \/ tofeed'[c] = Tail(tofeed[c])
           \/ tofeed'[c] = <<>> /\ cpc'[c] = "idle",
           SameLink(c), SamePipes(c)
    PROVE  Passes(c)
<1>1. tofeed[c] # <<>>  BY DEF LumberjackInv, ClientShape
<1>2. ~Waits(c)  BY DEF Waits
<1>3. ASSUME NEW j \in Nat, Under(c, j)
      PROVE  /\ Aligned(c2s'[c], wbuf'[c], tofeed'[c], cEnd'[c], Encoded(c), j)
             /\ InSend(c)' => j + Len(c2s'[c]) + Len(wbuf'[c]) + Len(tofeed'[c])
                                  = Len(Encoded(c))
  <2> DEFINE p == c2s[c]  w == wbuf[c]  t == tofeed[c]  fs == Encoded(c)  end == cEnd[c]
             w2 == Append(w, Head(t))  t2 == Tail(t)
  <2>1. /\ p \in Seq(FrameSet) /\ w \in Seq(FrameSet) /\ t \in Seq(FrameSet)
        /\ fs \in Seq(FrameSet) /\ Aligned(p, w, t, end, fs, j)
    BY <1>3, UnderWay
  <2>2. j + Len(p) + Len(w) + Len(t) = Len(fs)
    BY <1>3, UnderWay DEF InSend
  <2>3. /\ c2s'[c] = p /\ wbuf'[c] = w2 /\ cEnd'[c] = end
        /\ tofeed'[c] = t2 \/ (tofeed'[c] = <<>> /\ cpc'[c] = "idle")
    BY DEF SameLink, SamePipes
  <2>4. t # <<>>  BY <1>1
  <2> HIDE DEF p, w, t, fs, end
  <2>5. w2 \in Seq(FrameSet) /\ t2 \in Seq(FrameSet)  BY <2>1, <2>4
  <2>6. Aligned(p, w2, t2, end, fs, j) /\ Len(w2) + Len(t2) = Len(w) + Len(t)
    BY <2>1, <2>4, AlignFeed
  <2> HIDE DEF w2, t2
  <2>7. Aligned(p, w2, <<>>, end, fs, j)  BY <2>1, <2>5, <2>6, AlignCut
  <2>8. j + Len(p) + Len(w2) + Len(t2) = Len(fs)
    <3>1. Len(p) \in Nat /\ Len(w) \in Nat /\ Len(t) \in Nat /\ Len(w2) \in Nat /\ Len(t2) \in Nat
      BY <2>1, <2>5
    <3> QED  BY <2>2, <2>6, <3>1, SMTT(30)
  <2>9. CASE tofeed'[c] = t2  BY <2>3, <2>6, <2>8, <2>9 DEF fs
  <2>10. CASE tofeed'[c] = <<>> /\ cpc'[c] = "idle"
    BY <2>3, <2>7, <2>10 DEF fs, InSend
  <2> QED  BY <2>3, <2>9, <2>10
<1> QED  BY <1>2, <1>3 DEF Passes, SameLink, SamePipes

(* The first frame of the write buffer goes into the pipe.                 *)
LEMMA WritePasses ==
    ASSUME LumberjackInv, NEW c \in Conns, ConnOk(c), cpc[c] \in {"drain", "flush", "closing"},
           wbuf[c] # <<>>, link[c] # "reset", link'[c] = link[c],
           c2s'[c] = IF sEnd[c] = "closed" THEN c2s[c] ELSE Append(c2s[c], Head(wbuf[c])),
           wbuf'[c] = Tail(wbuf[c]), tofeed'[c] = tofeed[c], sent'[c] = sent[c],
           s2c'[c] \in {s2c[c], <<>>}, InSend(c)' => InSend(c)
    PROVE  Passes(c)
<1>1. ~Waits(c)  BY DEF Waits
<1>2. ASSUME NEW j \in Nat, Under(c, j)
      PROVE  /\ Aligned(c2s'[c], wbuf'[c], tofeed'[c], cEnd'[c], Encoded(c), j)
             /\ InSend(c)' => j + Len(c2s'[c]) + Len(wbuf'[c]) + Len(tofeed'[c])
                                  = Len(Encoded(c))
  <2> DEFINE p == c2s[c]  w == wbuf[c]  t == tofeed[c]  fs == Encoded(c)  end == cEnd'[c]
             p2 == Append(p, Head(w))  w2 == Tail(w)
  <2>1. /\ p \in Seq(FrameSet) /\ w \in Seq(FrameSet) /\ t \in Seq(FrameSet)
        /\ fs \in Seq(FrameSet) /\ Aligned(p, w, t, "open", fs, j)
    BY <1>2, UnderWay, EndIsOpen
  <2>2. InSend(c)' => j + Len(p) + Len(w) + Len(t) = Len(fs)
    BY <1>2, UnderWay
  <2>3. c2s'[c] = p2 /\ wbuf'[c] = w2 /\ tofeed'[c] = t /\ w # <<>>
    BY <1>2 DEF Under
  <2> HIDE DEF p, w, t, fs, end
  <2>4. p2 \in Seq(FrameSet) /\ w2 \in Seq(FrameSet)  BY <2>1, <2>3
  <2>5. Aligned(p2, w2, t, end, fs, j) /\ Len(p2) + Len(w2) = Len(p) + Len(w)
    BY <2>1, <2>3, AlignWrite
  <2> HIDE DEF p2, w2
  <2>6. InSend(c)' => j + Len(p2) + Len(w2) + Len(t) = Len(fs)
    <3>1. Len(p) \in Nat /\ Len(w) \in Nat /\ Len(t) \in Nat /\ Len(w2) \in Nat /\ Len(p2) \in Nat
      BY <2>1, <2>4
    <3> QED  BY <2>2, <2>5, <3>1
  <2> QED  BY <2>3, <2>5, <2>6 DEF fs, end
<1> QED  BY <1>1, <1>2 DEF Passes

(* A client that goes leaves frames behind it, or the beginning of one.    *)
LEMMA GoPasses ==
    ASSUME LumberjackInv, NEW c \in Conns, ConnOk(c), cpc[c] # "closed",
           cpc'[c] \in {"closed", "closing"}, cpc'[c] = "closing" => wbuf[c] # <<>>,
           link'[c] = link[c], sent'[c] = sent[c], s2c'[c] \in {s2c[c], <<>>},
           cpc'[c] = "closing" => cEnd'[c] = cEnd[c], cpc'[c] = "closed" => cEnd'[c] = "closed",
           \/ wbuf'[c] = wbuf[c] /\ tofeed'[c] = tofeed[c] /\ c2s'[c] = c2s[c]
           \/ /\ wbuf'[c] = <<>> /\ tofeed'[c] = <<>> /\ cpc'[c] = "closed"
              /\ \/ c2s'[c] = c2s[c]
                 \/ /\ wbuf[c] # <<>> /\ link[c] # "reset" /\ sEnd[c] = "open"
                    /\ c2s'[c] = Append(c2s[c], Bad("Io"))
    PROVE  Passes(c)
<1>1. ~InSend(c)'  BY DEF InSend
<1>2. Waits(c) => Waits(c)'  BY DEF Waits, Drained
<1>3. sEnd[c] = "closed" \/ link[c] = "reset" => c2s'[c] = c2s[c]  OBVIOUS
<1>4. ASSUME NEW j \in Nat, Under(c, j)
      PROVE  Aligned(c2s'[c], wbuf'[c], tofeed'[c], cEnd'[c], Encoded(c), j)
  <2> DEFINE p == c2s[c]  w == wbuf[c]  t == tofeed[c]  fs == Encoded(c)  end == cEnd'[c]
  <2>1. /\ p \in Seq(FrameSet) /\ w \in Seq(FrameSet) /\ t \in Seq(FrameSet)
        /\ fs \in Seq(FrameSet) /\ Aligned(p, w, t, "open", fs, j)
    BY <1>4, UnderWay, EndIsOpen
  <2>2. \/ wbuf'[c] = w /\ tofeed'[c] = t /\ c2s'[c] = p
        \/ /\ wbuf'[c] = <<>> /\ tofeed'[c] = <<>> /\ end = "closed"
           /\ c2s'[c] = p \/ (w # <<>> /\ c2s'[c] = Append(p, Bad("Io")))
    OBVIOUS
  <2> HIDE DEF p, w, t, fs, end
  <2>3. Aligned(p, w, t, end, fs, j)  BY <2>1 DEF Aligned
  <2>4. /\ Aligned(p, <<>>, <<>>, "closed", fs, j)
        /\ w # <<>> => Aligned(Append(p, Bad("Io")), <<>>, <<>>, "closed", fs, j)
    BY <2>1, AlignDrop
  <2> QED  BY <2>2, <2>3, <2>4 DEF fs, end
<1> QED  BY <1>1, <1>2, <1>3, <1>4 DEF Passes

(* connect, and the client's half of the TLS handshake.                    *)
LEMMA BeginOk ==
    ASSUME LumberjackInv, NEW c \in Conns, ConnOk(c), cpc[c] \in {"new", "handshake"},
           cpc'[c] \in {"handshake", "idle", "closed"},
           cEnd'[c] = IF cpc'[c] = "closed" THEN "closed" ELSE cEnd[c],
           link'[c] = link[c] \/ (cpc[c] = "new" /\ link'[c] = "backlog"),
           sEnd'[c] = sEnd[c], SamePipes(c), SameHandler(c), SameBooks(c),
           wbuf'[c] = wbuf[c], tofeed'[c] = tofeed[c], sent'[c] = sent[c],
           outcome'[c] = outcome[c]
    PROVE  ConnOk(c)'
<1>1. sent[c] = <<>> /\ Len(outcome[c]) = Len(sent[c]) /\ Numbered(c)
  BY DEF ConnOk, Calls
<1>2. outcome[c] = <<>>
  <2>1. outcome[c] \in Seq(Results)  BY TypesAt
  <2> QED  BY <1>1, <2>1
<1>3. ~Broken(c)  BY <1>2 DEF Broken
<1>4. Healthy(c) /\ ~InTransit(c)  BY <1>3 DEF Healthy, InTransit
<1>5. AtRest(c) /\ History(c)  BY <1>4 DEF ConnOk, Traffic
<1>6. Calls(c)'
  <2>1. Numbered(c)'  BY <1>1 DEF Numbered
  <2>2. ~InSend(c)'  BY DEF InSend
  <2>3. Len(sent'[c]) \in Nat  BY <1>1
  <2> QED  BY <1>1, <2>1, <2>2, <2>3 DEF Calls
<1>7. s2c[c] = <<>> /\ c2s[c] = <<>>  BY <1>5 DEF AtRest, Drained
<1>8. Streams(c)'
  <2>1. cpc'[c] = "closed" <=> cEnd'[c] = "closed"  BY EndIsOpen
  <2> QED  BY <1>7, <2>1 DEF ConnOk, Streams, SamePipes, SameHandler
<1>9. AtRest(c)'  BY <1>5, RestOk DEF SamePipes
<1>10. History(c)'
  <2>1. Answers(c)'  BY <1>5 DEF History, Answers, SameBooks
  <2>2. Succeeded(c)' <=> Succeeded(c)  BY DEF Succeeded
  <2>3. Queued(c) = {} /\ Held(c) = {}  BY <1>5 DEF AtRest, NothingOut
  <2>4. OutIsCurrent(c)'  BY <2>3 DEF OutIsCurrent, SameBooks
  <2>5. InOrderOnce(c)'  BY <1>5, SameDelivered DEF History, InOrderOnce
  <2> QED  BY <2>1, <2>4, <2>5 DEF History
<1> QED  BY <1>6, <1>8, <1>9, <1>10 DEF ConnOk, Traffic

(* close returns, or has to write first; close fails; the client is        *)
(* dropped, in the middle of a call or not.                                *)
LEMMA GoOk ==
    ASSUME LumberjackInv, NEW c \in Conns, ConnOk(c), cpc[c] # "closed",
           SameHandler(c), SameBooks(c), Close(c) \/ CloseFails(c) \/ Drop(c)
    PROVE  ConnOk(c)'
<1>1. TransportTypeOK /\ ClientTypeOK  BY DEF LumberjackInv, ServerInv, ServerTypes
<1>2. /\ cpc'[c] \in {"closed", "closing"}
      /\ cpc'[c] = "closing" => cpc[c] = "idle" /\ wbuf[c] # <<>> /\ wbuf'[c] = wbuf[c]
      /\ link'[c] = link[c] /\ sEnd'[c] = sEnd[c] /\ sent'[c] = sent[c]
      /\ outcome'[c] = outcome[c]
      /\ s2c'[c] \in {s2c[c], <<>>} /\ (cpc'[c] = "closed" => s2c'[c] = <<>>)
      /\ cpc'[c] = "closing" => cEnd'[c] = cEnd[c]
      /\ cpc'[c] = "closed" => cEnd'[c] = "closed"
    BY <1>1 DEF Close, CloseFails, Drop, TransportTypeOK, ClientTypeOK
<1>3. \/ wbuf'[c] = wbuf[c] /\ tofeed'[c] = tofeed[c] /\ c2s'[c] = c2s[c]
      \/ /\ wbuf'[c] = <<>> /\ tofeed'[c] = <<>> /\ cpc'[c] = "closed"
         /\ \/ c2s'[c] = c2s[c]
            \/ /\ wbuf[c] # <<>> /\ link[c] # "reset" /\ sEnd[c] = "open"
               /\ c2s'[c] = Append(c2s[c], Bad("Io"))
  <2>1. CASE Close(c) \/ CloseFails(c)  BY <2>1 DEF Close, CloseFails
  <2>2. CASE Drop(c)
    <3>1. wbuf'[c] = <<>> /\ tofeed'[c] = <<>> /\ cpc'[c] = "closed"
      BY <1>1, <2>2 DEF Drop, ClientTypeOK
    <3>2. \/ c2s'[c] = c2s[c]
          \/ /\ wbuf[c] # <<>> /\ link[c] # "reset" /\ sEnd[c] = "open"
             /\ c2s'[c] = Append(c2s[c], Bad("Io"))
      BY <1>1, <2>2 DEF Drop, Writable, Written, TransportTypeOK, Ends
    <3> QED  BY <3>1, <3>2
  <2> QED  BY <2>1, <2>2
<1>4. Passes(c)  BY <1>2, <1>3, GoPasses
<1>5. Calls(c)'
  <2>1. Numbered(c)' /\ ~InSend(c)'  BY <1>2 DEF ConnOk, Calls, Numbered, InSend
  <2> QED  BY <1>2, <2>1 DEF ConnOk, Calls
<1>6. Streams(c)'
  <2>1. cpc'[c] = "closed" <=> cEnd'[c] = "closed"  BY <1>2, EndIsOpen
  <2>2. sEnd[c] = "closed" \/ link[c] = "reset" => c2s'[c] = c2s[c]  BY <1>3
  <2> QED  BY <1>2, <2>1, <2>2 DEF ConnOk, Streams, SameHandler
<1>7. AtRest(c) => AtRest(c)'
  <2>1. ASSUME AtRest(c)  PROVE AtRest(c)'
    <3>1. wbuf[c] = <<>>  BY <2>1 DEF AtRest, Drained
    <3>2. cpc'[c] = "closed" /\ c2s'[c] = c2s[c]  BY <1>2, <1>3, <3>1
    <3> QED  BY <1>2, <1>3, <2>1, <3>2, RestOk
  <2> QED  BY <2>1
<1>8. InTransit(c) /\ cpc'[c] \in {"idle", "closing"} => Broken(c)
  BY <1>2 DEF InTransit
<1> QED  BY <1>2, <1>4, <1>5, <1>6, <1>7, <1>8, StepOk

(* Errors other than Serialization end the use of a Client.                *)
LEMMA FatalErrors ==
    {"Io", "WriteTimeout", "AckTimeout", "ConnectionClosed", "FrameTooLarge", "Cancelled"}
        \subseteq Errors \ {"Serialization"}
  BY DEF Errors

(* A write fails or takes too long; the stream ends or breaks while the    *)
(* client waits, or the Ack does not come in time.                         *)
LEMMA FailsOk ==
    ASSUME LumberjackInv, NEW c \in Conns, ConnOk(c), SameHandler(c), SameBooks(c),
           WriteError(c) \/ WriteTimeout(c) \/ ReceiveEnd(c) \/ AckTimeout(c) \/ Cancel(c)
    PROVE  ConnOk(c)'
<1>1. PICK e \in Errors \ {"Serialization"} : Return(c, Err(e))
  BY FatalErrors DEF WriteError, WriteTimeout, WriteTimed, ReceiveEnd, AckTimeout, AckTimed, Cancel
<1>2. InSend(c) /\ wbuf'[c] = wbuf[c] /\ sent'[c] = sent[c] /\ SameLink(c) /\ SamePipes(c)
  BY DEF WriteError, WriteTimeout, WriteTimed, ReceiveEnd, AckTimeout, AckTimed, Cancel,
         InSend, transportVars, SameLink,
         SamePipes
<1>3. cpc'[c] = "idle" /\ outcome'[c] = Append(outcome[c], Err(e)) /\ tofeed'[c] = <<>>
  BY <1>1 DEF Return, LumberjackInv, ClientTypeOK
<1>4. Passes(c)  BY <1>2, <1>3, FailPasses
<1> QED  BY <1>2, <1>3, <1>4, FailOk

(* The client feeds the next frame.                                        *)
LEMMA FeedOk ==
    ASSUME LumberjackInv, NEW c \in Conns, ConnOk(c), SameHandler(c), SameBooks(c), Feed(c)
    PROVE  ConnOk(c)'
<1>1. ClientTypeOK  BY DEF LumberjackInv
<1>2. /\ cpc[c] = "feed" /\ sent'[c] = sent[c] /\ SameLink(c) /\ SamePipes(c)
      /\ wbuf'[c] = Append(wbuf[c], Head(tofeed[c])) /\ InSend(c)
  BY <1>1 DEF Feed, FeedOn, transportVars, SameLink, SamePipes, ClientTypeOK, InSend
<1>3. CASE Return(c, Err("FrameTooLarge"))
  <2>1. PICK e \in Errors \ {"Serialization"} : e = "FrameTooLarge"  BY FatalErrors
  <2>2. cpc'[c] = "idle" /\ outcome'[c] = Append(outcome[c], Err(e)) /\ tofeed'[c] = <<>>
    BY <1>1, <1>3, <2>1 DEF Return, ClientTypeOK
  <2>3. Passes(c)  BY <1>2, <2>2, FeedPasses
  <2> QED  BY <1>2, <2>2, <2>3, FailOk
<1>4. CASE ~Return(c, Err("FrameTooLarge"))
  <2>1. /\ tofeed'[c] = Tail(tofeed[c]) /\ outcome'[c] = outcome[c]
        /\ cpc'[c] \in {"flush", "drain", "feed"}
    BY <1>1, <1>4 DEF Feed, FeedOn, ClientTypeOK
  <2>2. Passes(c)  BY <1>2, <2>1, FeedPasses
  <2>3. Calls(c)'
    <3>1. Numbered(c)' /\ InSend(c)'  BY <1>2, <2>1 DEF ConnOk, Calls, Numbered, InSend
    <3>2. wbuf'[c] # <<>>
      <4>1. wbuf[c] \in Seq(FrameSet) /\ tofeed[c] \in Seq(FrameSet) /\ tofeed[c] # <<>>
        BY <1>2, TypesAt DEF LumberjackInv, ClientShape
      <4>2. Head(tofeed[c]) \in FrameSet  BY <4>1
      <4>3. Len(Append(wbuf[c], Head(tofeed[c]))) = Len(wbuf[c]) + 1 /\ Len(wbuf[c]) \in Nat
        BY <4>1, <4>2, AppendProperties
      <4> QED  BY <1>2, <4>3
    <3> QED  BY <1>2, <2>1, <3>1, <3>2 DEF ConnOk, Calls
  <2>4. Streams(c)'  BY <1>2, <2>1 DEF ConnOk, Streams, SameLink, SamePipes, SameHandler
  <2>5. ~AtRest(c)  BY <1>2 DEF AtRest
  <2> QED  BY <2>1, <2>2, <2>3, <2>4, <2>5, StepOk
<1> QED  BY <1>3, <1>4

(* The client writes a frame out.                                          *)
LEMMA WriteOutOk ==
    ASSUME LumberjackInv, NEW c \in Conns, ConnOk(c), SameHandler(c), SameBooks(c), WriteOut(c)
    PROVE  ConnOk(c)'
<1>1. ClientTypeOK /\ TransportTypeOK  BY DEF LumberjackInv, ServerInv, ServerTypes
<1>2. /\ cpc[c] \in {"drain", "flush", "closing"} /\ wbuf[c] # <<>> /\ link[c] # "reset"
      /\ link'[c] = link[c] /\ sEnd'[c] = sEnd[c]
      /\ tofeed'[c] = tofeed[c] /\ sent'[c] = sent[c] /\ outcome'[c] = outcome[c]
      /\ wbuf'[c] = Tail(wbuf[c])
  BY <1>1 DEF WriteOut, Writable, ClientTypeOK
<1>3. c2s'[c] = IF sEnd[c] = "closed" THEN c2s[c] ELSE Append(c2s[c], Head(wbuf[c]))
  BY <1>1 DEF WriteOut, Written, TransportTypeOK
<1>4. cpc'[c] = IF Len(wbuf[c]) = 1 THEN WhenWritten(cpc[c]) ELSE cpc[c]
  BY <1>1 DEF WriteOut, ClientTypeOK
<1>5. /\ WhenWritten("drain") = "feed" /\ WhenWritten("flush") = "wait"
      /\ WhenWritten("closing") = "closed"
  BY DEF WhenWritten
<1>6. /\ cpc[c] = "drain" => cpc'[c] \in {"drain", "feed"}
      /\ cpc[c] = "flush" => cpc'[c] \in {"flush", "wait"}
      /\ cpc[c] = "closing" => cpc'[c] \in {"closing", "closed"}
      /\ cpc'[c] \in {"flush", "closing"} => Len(wbuf[c]) # 1
  BY <1>2, <1>4, <1>5
<1>7. /\ cpc'[c] = "closed" => cEnd'[c] = "closed" /\ s2c'[c] = <<>>
      /\ cpc'[c] # "closed" => cEnd'[c] = cEnd[c] /\ s2c'[c] = s2c[c]
  BY <1>1 DEF WriteOut, TransportTypeOK
<1>8. (InSend(c)' <=> InSend(c)) /\ s2c'[c] \in {s2c[c], <<>>}
  BY <1>2, <1>6, <1>7 DEF InSend
<1>9. Passes(c)  BY <1>2, <1>3, <1>8, WritePasses
<1>10. Calls(c)'
  <2>1. Numbered(c)'  BY <1>2 DEF ConnOk, Calls, Numbered
  <2>2. cpc'[c] \in {"flush", "closing"} => wbuf'[c] # <<>>
    <3>1. wbuf[c] \in Seq(FrameSet)  BY TypesAt
    <3>2. Len(Tail(wbuf[c])) = Len(wbuf[c]) - 1 /\ Len(wbuf[c]) \in Nat /\ Len(wbuf[c]) > 0
      BY <1>2, <3>1, HeadTailProperties
    <3> DEFINE w2 == wbuf'[c]
               n == Len(wbuf[c])
    <3>3. Len(w2) = n - 1 /\ n \in Nat /\ n > 0  BY <1>2, <3>2
    <3>4. cpc'[c] \in {"flush", "closing"} => n # 1  BY <1>6
    <3> HIDE DEF w2, n
    <3>5. w2 = <<>> => n = 1  BY <3>3
    <3> QED  BY <3>4, <3>5 DEF w2
  <2>3. /\ cpc'[c] \in {"new", "handshake", "idle", "closing"} => cpc[c] = "closing"
        /\ cpc'[c] \notin {"new", "handshake"}
    BY <1>2, <1>6
  <2>4. outcome'[c] = outcome[c] /\ sent'[c] = sent[c]  BY <1>2
  <2> QED  BY <1>8, <2>1, <2>2, <2>3, <2>4 DEF ConnOk, Calls
<1>11. Streams(c)'
  <2>1. cpc'[c] = "closed" <=> cEnd'[c] = "closed"  BY <1>2, <1>7, EndIsOpen
  <2> QED  BY <1>2, <1>3, <1>7, <2>1 DEF ConnOk, Streams, SameHandler
<1>12. ~AtRest(c)  BY <1>2 DEF AtRest
<1>13. InTransit(c) /\ cpc'[c] \in {"idle", "closing"} => Broken(c)
  BY <1>2, <1>6 DEF InTransit
<1>14. cpc'[c] \notin {"new", "handshake"}  BY <1>2, <1>6
<1> QED  BY <1>2, <1>9, <1>10, <1>11, <1>12, <1>13, <1>14, StepOk

(* The events of a batch are numbered by the call.                         *)
LEMMA EventsNumbered ==
    ASSUME NEW k \in Nat, NEW sizes \in Batches
    PROVE  /\ EventsOf(k, sizes) \in Seq(Event) /\ Len(EventsOf(k, sizes)) = Len(sizes)
           /\ Len(EventsOf(k, sizes)) < U32
           /\ \A i \in DOMAIN EventsOf(k, sizes) : EventsOf(k, sizes)[i].send = k
           /\ EventsOf(k, sizes) = <<>> <=> sizes = <<>>
<1>1. sizes \in Seq(Nat) /\ Len(sizes) < U32  BY ClientAssumption
<1>2. EventsOf(k, sizes) \in Seq(Event)  BY <1>1, EventsType
<1>3. DOMAIN EventsOf(k, sizes) = 1..Len(sizes) /\ Len(sizes) \in Nat
  BY <1>1 DEF EventsOf
<1>4. Len(EventsOf(k, sizes)) = Len(sizes)  BY <1>2, <1>3
<1>5. \A i \in DOMAIN EventsOf(k, sizes) : EventsOf(k, sizes)[i].send = k
  BY <1>3 DEF EventsOf
<1>6. EventsOf(k, sizes) = <<>> <=> sizes = <<>>
  <2> DEFINE e == EventsOf(k, sizes)
  <2>1. e \in Seq(Event) /\ Len(e) = Len(sizes)  BY <1>2, <1>4
  <2> HIDE DEF e
  <2>2. e = <<>> <=> Len(e) = 0  BY <2>1
  <2>3. sizes = <<>> <=> Len(sizes) = 0  BY <1>1
  <2> QED  BY <2>1, <2>2, <2>3 DEF e
<1> QED  BY <1>1, <1>2, <1>4, <1>5, <1>6

(* What was delivered was delivered before the next call.                  *)
LEMMA OrderedLonger ==
    ASSUME NEW d \in Seq(Seq(Event)), NEW s \in Seq(Seq(Event)), NEW e \in Seq(Event),
           Ordered(d, s)
    PROVE  Ordered(d, Append(s, e)) /\ AllBefore(d, Len(Append(s, e)))
<1> DEFINE s2 == Append(s, e)
<1>1. /\ Len(s2) = Len(s) + 1 /\ DOMAIN s2 = DOMAIN s \cup {Len(s) + 1}
      /\ \A k \in DOMAIN s : s2[k] = s[k]
      /\ DOMAIN s = 1..Len(s) /\ Len(s) \in Nat
  BY OneMoreSent
<1> HIDE DEF s2
<1>2. ASSUME NEW i \in DOMAIN d
      PROVE  /\ d[i] # <<>> /\ SendOf(d[i]) \in DOMAIN s2 /\ d[i] = s2[SendOf(d[i])]
             /\ SendOf(d[i]) < Len(s2)
  <2>1. PICK k \in DOMAIN s : k = SendOf(d[i])  BY DEF Ordered
  <2>2. d[i] # <<>> /\ d[i] = s[k]  BY <2>1 DEF Ordered
  <2>3. k \in DOMAIN s2 /\ s2[k] = s[k] /\ k < Len(s2)  BY <1>1, <2>1
  <2> QED  BY <2>1, <2>2, <2>3
<1>3. Ordered(d, s2)  BY <1>2 DEF Ordered
<1>4. AllBefore(d, Len(s2))  BY <1>2 DEF AllBefore
<1> QED  BY <1>3, <1>4 DEF s2

(* A new call of send, on a Client that may be used.                       *)
Calling(c, e) == /\ MaySend(c) /\ sent'[c] = Append(sent[c], e)
                 /\ \E sizes \in Batches : e = EventsOf(Len(sent[c]) + 1, sizes)

LEMMA NewCall ==
    ASSUME LumberjackInv, NEW c \in Conns, ConnOk(c), NEW e, Calling(c, e),
           SameBooks(c), SameHandler(c)
    PROVE  /\ e \in Seq(Event) /\ Len(e) < U32
           /\ sent'[c] # <<>> /\ Current(c)' = e /\ Len(sent'[c]) = Len(sent[c]) + 1
           /\ \A k \in DOMAIN sent[c] : sent'[c][k] = sent[c][k]
           /\ Numbered(c)' /\ Len(sent[c]) \in Nat
           /\ Len(outcome[c]) = Len(sent[c]) /\ DOMAIN outcome[c] = DOMAIN sent[c]
           /\ Healthy(c) => /\ AtRest(c) /\ ~Broken(c) /\ History(c)
                            /\ Fresh(c)' /\ OutIsCurrent(c)' /\ InOrderOnce(c)'
<1> DEFINE s == sent[c]
           s2 == Append(s, e)
<1>1. s \in Seq(Seq(Event)) /\ outcome[c] \in Seq(Results)  BY TypesAt
<1>2. Len(s) \in Nat /\ Len(s) + 1 \in Nat  BY <1>1
<1>3. PICK sizes \in Batches : e = EventsOf(Len(s) + 1, sizes)  BY DEF Calling
<1>4. e \in Seq(Event) /\ Len(e) < U32 /\ \A i \in DOMAIN e : e[i].send = Len(s) + 1
  BY <1>2, <1>3, EventsNumbered
<1>5. sent'[c] = s2 /\ MaySend(c)  BY DEF Calling
<1> HIDE DEF s
<1>6. /\ Len(s2) = Len(s) + 1 /\ s2[Len(s) + 1] = e /\ DOMAIN s2 = DOMAIN s \cup {Len(s) + 1}
      /\ \A k \in DOMAIN s : s2[k] = s[k]
      /\ s2 # <<>> /\ DOMAIN s = 1..Len(s)
  BY <1>1, <1>4, OneMoreSent
<1> HIDE DEF s2
<1>7. Current(c)' = e  BY <1>5, <1>6 DEF Current
<1>8. Numbered(c)'
  <2>1. Numbered(c)  BY DEF ConnOk, Calls
  <2>2. ASSUME NEW k \in DOMAIN s2
        PROVE  Len(s2[k]) < U32 /\ \A i \in DOMAIN s2[k] : s2[k][i].send = k
    <3>1. CASE k \in DOMAIN s  BY <1>6, <2>1, <3>1 DEF Numbered, s
    <3>2. CASE k = Len(s) + 1  BY <1>4, <1>6, <3>2
    <3> QED  BY <1>6, <3>1, <3>2
  <2> QED  BY <1>5, <2>2 DEF Numbered
<1>9. Len(outcome[c]) = Len(s)  BY <1>5 DEF ConnOk, Calls, MaySend, s
<1>10. DOMAIN outcome[c] = DOMAIN s
  <2>1. DOMAIN outcome[c] = 1..Len(outcome[c])  BY <1>1
  <2> QED  BY <1>6, <1>9, <2>1
<1>11. ASSUME Healthy(c)
       PROVE  /\ AtRest(c) /\ ~Broken(c) /\ History(c)
              /\ Fresh(c)' /\ OutIsCurrent(c)' /\ InOrderOnce(c)'
  <2>1. ~Broken(c) /\ cpc[c] = "idle"  BY <1>5, <1>11 DEF Healthy, MaySend
  <2>2. AtRest(c) /\ History(c)  BY <1>11, <2>1 DEF ConnOk, Traffic, InTransit
  <2>3. Queued(c)' = {} /\ Held(c)' = {}  BY <2>2 DEF AtRest, NothingOut, SameBooks
  <2>4. OutIsCurrent(c)'  BY <2>3 DEF OutIsCurrent
  <2> DEFINE d == Delivered(c)
  <2>5. d \in Seq(Seq(Event)) /\ Ordered(d, s) /\ Delivered(c)' = d
    BY <2>2, DeliveredType, SameDelivered DEF History, InOrderOnce, s
  <2> HIDE DEF d
  <2>6. Ordered(d, s2) /\ AllBefore(d, Len(s2))
    BY <1>1, <1>4, <2>5, OrderedLonger DEF s2
  <2> QED  BY <1>5, <2>1, <2>2, <2>4, <2>5, <2>6 DEF Fresh, InOrderOnce
<1> QED  BY <1>2, <1>4, <1>5, <1>6, <1>7, <1>8, <1>9, <1>10, <1>11 DEF s

(* A call that returns at once, with no events or none of them written.    *)
LEMMA AtOnceOk ==
    ASSUME LumberjackInv, NEW c \in Conns, ConnOk(c), NEW e, Calling(c, e),
           NEW r \in Results, r.err \in {"none", "Serialization"}, r.ok => e = <<>>,
           cpc'[c] = "idle", outcome'[c] = Append(outcome[c], r), wbuf'[c] = wbuf[c],
           tofeed'[c] = <<>>, SameLink(c), SamePipes(c), SameHandler(c), SameBooks(c)
    PROVE  ConnOk(c)'
<1>1. /\ Current(c)' = e /\ Len(sent'[c]) = Len(sent[c]) + 1 /\ Len(sent[c]) \in Nat
      /\ \A k \in DOMAIN sent[c] : sent'[c][k] = sent[c][k]
      /\ Numbered(c)' /\ Len(outcome[c]) = Len(sent[c]) /\ DOMAIN outcome[c] = DOMAIN sent[c]
      /\ Healthy(c) => /\ AtRest(c) /\ ~Broken(c) /\ History(c)
                       /\ OutIsCurrent(c)' /\ InOrderOnce(c)'
  BY NewCall
<1>2. cpc[c] = "idle"  BY DEF Calling, MaySend
<1>3. Healthy(c)' => Healthy(c)  BY BrokenGrows
<1> DEFINE o == outcome[c]
           o2 == Append(o, r)
<1>4. o \in Seq(Results)  BY TypesAt
<1>5. outcome'[c] = o2  OBVIOUS
<1> HIDE DEF o
<1>6. /\ Len(o2) = Len(o) + 1 /\ o2[Len(o) + 1] = r /\ DOMAIN o2 = DOMAIN o \cup {Len(o) + 1}
      /\ \A k \in DOMAIN o : o2[k] = o[k]
  BY <1>4, OneMoreResult
<1> HIDE DEF o2
<1>7. Len(outcome'[c]) = Len(sent'[c]) /\ Len(sent'[c]) \in Nat  BY <1>1, <1>5, <1>6 DEF o
<1>8. Calls(c)'
  <2>1. ~InSend(c)'  BY DEF InSend
  <2> QED  BY <1>1, <1>7, <2>1 DEF Calls
<1>9. Streams(c)'
  BY <1>2 DEF ConnOk, Streams, SameLink, SamePipes, SameHandler
<1>10. ASSUME Healthy(c)  PROVE Traffic(c)' /\ History(c)'
  <2>1. AtRest(c) /\ History(c) /\ OutIsCurrent(c)' /\ InOrderOnce(c)'  BY <1>1, <1>10
  <2>2. AtRest(c)'  BY <2>1, RestOk DEF SamePipes
  <2>3. Answers(c)'
    <3>1. ASSUME NEW k \in DOMAIN o2, o2[k].ok, sent'[c][k] # <<>>
          PROVE  /\ o2[k].n = Len(sent'[c][k])
                 /\ sent'[c][k] \in Range(got'[c]) \cup Range(lost'[c])
      <4>1. CASE k \in DOMAIN o
        <5>1. o2[k] = o[k] /\ sent'[c][k] = sent[c][k]  BY <1>1, <1>6, <4>1 DEF o
        <5> QED  BY <2>1, <3>1, <4>1, <5>1 DEF History, Answers, SameBooks, o
      <4>2. CASE k = Len(o) + 1
        <5>1. o2[k] = r /\ k = Len(sent'[c])  BY <1>1, <1>6, <4>2 DEF o
        <5>2. sent'[c][k] = e  BY <1>1, <5>1 DEF Current
        <5> QED  BY <3>1, <5>1, <5>2
      <4> QED  BY <1>6, <4>1, <4>2
    <3> QED  BY <1>5, <3>1 DEF Answers
  <2> QED  BY <2>1, <2>2, <2>3 DEF Traffic, History
<1> QED  BY <1>3, <1>8, <1>9, <1>10 DEF ConnOk

(* A call with events begins: its frames are to be fed.                    *)
LEMMA BeginSendOk ==
    ASSUME LumberjackInv, NEW c \in Conns, ConnOk(c), NEW e, Calling(c, e), e # <<>>,
           cpc'[c] \in {"feed", "drain"}, outcome'[c] = outcome[c], wbuf'[c] = wbuf[c],
           tofeed'[c] = BatchFrames(c, e),
           SameLink(c), SamePipes(c), SameHandler(c), SameBooks(c)
    PROVE  ConnOk(c)'
<1>1. /\ e \in Seq(Event) /\ Len(e) < U32
      /\ sent'[c] # <<>> /\ Current(c)' = e /\ Len(sent'[c]) = Len(sent[c]) + 1
      /\ Len(sent[c]) \in Nat
      /\ \A k \in DOMAIN sent[c] : sent'[c][k] = sent[c][k]
      /\ Numbered(c)' /\ Len(outcome[c]) = Len(sent[c]) /\ DOMAIN outcome[c] = DOMAIN sent[c]
      /\ Healthy(c) => /\ AtRest(c) /\ ~Broken(c) /\ History(c)
                       /\ Fresh(c)' /\ OutIsCurrent(c)' /\ InOrderOnce(c)'
  BY NewCall
<1>2. cpc[c] = "idle"  BY DEF Calling, MaySend
<1>3. (Broken(c)' <=> Broken(c)) /\ (Healthy(c)' <=> Healthy(c))  BY DEF Broken, Healthy
<1>4. Calls(c)'
  <2>1. Len(outcome'[c]) <= Len(sent'[c]) /\ Len(outcome'[c]) + 1 = Len(sent'[c])  BY <1>1
  <2> QED  BY <1>1, <2>1 DEF Calls
<1>5. Streams(c)'
  BY <1>2 DEF ConnOk, Streams, SameLink, SamePipes, SameHandler
<1>6. ~Succeeded(c)'
  <2>1. Len(outcome'[c]) # Len(sent'[c])  BY <1>1
  <2> QED  BY <2>1 DEF Succeeded
<1>7. ASSUME Healthy(c)  PROVE Traffic(c)' /\ History(c)'
  <2>1. AtRest(c) /\ History(c) /\ Fresh(c)' /\ OutIsCurrent(c)' /\ InOrderOnce(c)'
    BY <1>1, <1>7
  <2>2. Answers(c)'
    <3>1. ASSUME NEW k \in DOMAIN outcome[c], outcome[c][k].ok, sent'[c][k] # <<>>
          PROVE  /\ outcome[c][k].n = Len(sent'[c][k])
                 /\ sent'[c][k] \in Range(got'[c]) \cup Range(lost'[c])
      <4>1. sent'[c][k] = sent[c][k]  BY <1>1
      <4> QED  BY <2>1, <3>1, <4>1 DEF History, Answers, SameBooks
    <3> QED  BY <3>1 DEF Answers
  <2>3. /\ NothingOut(c)' /\ s2c'[c] = <<>> /\ c2s'[c] = <<>> /\ wbuf'[c] = <<>>
    BY <2>1 DEF AtRest, NothingOut, Drained, SameBooks, SameHandler, SamePipes
  <2>4. OnTheWay(c, 0)'
    <3> DEFINE fs == BatchFrames(c, e)
    <3>1. fs \in Seq(FrameSet) /\ Encoded(c)' = fs /\ tofeed'[c] = fs
      BY <1>1, FramesOfBatch DEF Encoded
    <3> HIDE DEF fs
    <3>2. /\ Aligned(<<>>, <<>>, fs, cEnd'[c], fs, 0)
          /\ 0 + Len(<<>>) + Len(<<>>) + Len(fs) = Len(fs)
      <4>1. Len(fs) \in Nat /\ Len(<<>>) = 0  BY <3>1
      <4>2. \A i \in DOMAIN fs : 0 + 0 + 0 + i = i  BY <3>1
      <4> QED  BY <4>1, <4>2 DEF Aligned
    <3> QED  BY <2>1, <2>3, <3>1, <3>2 DEF OnTheWay
  <2>5. Unread(c)' \/ Ended(c)'
    <3>1. spc'[c] \in {"none", "handshake", "window", "ending", "done"}
      BY <2>1 DEF AtRest, SameHandler
    <3> QED  BY <2>3, <2>4, <3>1 DEF Unread, Ended
  <2>6. InTransit(c)'  BY <1>1, <1>6, <2>5 DEF InTransit
  <2> QED  BY <2>1, <2>2, <2>6 DEF Traffic, History
<1> QED  BY <1>3, <1>4, <1>5, <1>7 DEF ConnOk

(* A call of send begins.                                                  *)
LEMMA SendOk ==
    ASSUME LumberjackInv, NEW c \in Conns, ConnOk(c), NEW sizes \in Batches,
           SameHandler(c), SameBooks(c), Send(c, sizes)
    PROVE  ConnOk(c)'
<1>1. PICK e : e = EventsOf(Len(sent[c]) + 1, sizes)  OBVIOUS
<1>2. ClientTypeOK  BY DEF LumberjackInv
<1>3. Calling(c, e)  BY <1>1, <1>2 DEF Send, Calling, ClientTypeOK
<1>4. SameLink(c) /\ SamePipes(c)  BY DEF Send, SameLink, SamePipes, transportVars
<1>5. e = <<>> <=> sizes = <<>>
  <2>1. Len(sent[c]) + 1 \in Nat  BY TypesAt
  <2> QED  BY <1>1, <2>1, EventsNumbered
<1>6. CASE sizes = <<>>
  <2>1. PICK r \in Results : r = Ok(0)  BY ResultTypes
  <2>2. r.err = "none"  BY <2>1 DEF Ok
  <2>3. Return(c, r) /\ wbuf' = wbuf  BY <1>6, <2>1 DEF Send
  <2>4. /\ cpc'[c] = "idle" /\ outcome'[c] = Append(outcome[c], r) /\ tofeed'[c] = <<>>
        /\ wbuf'[c] = wbuf[c]
    BY <1>2, <2>3 DEF Return, ClientTypeOK
  <2> QED  BY <1>3, <1>4, <1>5, <1>6, <2>2, <2>4, AtOnceOk
<1>7. CASE sizes # <<>>
  <2>1. FeedOn(c, wbuf[c], BatchFrames(c, e))  BY <1>1, <1>7 DEF Send
  <2>2. e \in Seq(Event) /\ Len(e) < U32  BY <1>3, NewCall
  <2> DEFINE fs == BatchFrames(c, e)
  <2>3. fs \in Seq(FrameSet) /\ fs[1] = Window(Len(e))  BY <2>2, FramesOfBatch
  <2>4. fs # <<>>  BY <2>2, BatchFramesType
  <2>5. FeedOn(c, wbuf[c], fs)  BY <2>1
  <2> HIDE DEF fs
  <2>6. Head(fs).type = "W"  BY <2>3, <2>4 DEF Window
  <2>7. /\ tofeed'[c] = fs /\ wbuf'[c] = wbuf[c] /\ outcome'[c] = outcome[c]
        /\ cpc'[c] \in {"feed", "drain"}
    BY <1>2, <2>4, <2>5, <2>6 DEF FeedOn, ClientTypeOK
  <2> QED  BY <1>3, <1>4, <1>5, <1>7, <2>7, BeginSendOk DEF fs
<1> QED  BY <1>6, <1>7

(* A call of send fails on an event it cannot serialize.                   *)
LEMMA SerializeFailsOk ==
    ASSUME LumberjackInv, NEW c \in Conns, ConnOk(c), NEW sizes \in Batches,
           SameHandler(c), SameBooks(c), SerializeFails(c, sizes)
    PROVE  ConnOk(c)'
<1>1. PICK e : e = EventsOf(Len(sent[c]) + 1, sizes)  OBVIOUS
<1>2. ClientTypeOK  BY DEF LumberjackInv
<1>3. Calling(c, e)  BY <1>1, <1>2 DEF SerializeFails, Calling, ClientTypeOK
<1>4. SameLink(c) /\ SamePipes(c)  BY DEF SerializeFails, SameLink, SamePipes, transportVars
<1>5. PICK r \in Results : r = Err("Serialization")  BY ResultTypes DEF Errors
<1>6. r.err = "Serialization" /\ ~r.ok  BY <1>5 DEF Err
<1>7. Return(c, r) /\ wbuf' = wbuf  BY <1>5 DEF SerializeFails
<1>8. /\ cpc'[c] = "idle" /\ outcome'[c] = Append(outcome[c], r) /\ tofeed'[c] = <<>>
      /\ wbuf'[c] = wbuf[c]
  BY <1>2, <1>7 DEF Return, ClientTypeOK
<1> QED  BY <1>3, <1>4, <1>6, <1>8, AtOnceOk

(* Reading the first of a row of Acks.                                     *)
LEMMA AckRead ==
    ASSUME NEW p \in Seq(FrameSet), p # <<>>, NEW f,
           \A i \in DOMAIN p : p[i] = Ack(0) \/ (i = Len(p) /\ p[i] = f)
    PROVE  /\ \A i \in DOMAIN Tail(p) : \/ Tail(p)[i] = Ack(0)
                                        \/ i = Len(Tail(p)) /\ Tail(p)[i] = f
           /\ Head(p) = Ack(0) \/ (Head(p) = f /\ Tail(p) = <<>>)
<1> DEFINE q == Tail(p)
<1>1. /\ Len(p) \in Nat /\ Len(p) > 0 /\ DOMAIN p = 1..Len(p) /\ Head(p) = p[1]
      /\ q \in Seq(FrameSet) /\ Len(q) = Len(p) - 1 /\ DOMAIN q = 1..(Len(p) - 1)
      /\ \A i \in 1..(Len(p) - 1) : q[i] = p[i + 1]
  BY HeadTailProperties
<1> HIDE DEF q
<1>2. ASSUME NEW i \in DOMAIN q  PROVE q[i] = Ack(0) \/ (i = Len(q) /\ q[i] = f)
  <2>1. i + 1 \in DOMAIN p /\ q[i] = p[i + 1]  BY <1>1
  <2>2. p[i + 1] = Ack(0) \/ (i + 1 = Len(p) /\ p[i + 1] = f)  BY <2>1
  <2>3. i + 1 = Len(p) => i = Len(q)  BY <1>1
  <2> QED  BY <2>1, <2>2, <2>3
<1>3. Head(p) = Ack(0) \/ (Head(p) = f /\ q = <<>>)
  <2>1. 1 \in DOMAIN p  BY <1>1
  <2>2. p[1] = Ack(0) \/ (1 = Len(p) /\ p[1] = f)  BY <2>1
  <2>3. 1 = Len(p) => q = <<>>  BY <1>1
  <2> QED  BY <1>1, <2>2, <2>3
<1> QED  BY <1>2, <1>3 DEF q

(* What a healthy client can read while it waits: keepalives, then the Ack *)
(* of its batch, which is the last.                                        *)
LEMMA WhatIsRead ==
    ASSUME LumberjackInv, NEW c \in Conns, ConnOk(c), Healthy(c), cpc[c] = "wait",
           s2c[c] # <<>>
    PROVE  /\ InTransit(c) /\ (HandedOver(c) \/ Answered(c))
           /\ Awaited(c) = Len(Current(c)) /\ Len(Current(c)) > 0 /\ Len(Current(c)) \in Nat
           /\ \/ Head(s2c[c]) = Ack(0)
              \/ /\ Head(s2c[c]) = Ack(Len(Current(c))) /\ Tail(s2c[c]) = <<>>
                 /\ Answered(c)
           /\ HandedOver(c) => /\ spc[c] # "dispatch"
                               /\ \A i \in DOMAIN Tail(s2c[c]) : Tail(s2c[c])[i] = Ack(0)
           /\ Answered(c) =>
                  \A i \in DOMAIN Tail(s2c[c]) :
                      \/ Tail(s2c[c])[i] = Ack(0)
                      \/ /\ i = Len(Tail(s2c[c]))
                         /\ Tail(s2c[c])[i] = Ack(Len(Current(c)))
<1>1. InTransit(c) /\ (HandedOver(c) \/ Answered(c))
  BY Phases DEF AtRest, Unread, Partly, OnTheWay, Ended
<1>2. Awaited(c) = Len(Current(c)) /\ Len(Current(c)) > 0 /\ Len(Current(c)) \in Nat
  <2>1. sent[c] # <<>> /\ Current(c) # <<>>  BY <1>1 DEF InTransit
  <2>2. Current(c) \in Seq(Event) /\ Len(Current(c)) < U32 /\ Len(Current(c)) \in Nat
    BY <2>1, CurrentType DEF ConnOk, Calls
  <2>3. Awaited(c) = AsU32(Len(Current(c)))  BY DEF Awaited, Current
  <2>4. Awaited(c) = Len(Current(c))  BY <2>2, <2>3, AsU32Small
  <2>5. Len(Current(c)) > 0  BY <2>1, <2>2
  <2> QED  BY <2>2, <2>4, <2>5
<1> DEFINE p == s2c[c]
           f == Ack(Len(Current(c)))
<1>3. p \in Seq(FrameSet) /\ p # <<>>  BY TypesAt
<1>4. HandedOver(c) => spc[c] # "dispatch" /\ \A i \in DOMAIN p : p[i] = Ack(0)
  BY DEF HandedOver
<1>5. Answered(c) => \A i \in DOMAIN p : p[i] = Ack(0) \/ (i = Len(p) /\ p[i] = f)
  BY DEF Answered
<1> HIDE DEF p, f
<1>6. ASSUME HandedOver(c)
      PROVE  Head(p) = Ack(0) /\ \A i \in DOMAIN Tail(p) : Tail(p)[i] = Ack(0)
  <2>1. \A i \in DOMAIN p : p[i] = Ack(0) \/ (i = Len(p) /\ p[i] = Ack(0))  BY <1>4, <1>6
  <2> QED  BY <1>3, <2>1, AckRead
<1>7. ASSUME Answered(c)
      PROVE  /\ Head(p) = Ack(0) \/ (Head(p) = f /\ Tail(p) = <<>>)
             /\ \A i \in DOMAIN Tail(p) : \/ Tail(p)[i] = Ack(0)
                                          \/ i = Len(Tail(p)) /\ Tail(p)[i] = f
  BY <1>3, <1>5, <1>7, AckRead
<1> QED  BY <1>1, <1>2, <1>4, <1>6, <1>7 DEF p, f

(* A keepalive: the client waits on.                                       *)
LEMMA WaitsOnOk ==
    ASSUME LumberjackInv, NEW c \in Conns, ConnOk(c), cpc[c] = "wait", s2c[c] # <<>>,
           s2c'[c] = Tail(s2c[c]), c2s'[c] = c2s[c],
           SameClient(c), SameLink(c), SameHandler(c), SameBooks(c)
    PROVE  ConnOk(c)'
<1> USE SameCalls, SameHistory
<1>1. Calls(c)'  BY DEF ConnOk
<1>2. Streams(c)'
  BY DEF ConnOk, Streams, SameClient, SameLink, SameHandler
<1>3. CASE ~Healthy(c)  BY <1>1, <1>2, <1>3 DEF ConnOk
<1>4. CASE Healthy(c)
  <2>1. /\ InTransit(c) /\ (HandedOver(c) \/ Answered(c))
        /\ HandedOver(c) => /\ spc[c] # "dispatch"
                            /\ \A i \in DOMAIN Tail(s2c[c]) : Tail(s2c[c])[i] = Ack(0)
        /\ Answered(c) =>
               \A i \in DOMAIN Tail(s2c[c]) :
                   \/ Tail(s2c[c])[i] = Ack(0)
                   \/ i = Len(Tail(s2c[c])) /\ Tail(s2c[c])[i] = Ack(Len(Current(c)))
    BY <1>4, WhatIsRead
  <2>2. Waits(c) => Waits(c)'  BY DEF Waits, Drained, SameClient
  <2>3. Collected(c) => Collected(c)'  BY DEF Collected, SameHandler
  <2>4. NothingOut(c) => NothingOut(c)'  BY DEF NothingOut, SameBooks, SameHandler
  <2>5. HandedOver(c) => HandedOver(c)'
    BY <2>1, <2>2, <2>3 DEF HandedOver, SameHandler, SameBooks
  <2>6. Answered(c) => Answered(c)'
    BY <2>1, <2>2, <2>4 DEF Answered, SameHandler
  <2>7. InTransit(c)'  BY <2>1, <2>5, <2>6 DEF InTransit, SameClient
  <2> QED  BY <1>1, <1>2, <1>4, <2>7 DEF ConnOk, Traffic
<1> QED  BY <1>3, <1>4

(* A frame that ends the call.                                             *)
LEMMA AnsweredOk ==
    ASSUME LumberjackInv, NEW c \in Conns, ConnOk(c), cpc[c] = "wait", s2c[c] # <<>>,
           NEW r \in Results, cpc'[c] = "idle", outcome'[c] = Append(outcome[c], r),
           tofeed'[c] = <<>>, wbuf'[c] = wbuf[c], sent'[c] = sent[c],
           s2c'[c] = Tail(s2c[c]), c2s'[c] = c2s[c],
           Healthy(c) => /\ Answered(c) /\ Tail(s2c[c]) = <<>>
                         /\ r.ok /\ r.n = Len(Current(c)) /\ r.err = "none",
           SameLink(c), SameHandler(c), SameBooks(c)
    PROVE  ConnOk(c)'
<1>1. InSend(c) /\ Calls(c)  BY DEF InSend, ConnOk
<1>2. /\ Calls(c)' /\ outcome'[c][Len(sent[c])] = r
      /\ DOMAIN outcome'[c] = DOMAIN outcome[c] \cup {Len(sent[c])}
      /\ \A k \in DOMAIN outcome[c] : outcome'[c][k] = outcome[c][k]
  BY <1>1, Returned
<1>3. Healthy(c)' => Healthy(c)  BY BrokenGrows
<1>4. Streams(c)'
  BY DEF ConnOk, Streams, SameLink, SameHandler
<1>5. ASSUME Healthy(c)  PROVE Traffic(c)' /\ History(c)'
  <2>1. Answered(c) /\ s2c'[c] = <<>> /\ r.n = Len(Current(c)) /\ History(c)
    BY <1>5 DEF ConnOk
  <2>2. NothingOut(c)' /\ Drained(c)'
    BY <2>1 DEF Answered, Waits, NothingOut, Drained, SameBooks, SameHandler
  <2>3. AtRest(c)'  BY <2>1, <2>2 DEF AtRest, Answered, SameHandler
  <2>4. Answers(c)'
    <3>1. sent[c][Len(sent[c])] \in Range(got[c]) \cup Range(lost[c])
      BY <2>1 DEF Answered, Arrived, Current
    <3> QED  BY <1>2, <2>1, <3>1 DEF History, Answers, SameBooks, Current
  <2>5. OutIsCurrent(c)'  BY <2>2 DEF OutIsCurrent, NothingOut
  <2>6. InOrderOnce(c)'  BY <2>1, SameDelivered DEF History, InOrderOnce
  <2> QED  BY <2>3, <2>4, <2>5, <2>6 DEF Traffic, History
<1> QED  BY <1>2, <1>3, <1>4, <1>5 DEF ConnOk

(* The client reads a frame while it waits.                                *)
LEMMA ReceiveOk ==
    ASSUME LumberjackInv, NEW c \in Conns, ConnOk(c), SameHandler(c), SameBooks(c), Receive(c)
    PROVE  ConnOk(c)'
<1>1. PICK f : f = Head(s2c[c])  OBVIOUS
<1>2. ClientTypeOK /\ TransportTypeOK  BY DEF LumberjackInv, ServerInv, ServerTypes
<1>3. /\ cpc[c] = "wait" /\ s2c[c] # <<>> /\ s2c'[c] = Tail(s2c[c]) /\ c2s'[c] = c2s[c]
      /\ SameLink(c) /\ wbuf'[c] = wbuf[c] /\ sent'[c] = sent[c]
  BY <1>2 DEF Receive, Readable, SameLink, TransportTypeOK
<1>4. f \in FrameSet
  <2>1. s2c[c] \in Seq(FrameSet)  BY TypesAt
  <2> QED  BY <1>1, <1>3, <2>1
<1>5. CASE f.type = "A" /\ ~AckCovers(f.seq, Awaited(c))
  <2>1. UNCHANGED <<cpc, outcome, tofeed>>  BY <1>1, <1>5 DEF Receive
  <2>2. SameClient(c)  BY <1>3, <2>1 DEF SameClient
  <2> QED  BY <1>3, <2>2, WaitsOnOk
<1>6. CASE f.type = "A" /\ AckCovers(f.seq, Awaited(c))
  <2>1. Return(c, Ok(Awaited(c)))  BY <1>1, <1>6 DEF Receive
  <2>2. Awaited(c) \in Nat
    <3>1. sent[c] # <<>>  BY <1>3 DEF LumberjackInv, ClientShape, InSend
    <3>2. Current(c) \in Seq(Event) /\ Len(Current(c)) \in Nat
      BY <3>1, CurrentType DEF ConnOk, Calls
    <3> QED  BY <3>2, AsU32Type DEF Awaited, Current
  <2>3. PICK r \in Results : r = Ok(Awaited(c))  BY <2>2, ResultTypes
  <2>4. cpc'[c] = "idle" /\ outcome'[c] = Append(outcome[c], r) /\ tofeed'[c] = <<>>
    BY <1>2, <2>1, <2>3 DEF Return, ClientTypeOK
  <2>5. r.ok /\ r.n = Awaited(c) /\ r.err = "none"  BY <2>3 DEF Ok
  <2>6. ASSUME Healthy(c)
        PROVE  Answered(c) /\ Tail(s2c[c]) = <<>> /\ Awaited(c) = Len(Current(c))
    <3>1. /\ Awaited(c) = Len(Current(c)) /\ Len(Current(c)) > 0 /\ Len(Current(c)) \in Nat
          /\ f = Ack(0) \/ (Tail(s2c[c]) = <<>> /\ Answered(c))
      BY <1>1, <1>3, <2>6, WhatIsRead
    <3>2. f # Ack(0)
      <4>1. Ack(0).seq = 0  BY DEF Ack
      <4> QED  BY <1>6, <3>1, <4>1 DEF AckCovers
    <3> QED  BY <3>1, <3>2
  <2> QED  BY <1>3, <2>4, <2>5, <2>6, AnsweredOk
<1>7. CASE f.type # "A"
  <2>1. PICK err \in Errors : Return(c, Err(err))
    <3>1. f.type = "X" => f.err \in Errors  BY <1>4, FrameFields
    <3>2. "UnexpectedFrame" \in Errors  BY DEF Errors
    <3> QED  BY <1>1, <1>7, <3>1, <3>2 DEF Receive
  <2>2. PICK r \in Results : r = Err(err)  BY ResultTypes
  <2>3. cpc'[c] = "idle" /\ outcome'[c] = Append(outcome[c], r) /\ tofeed'[c] = <<>>
    BY <1>2, <2>1, <2>2 DEF Return, ClientTypeOK
  <2>4. ~Healthy(c)
    <3>1. Healthy(c) => f = Ack(0) \/ f = Ack(Len(Current(c)))
      BY <1>1, <1>3, WhatIsRead
    <3> QED  BY <1>7, <3>1 DEF Ack
  <2> QED  BY <1>3, <2>3, <2>4, AnsweredOk
<1> QED  BY <1>5, <1>6, <1>7

(* Every step of a client keeps its connection as it should be.            *)
LEMMA ClientOk ==
    ASSUME LumberjackInv, NEW c \in Conns, ConnOk(c), ClientSide(c)
    PROVE  ConnOk(c)'
<1>1. Connect(c, loop # "stopped") \/ ClientRuntime(c) \/ ClientChoice(c)  BY DEF ClientSide
<1>2. SameHandler(c) /\ SameBooks(c)  BY ClientElsewhere
<1>3. ClientTypeOK /\ TransportTypeOK  BY DEF LumberjackInv, ServerInv, ServerTypes
<1>4. CASE Connect(c, loop # "stopped") \/ ClientHandshake(c)
  <2>1. /\ cpc[c] \in {"new", "handshake"} /\ cpc'[c] \in {"handshake", "idle", "closed"}
        /\ cEnd'[c] = IF cpc'[c] = "closed" THEN "closed" ELSE cEnd[c]
        /\ link'[c] = link[c] \/ (cpc[c] = "new" /\ link'[c] = "backlog")
    BY <1>3, <1>4 DEF Connect, ClientHandshake, ClientTypeOK, TransportTypeOK
  <2>2. /\ sEnd'[c] = sEnd[c] /\ SamePipes(c) /\ wbuf'[c] = wbuf[c]
        /\ tofeed'[c] = tofeed[c] /\ sent'[c] = sent[c] /\ outcome'[c] = outcome[c]
    BY <1>4 DEF Connect, ClientHandshake, SamePipes
  <2> QED  BY <1>2, <2>1, <2>2, BeginOk
<1>5. CASE Feed(c)  BY <1>2, <1>5, FeedOk
<1>6. CASE WriteOut(c)  BY <1>2, <1>6, WriteOutOk
<1>7. CASE WriteError(c) \/ WriteTimeout(c) \/ ReceiveEnd(c) \/ AckTimeout(c) \/ Cancel(c)
  BY <1>2, <1>7, FailsOk
<1>8. CASE Receive(c)  BY <1>2, <1>8, ReceiveOk
<1>9. CASE Close(c) \/ CloseFails(c) \/ Drop(c)
  <2>1. cpc[c] # "closed"  BY <1>9 DEF Close, CloseFails, Drop
  <2> QED  BY <1>2, <1>9, <2>1, GoOk
<1>10. ASSUME NEW sizes \in Batches, Send(c, sizes) \/ SerializeFails(c, sizes)
       PROVE  ConnOk(c)'
  BY <1>2, <1>10, SendOk, SerializeFailsOk
<1> QED  BY <1>1, <1>4, <1>5, <1>6, <1>7, <1>8, <1>9, <1>10 DEF ClientRuntime, ClientChoice

-----------------------------------------------------------------------------
(* The invariant *)

(* Before the first connection nothing is on any wire.                     *)
LEMMA WireStarts ==
    ASSUME Init
    PROVE  WireInv
<1>1. LumberjackInv  BY InvStarts
<1>2. Covers  BY CoversStarts DEF Init
<1>3. LostLate  BY DEF Init, ServerInit, LostLate
<1>4. ASSUME NEW c \in Conns  PROVE ConnOk(c)
  <2>1. /\ cpc[c] = "new" /\ wbuf[c] = <<>> /\ tofeed[c] = <<>> /\ sent[c] = <<>>
        /\ outcome[c] = <<>>
    BY DEF Init, ClientInit
  <2>2. /\ link[c] = "none" /\ cEnd[c] = "open" /\ sEnd[c] = "open" /\ c2s[c] = <<>>
        /\ s2c[c] = <<>>
    BY DEF Init, TransportInit
  <2>3. /\ spc[c] = "none" /\ ack_rx[c] = <<>> /\ got[c] = <<>> /\ lost[c] = <<>>
        /\ queue = <<>> /\ held = {}
    BY DEF Init, ConnInit, ServerInit
  <2>4. Calls(c)  BY <2>1 DEF Calls, Numbered, InSend
  <2>5. Streams(c)  BY <2>1, <2>2, <2>3 DEF Streams
  <2>6. Queued(c) = {} /\ Held(c) = {}  BY <2>3 DEF Queued, Held, Range
  <2>7. Traffic(c)  BY <2>1, <2>2, <2>3, <2>6 DEF Traffic, AtRest, Drained, NothingOut
  <2>8. Delivered(c) = <<>>  BY <2>3, <2>6 DEF Delivered
  <2>9. History(c)  BY <2>1, <2>6, <2>8 DEF History, Answers, OutIsCurrent, InOrderOnce, Ordered
  <2> QED  BY <2>4, <2>5, <2>7, <2>9 DEF ConnOk
<1> QED  BY <1>1, <1>2, <1>3, <1>4 DEF WireInv

(* Every step of the system keeps every connection as it should be.        *)
LEMMA WireKept ==
    ASSUME WireInv, [Next]_vars
    PROVE  WireInv'
<1>1. LumberjackInv /\ Covers /\ LostLate /\ \A d \in Conns : ConnOk(d)  BY DEF WireInv
<1>2. LumberjackInv'  BY <1>1, InvKept
<1>3. ServerInv  BY <1>1 DEF LumberjackInv
<1>4. ASSUME NEW c \in Conns, ClientSide(c)  PROVE WireInv'
  <2>1. UNCHANGED connVars /\ UNCHANGED serverVars  BY <1>4 DEF ClientSide
  <2>2. Covers'  BY <1>1, <2>1, EnvironmentKeepsCovers
  <2>3. LostLate'  BY <1>1, <2>1 DEF LostLate, connVars, serverVars
  <2>4. ConnOk(c)'  BY <1>1, <1>4, ClientOk
  <2>5. ASSUME NEW d \in Conns, d # c  PROVE ConnOk(d)'
    BY <1>1, <1>4, <2>5, ClientElsewhere, Untouched DEF Same
  <2> QED  BY <1>2, <2>2, <2>3, <2>4, <2>5 DEF WireInv
<1>5. ASSUME NEW c \in Conns, HandlerSide(c)  PROVE WireInv'
  <2>1. Handler(c) /\ UNCHANGED serverVars  BY <1>5 DEF HandlerSide
  <2>2. Covers'  BY <1>1, <1>3, <2>1, HandlerKeepsCovers
  <2>3. rx' = rx
    BY <2>1 DEF Handler, Handshake, ReadWindow, Collect, ReadEnd, Dispatch, DispatchClosed,
                AckReceived, KeepaliveDue, WriteAck, WriteAckFails
  <2>4. LostLate'  BY <1>1, <2>1, <2>3 DEF LostLate, serverVars
  <2>5. ConnOk(c)'  BY <1>1, <1>2, <1>5, HandlerOk
  <2>6. ASSUME NEW d \in Conns, d # c  PROVE ConnOk(d)'
    BY <1>1, <1>5, <2>6, HandlerElsewhere, Untouched DEF Same
  <2> QED  BY <1>2, <2>2, <2>4, <2>5, <2>6 DEF WireInv
<1>6. ASSUME NEW c \in Conns, LinkSide(c)  PROVE WireInv'
  <2>1. UNCHANGED connVars /\ UNCHANGED serverVars  BY <1>6 DEF LinkSide
  <2>2. Covers'  BY <1>1, <2>1, EnvironmentKeepsCovers
  <2>3. LostLate'  BY <1>1, <2>1 DEF LostLate, connVars, serverVars
  <2> QED  BY <1>1, <1>2, <1>6, <2>2, <2>3, LinkResetOk DEF WireInv
<1>7. CASE ServerSide
  <2>1. ServerStep  BY <1>7 DEF ServerSide
  <2>2. Covers'  BY <1>1, <1>3, <2>1, ServerKeepsCovers
  <2> QED  BY <1>1, <1>2, <1>7, <2>2, ServerOk DEF WireInv
<1>8. CASE UNCHANGED vars
  <2>1. UNCHANGED connVars /\ UNCHANGED serverVars /\ UNCHANGED clientVars
        /\ UNCHANGED transportVars
    BY <1>8 DEF vars
  <2>2. Covers'  BY <1>1, <2>1, EnvironmentKeepsCovers
  <2>3. LostLate'  BY <1>1, <2>1 DEF LostLate, connVars, serverVars
  <2>4. UNCHANGED <<spc, locals, ack_rx, queue, held, got, lost>>
    BY <2>1 DEF connVars, serverVars, locals
  <2> QED  BY <1>1, <1>2, <2>1, <2>2, <2>3, <2>4, NothingMoves DEF WireInv
<1> QED  BY <1>4, <1>5, <1>6, <1>7, <1>8 DEF Next, Terminated

(* In every behaviour of the system, what is on the wire between a client  *)
(* that is not used after an error and its handler belongs to the call     *)
(* that is under way.                                                      *)
THEOREM WireHolds == Spec => []WireInv
<1>1. Init => WireInv  BY WireStarts
<1>2. WireInv /\ [Next]_vars => WireInv'  BY WireKept
<1> QED  BY <1>1, <1>2, PTL DEF Spec
=============================================================================
