--------------------------- MODULE DeliveryProofs ---------------------------
(***************************************************************************)
(* What the invariant of WireProofs is for: the promises of `send` that    *)
(* the runs check, that clients, pipes, handlers, channel and application  *)
(* together do what Delivery says, and what a connection delivers when its *)
(* application goes on using a Client whose send failed, for every finite  *)
(* set of connections, every batch, every bound and every setting of the   *)
(* builders.                                                               *)
(***************************************************************************)
EXTENDS WireProofs, TimedKeepalive

(* While a client still has something of its batch to write, the handler   *)
(* is reading, also when the client is given up half-way.                  *)
THEOREM NeverBothBlocked == Spec => []NoMutualBlocking
<1>1. ASSUME WireInv  PROVE NoMutualBlocking
  <2>1. ASSUME NEW c \in Conns \ Reusing, cpc[c] \in {"feed", "drain", "flush"}
        PROVE  spc[c] \notin {"dispatch", "await", "keepalive", "ack"}
    <3>1. ConnOk(c) /\ Healthy(c)  BY <1>1 DEF WireInv, Healthy
    <3>2. ~AtRest(c) /\ ~HandedOver(c)  BY <2>1 DEF AtRest, HandedOver, Waits
    <3> QED  BY <3>1, <3>2, Phases DEF Unread, Partly, Answered, Ended
  <2> QED  BY <2>1 DEF NoMutualBlocking
<1> QED  BY <1>1, WireHolds, PTL

(* A client that is idle and has met no error left nothing behind: no      *)
(* frame, no batch, no late Ack that the next send could take for its own. *)
THEOREM IdleIsQuiescent == Spec => []QuiescentWhenIdle
<1>1. ASSUME WireInv  PROVE QuiescentWhenIdle
  <2>1. ASSUME NEW c \in Conns, cpc[c] = "idle", ~Broken(c)
        PROVE  /\ wbuf[c] = <<>> /\ c2s[c] = <<>> /\ s2c[c] = <<>>
               /\ ~InChannel(c) /\ ~InHand(c) /\ ~InOneshot(c)
    <3>1. ConnOk(c) /\ Healthy(c)  BY <1>1, <2>1 DEF WireInv, Healthy
    <3>2. ~InTransit(c)  BY <2>1 DEF InTransit
    <3>3. Drained(c) /\ s2c[c] = <<>> /\ NothingOut(c)
      BY <3>1, <3>2 DEF ConnOk, Traffic, AtRest
    <3>4. InChannel(c) <=> Queued(c) # {}  BY DEF InChannel, Queued, Range
    <3>5. InHand(c) <=> Held(c) # {}  BY DEF InHand, Held
    <3> QED  BY <3>3, <3>4, <3>5 DEF Drained, NothingOut, InOneshot
  <2> QED  BY <2>1 DEF QuiescentWhenIdle
<1> QED  BY <1>1, WireHolds, PTL

(* A batch that is out belongs to a call that has not succeeded, so it is  *)
(* not the batch of one that has.                                          *)
LEMMA AckedIsNotOut ==
    ASSUME LumberjackInv, NEW c \in Conns, ConnOk(c), Healthy(c),
           NEW k \in DOMAIN outcome[c], outcome[c][k].ok, sent[c][k] # <<>>,
           NEW b \in Queued(c) \cup Held(c)
    PROVE  b.events # sent[c][k]
<1>1. Calls(c) /\ OutIsCurrent(c)  BY DEF ConnOk, History
<1>2. sent[c] # <<>> /\ Current(c) # <<>> /\ ~Succeeded(c) /\ b.events = Current(c)
  BY <1>1 DEF OutIsCurrent
<1>3. SUFFICES ASSUME Current(c) = sent[c][k]  PROVE FALSE  BY <1>2
<1>4. outcome[c] \in Seq(Results) /\ sent[c] \in Seq(Seq(Event))  BY TypesAt
<1>5. Len(outcome[c]) \in Nat /\ Len(sent[c]) \in Nat /\ Len(outcome[c]) <= Len(sent[c])
  BY <1>1, <1>4 DEF Calls
<1>6. k \in 1..Len(outcome[c])  BY <1>4
<1>7. k \in 1..Len(sent[c]) /\ k \in DOMAIN sent[c] /\ Len(sent[c]) \in DOMAIN sent[c]
  BY <1>2, <1>4, <1>5, <1>6
<1>8. 1 \in DOMAIN Current(c)
  <2>1. Current(c) \in Seq(Event)  BY <1>1, <1>2, CurrentType DEF Calls
  <2> QED  BY <1>2, <2>1
<1>9. Current(c)[1].send = Len(sent[c]) /\ sent[c][k][1].send = k
  BY <1>1, <1>3, <1>7, <1>8 DEF Calls, Numbered, Current
<1>10. k = Len(sent[c])  BY <1>3, <1>9
<1>11. Len(outcome[c]) = Len(sent[c])  BY <1>5, <1>6, <1>10
<1> QED  BY <1>2, <1>10, <1>11 DEF Succeeded

(* Ok(n) means that the batch had n events, that they were handed over     *)
(* whole, and that the batch was acknowledged or dropped: by the crate's   *)
(* own server, for clients that are given up after an error.  (The         *)
(* hypothesis is needed: see the run stale_ack.)                           *)
THEOREM OkMeansDelivered ==
    ASSUME Reusing = {}
    PROVE  Spec => []AckedIsDelivered
<1>1. ASSUME WireInv  PROVE AckedIsDelivered
  <2>1. ASSUME NEW c \in Conns, NEW k \in DOMAIN outcome[c],
               outcome[c][k].ok, sent[c][k] # <<>>
        PROVE  /\ outcome[c][k].n = Len(sent[c][k])
               /\ sent[c][k] \in Range(got[c]) \cup Range(lost[c])
               /\ \A b \in Range(queue) \cup held :
                      ~(b.conn = c /\ b.events = sent[c][k])
    <3>1. LumberjackInv /\ ConnOk(c) /\ Healthy(c)  BY <1>1 DEF WireInv, Healthy
    <3>2. Answers(c)  BY <3>1 DEF ConnOk, History
    <3>3. ASSUME NEW b \in Range(queue) \cup held, b.conn = c
          PROVE  b.events # sent[c][k]
      <4>1. b \in Queued(c) \cup Held(c)  BY <3>3 DEF Queued, Held
      <4> QED  BY <2>1, <3>1, <4>1, AckedIsNotOut
    <3> QED  BY <2>1, <3>2, <3>3 DEF Answers
  <2> QED  BY <2>1 DEF AckedIsDelivered
<1> QED  BY <1>1, WireHolds, PTL

-----------------------------------------------------------------------------
(* The system implements Delivery: what a step does to the calls, results  *)
(* and batches of one connection.                                          *)

SameStory(c) ==
    /\ sent'[c] = sent[c] /\ outcome'[c] = outcome[c]
    /\ Delivered(c)' = Delivered(c) /\ Released(c)' = Released(c)

(* A batch is out as long as it is in the channel or in hand.              *)
LEMMA ReleasedCounts ==
    ASSUME NEW c \in Conns
    PROVE  Released(c) = Len(Delivered(c)) - (IF Queued(c) \cup Held(c) # {} THEN 1 ELSE 0)
<1>1. InChannel(c) <=> Queued(c) # {}  BY DEF InChannel, Queued, Range
<1>2. InHand(c) <=> Held(c) # {}  BY DEF InHand, Held
<1> QED  BY <1>1, <1>2 DEF Released

(* The same after a step.                                                  *)
LEMMA ReleasedAfter ==
    ASSUME NEW c \in Conns
    PROVE  Released(c)' = Len(Delivered(c)') - (IF Queued(c)' \cup Held(c)' # {} THEN 1 ELSE 0)
<1>1. InChannel(c)' <=> Queued(c)' # {}  BY DEF InChannel, Queued, Range
<1>2. InHand(c)' <=> Held(c)' # {}  BY DEF InHand, Held
<1> QED  BY <1>1, <1>2 DEF Released

(* A connection none of whose batches moves.                               *)
LEMMA SameReleased ==
    ASSUME NEW c \in Conns, SameBooks(c)
    PROVE  Delivered(c)' = Delivered(c) /\ Released(c)' = Released(c)
  BY SameDelivered, ReleasedCounts, ReleasedAfter DEF SameBooks

(* A step that changes no connection's story stutters.                     *)
LEMMA StoryStutters ==
    ASSUME LumberjackInv, LumberjackInv', \A d \in Conns : SameStory(d)
    PROVE  UNCHANGED Promise!vars
<1>1. sent' = sent /\ outcome' = outcome  BY DEF LumberjackInv, ClientTypeOK, SameStory
<1>2. [d \in Conns |-> Delivered(d)]' = [d \in Conns |-> Delivered(d)]  BY DEF SameStory
<1>3. [d \in Conns |-> Released(d)]' = [d \in Conns |-> Released(d)]  BY DEF SameStory
<1> QED  BY <1>1, <1>2, <1>3 DEF Promise!vars

(* A call fails.                                                           *)
LEMMA StoryFails ==
    ASSUME LumberjackInv, LumberjackInv', NEW c \in Conns, NEW e \in Errors,
           \A d \in Conns : d # c => SameStory(d),
           Len(outcome[c]) < Len(sent[c]), sent'[c] = sent[c],
           outcome'[c] = Append(outcome[c], Err(e)),
           Delivered(c)' = Delivered(c), Released(c)' = Released(c)
    PROVE  Promise!Next
<1>1. sent' = sent  BY DEF LumberjackInv, ClientTypeOK, SameStory
<1>2. outcome' = [outcome EXCEPT ![c] = Append(@, Err(e))]
  BY DEF LumberjackInv, ClientTypeOK, SameStory
<1>3. [d \in Conns |-> Delivered(d)]' = [d \in Conns |-> Delivered(d)]  BY DEF SameStory
<1>4. [d \in Conns |-> Released(d)]' = [d \in Conns |-> Released(d)]  BY DEF SameStory
<1>5. Err(e) \in Promise!Failures  BY DEF Promise!Failures, Err
<1>6. Promise!Fail(c)  BY <1>1, <1>2, <1>3, <1>4, <1>5 DEF Promise!Fail
<1> QED  BY <1>6 DEF Promise!Next

(* A call succeeds: its batch was delivered and nothing is out.            *)
LEMMA StorySucceeds ==
    ASSUME LumberjackInv, LumberjackInv', NEW c \in Conns,
           \A d \in Conns : d # c => SameStory(d),
           Len(outcome[c]) < Len(sent[c]), sent'[c] = sent[c],
           outcome'[c] = Append(outcome[c], Ok(Len(Current(c)))),
           Current(c) \in Range(Delivered(c)), Released(c) = Len(Delivered(c)),
           Delivered(c)' = Delivered(c), Released(c)' = Released(c)
    PROVE  Promise!Next
<1>1. sent' = sent  BY DEF LumberjackInv, ClientTypeOK, SameStory
<1>2. outcome' = [outcome EXCEPT ![c] = Append(@, Ok(Len(Current(c))))]
  BY DEF LumberjackInv, ClientTypeOK, SameStory
<1>3. [d \in Conns |-> Delivered(d)]' = [d \in Conns |-> Delivered(d)]  BY DEF SameStory
<1>4. [d \in Conns |-> Released(d)]' = [d \in Conns |-> Released(d)]  BY DEF SameStory
<1>5. Current(c) = Promise!Current(c)  BY DEF Current, Promise!Current
<1>6. Ok(Len(Current(c))) = Promise!Success(Len(Promise!Current(c)))
  BY <1>5 DEF Ok, Promise!Success
<1>7. Promise!Range(Delivered(c)) = Range(Delivered(c))  BY DEF Range, Promise!Range
<1>8. Promise!Succeed(c)
  BY <1>1, <1>2, <1>3, <1>4, <1>5, <1>6, <1>7 DEF Promise!Succeed
<1> QED  BY <1>8 DEF Promise!Next

(* A call begins, and may return at once.                                  *)
LEMMA StorySubmits ==
    ASSUME LumberjackInv, LumberjackInv', NEW c \in Conns,
           \A d \in Conns : d # c => SameStory(d),
           Len(outcome[c]) = Len(sent[c]), Len(sent[c]) < MaxSends,
           NEW sizes \in Batches, NEW b, b = EventsOf(Len(sent[c]) + 1, sizes),
           sent'[c] = Append(sent[c], b),
           \/ outcome'[c] = outcome[c]
           \/ \E e \in Errors : outcome'[c] = Append(outcome[c], Err(e))
           \/ b = <<>> /\ outcome'[c] = Append(outcome[c], Ok(0)),
           Delivered(c)' = Delivered(c), Released(c)' = Released(c)
    PROVE  Promise!Next
<1>1. sent' = [sent EXCEPT ![c] = Append(@, b)]
  BY DEF LumberjackInv, ClientTypeOK, SameStory
<1>2. [d \in Conns |-> Delivered(d)]' = [d \in Conns |-> Delivered(d)]  BY DEF SameStory
<1>3. [d \in Conns |-> Released(d)]' = [d \in Conns |-> Released(d)]  BY DEF SameStory
<1>4. outcome \in [Conns -> Seq(Results)] /\ outcome' \in [Conns -> Seq(Results)]
  BY DEF LumberjackInv, ClientTypeOK
<1>5. \/ outcome' = outcome
      \/ \E r \in Promise!Failures \cup (IF b = <<>> THEN {Promise!Success(0)} ELSE {}) :
             outcome' = [outcome EXCEPT ![c] = Append(@, r)]
  <2>1. CASE outcome'[c] = outcome[c]  BY <1>4, <2>1 DEF SameStory
  <2>2. ASSUME NEW e \in Errors, outcome'[c] = Append(outcome[c], Err(e))
        PROVE  \E r \in Promise!Failures : outcome' = [outcome EXCEPT ![c] = Append(@, r)]
    <3>1. Err(e) \in Promise!Failures  BY DEF Promise!Failures, Err
    <3>2. outcome' = [outcome EXCEPT ![c] = Append(@, Err(e))]  BY <1>4, <2>2 DEF SameStory
    <3> QED  BY <3>1, <3>2
  <2>3. CASE b = <<>> /\ outcome'[c] = Append(outcome[c], Ok(0))
    <3>1. Ok(0) = Promise!Success(0)  BY DEF Promise!Success, Ok
    <3>2. outcome' = [outcome EXCEPT ![c] = Append(@, Ok(0))]  BY <1>4, <2>3 DEF SameStory
    <3> QED  BY <2>3, <3>1, <3>2
  <2> QED  BY <2>1, <2>2, <2>3
<1>6. Promise!Submit(c, b)  BY <1>1, <1>2, <1>3, <1>5 DEF Promise!Submit
<1>7. Len(sent[c]) + 1 \in 1..MaxSends
  <2>1. Len(sent[c]) \in Nat  BY TypesAt
  <2> QED  BY <2>1, ClientAssumption
<1>8. b \in {EventsOf(k, s) : k \in 1..MaxSends, s \in Batches}  BY <1>7
<1> QED  BY <1>6, <1>8 DEF Promise!Next

(* The current batch is handed over, while nothing is out.                 *)
LEMMA StoryDelivers ==
    ASSUME LumberjackInv, LumberjackInv', NEW c \in Conns,
           \A d \in Conns : d # c => SameStory(d),
           sent'[c] = sent[c], outcome'[c] = outcome[c],
           sent[c] # <<>>, Current(c) # <<>>, Current(c) \notin Range(Delivered(c)),
           Released(c) = Len(Delivered(c)),
           Delivered(c)' = Append(Delivered(c), Current(c)), Released(c)' = Released(c)
    PROVE  Promise!Next
<1>1. sent' = sent /\ outcome' = outcome  BY DEF LumberjackInv, ClientTypeOK, SameStory
<1> DEFINE D == [d \in Conns |-> Delivered(d)]
<1>2. D' = [D EXCEPT ![c] = Append(@, Current(c))]  BY DEF SameStory
<1>3. [d \in Conns |-> Released(d)]' = [d \in Conns |-> Released(d)]  BY DEF SameStory
<1>4. Current(c) = Promise!Current(c)  BY DEF Current, Promise!Current
<1>5. Promise!Range(Delivered(c)) = Range(Delivered(c))  BY DEF Range, Promise!Range
<1>6. Promise!Deliver(c)  BY <1>1, <1>2, <1>3, <1>4, <1>5 DEF Promise!Deliver
<1> QED  BY <1>6 DEF Promise!Next

(* The batch that is out is acknowledged or dropped.                       *)
LEMMA StoryReleases ==
    ASSUME LumberjackInv, LumberjackInv', NEW c \in Conns,
           \A d \in Conns : d # c => SameStory(d),
           sent'[c] = sent[c], outcome'[c] = outcome[c],
           Released(c) < Len(Delivered(c)),
           Delivered(c)' = Delivered(c), Released(c)' = Released(c) + 1
    PROVE  Promise!Next
<1>1. sent' = sent /\ outcome' = outcome  BY DEF LumberjackInv, ClientTypeOK, SameStory
<1>2. [d \in Conns |-> Delivered(d)]' = [d \in Conns |-> Delivered(d)]  BY DEF SameStory
<1> DEFINE R == [d \in Conns |-> Released(d)]
<1>3. R' = [R EXCEPT ![c] = @ + 1]  BY DEF SameStory
<1>4. Promise!Release(c)  BY <1>1, <1>2, <1>3 DEF Promise!Release
<1> QED  BY <1>4 DEF Promise!Next

-----------------------------------------------------------------------------
(* Every step of the system, by who takes it *)

(* A batch that arrived was delivered.                                     *)
LEMMA ArrivedIsDelivered ==
    ASSUME LumberjackInv, NEW c \in Conns, Queued(c) = {}
    PROVE  Range(got[c]) \cup Range(lost[c]) \subseteq Range(Delivered(c))
<1> DEFINE g == got[c]
           l == lost[c]
<1>1. g \in Seq(Seq(Event)) /\ l \in Seq(Seq(Event))  BY TypesAt
<1>2. Delivered(c) = Joined(g, l, {})  BY DeliveredIsJoined
<1> HIDE DEF g, l
<1>3. Joined(g, l, {}) = g \o l
  <2>1. g \o l \in Seq(Seq(Event))  BY <1>1, ConcatProperties
  <2> QED  BY <2>1, ConcatEmptySeq DEF Joined
<1>4. Range(g) \cup Range(l) \subseteq Range(g \o l)
  <2>1. /\ Len(g) \in Nat /\ Len(l) \in Nat /\ DOMAIN g = 1..Len(g) /\ DOMAIN l = 1..Len(l)
        /\ DOMAIN (g \o l) = 1..(Len(g) + Len(l))
        /\ \A i \in 1..Len(g) : (g \o l)[i] = g[i]
        /\ \A i \in 1..Len(l) : (g \o l)[Len(g) + i] = l[i]
    BY <1>1
  <2>2. \A i \in 1..Len(g) : i \in 1..(Len(g) + Len(l))  BY <2>1
  <2>3. \A i \in 1..Len(l) : Len(g) + i \in 1..(Len(g) + Len(l))  BY <2>1
  <2> QED  BY <2>1, <2>2, <2>3 DEF Range
<1> QED  BY <1>2, <1>3, <1>4 DEF g, l

(* A call that Receive ends.                                               *)
LEMMA ReceiveStory ==
    ASSUME LumberjackInv, LumberjackInv', NEW c \in Conns, ConnOk(c), Healthy(c), Receive(c),
           SameBooks(c), \A d \in Conns : d # c => SameStory(d)
    PROVE  [Promise!Next]_(Promise!vars)
<1>1. ClientTypeOK /\ TransportTypeOK  BY DEF LumberjackInv, ServerInv, ServerTypes
<1>2. Delivered(c)' = Delivered(c) /\ Released(c)' = Released(c)  BY SameReleased
<1>3. sent'[c] = sent[c] /\ InSend(c) /\ cpc[c] = "wait" /\ s2c[c] # <<>>
  BY DEF Receive, InSend, Readable
<1>4. Len(outcome[c]) < Len(sent[c])
  <2>1. Len(outcome[c]) \in Nat /\ Len(sent[c]) \in Nat  BY TypesAt
  <2> QED  BY <1>3, <2>1 DEF ConnOk, Calls
<1>5. PICK f : f = Head(s2c[c])  OBVIOUS
<1>6. /\ Awaited(c) = Len(Current(c)) /\ Len(Current(c)) > 0 /\ Len(Current(c)) \in Nat
      /\ f = Ack(0) \/ (f = Ack(Len(Current(c))) /\ Answered(c))
  BY <1>3, <1>5, WhatIsRead
<1>7. CASE AckCovers(f.seq, Awaited(c))
  <2>1. f # Ack(0)
    <3>1. Ack(0).seq = 0  BY DEF Ack
    <3> QED  BY <1>6, <1>7, <3>1 DEF AckCovers
  <2>2. f.type = "A" /\ Answered(c)  BY <1>6, <2>1 DEF Ack
  <2>3. Return(c, Ok(Len(Current(c))))  BY <1>5, <1>6, <1>7, <2>2 DEF Receive
  <2>4. outcome'[c] = Append(outcome[c], Ok(Len(Current(c))))
    BY <1>1, <2>3 DEF Return, ClientTypeOK
  <2>5. NothingOut(c) /\ Arrived(c)  BY <2>2 DEF Answered
  <2>6. Current(c) \in Range(Delivered(c))
    BY <2>5, ArrivedIsDelivered DEF NothingOut, Arrived
  <2>7. Released(c) = Len(Delivered(c))
    <3>1. Len(Delivered(c)) \in Nat  BY DeliveredType
    <3> QED  BY <2>5, <3>1, ReleasedCounts DEF NothingOut
  <2> QED  BY <1>2, <1>3, <1>4, <2>4, <2>6, <2>7, StorySucceeds
<1>8. CASE ~AckCovers(f.seq, Awaited(c))
  <2>1. f.type = "A"  BY <1>6 DEF Ack
  <2>2. outcome' = outcome  BY <1>5, <1>8, <2>1 DEF Receive
  <2>3. SameStory(c)  BY <1>2, <1>3, <2>2 DEF SameStory
  <2> QED  BY <2>3, StoryStutters
<1> QED  BY <1>7, <1>8

(* A call that begins.                                                     *)
LEMMA SendStory ==
    ASSUME LumberjackInv, LumberjackInv', NEW c \in Conns, ConnOk(c), NEW sizes \in Batches,
           Send(c, sizes) \/ SerializeFails(c, sizes),
           SameBooks(c), \A d \in Conns : d # c => SameStory(d)
    PROVE  Promise!Next
<1>1. ClientTypeOK  BY DEF LumberjackInv
<1>2. Delivered(c)' = Delivered(c) /\ Released(c)' = Released(c)  BY SameReleased
<1>3. PICK b : b = EventsOf(Len(sent[c]) + 1, sizes)  OBVIOUS
<1>4. /\ MaySend(c) /\ sent'[c] = Append(sent[c], b)
  BY <1>1, <1>3 DEF Send, SerializeFails, ClientTypeOK
<1>5. Len(outcome[c]) = Len(sent[c]) /\ Len(sent[c]) < MaxSends
  BY <1>4 DEF MaySend, ConnOk, Calls
<1>6. \/ outcome'[c] = outcome[c]
      \/ \E e \in Errors : outcome'[c] = Append(outcome[c], Err(e))
      \/ b = <<>> /\ outcome'[c] = Append(outcome[c], Ok(0))
  <2>1. "FrameTooLarge" \in Errors /\ "Serialization" \in Errors  BY DEF Errors
  <2>2. CASE SerializeFails(c, sizes)
    BY <1>1, <2>1, <2>2 DEF SerializeFails, Return, ClientTypeOK
  <2>3. CASE Send(c, sizes) /\ sizes = <<>>
    <3>1. b = <<>>
      <4>1. Len(sent[c]) + 1 \in Nat  BY TypesAt
      <4> QED  BY <1>3, <2>3, <4>1, EventsNumbered
    <3> QED  BY <1>1, <2>3, <3>1 DEF Send, Return, ClientTypeOK
  <2>4. CASE Send(c, sizes) /\ sizes # <<>>
    BY <1>1, <2>1, <2>4 DEF Send, FeedOn, Return, ClientTypeOK
  <2> QED  BY <2>2, <2>3, <2>4
<1> QED  BY <1>2, <1>3, <1>4, <1>5, <1>6, StorySubmits

(* A step of a client begins a call, ends one, or is of no interest.       *)
LEMMA ClientStory ==
    ASSUME LumberjackInv, LumberjackInv', NEW c \in Conns, ConnOk(c), Healthy(c), ClientSide(c)
    PROVE  [Promise!Next]_(Promise!vars)
<1>1. Connect(c, loop # "stopped") \/ ClientRuntime(c) \/ ClientChoice(c)  BY DEF ClientSide
<1>2. \A d \in Conns : SameBooks(d) /\ (d # c => Same(d))  BY ClientElsewhere
<1>3. \A d \in Conns : Delivered(d)' = Delivered(d) /\ Released(d)' = Released(d)
  BY <1>2, SameReleased
<1>4. \A d \in Conns : d # c => SameStory(d)  BY <1>2, <1>3 DEF Same, SameClient, SameStory
<1>5. ClientTypeOK  BY DEF LumberjackInv
<1>6. CASE sent' = sent /\ outcome' = outcome
  <2>1. SameStory(c)  BY <1>3, <1>6 DEF SameStory
  <2> QED  BY <1>4, <2>1, StoryStutters
<1>7. ASSUME NEW e \in Errors, Return(c, Err(e)), InSend(c), sent' = sent
      PROVE  Promise!Next
  <2>1. outcome'[c] = Append(outcome[c], Err(e))  BY <1>5, <1>7 DEF Return, ClientTypeOK
  <2>2. Len(outcome[c]) \in Nat /\ Len(sent[c]) \in Nat  BY TypesAt
  <2>3. Len(outcome[c]) < Len(sent[c])  BY <1>7, <2>2 DEF ConnOk, Calls
  <2> QED  BY <1>3, <1>4, <1>7, <2>1, <2>3, StoryFails
<1>8. CASE \/ Connect(c, loop # "stopped") \/ ClientHandshake(c) \/ WriteOut(c)
           \/ CloseFails(c) \/ Close(c) \/ Drop(c)
  BY <1>6, <1>8 DEF Connect, ClientHandshake, WriteOut, CloseFails, Close, Drop
<1>9. CASE Feed(c)
  <2>1. "FrameTooLarge" \in Errors  BY DEF Errors
  <2>2. sent' = sent /\ InSend(c)  BY <1>9 DEF Feed, InSend
  <2>3. outcome' = outcome \/ Return(c, Err("FrameTooLarge"))  BY <1>9 DEF Feed, FeedOn
  <2> QED  BY <1>6, <1>7, <2>1, <2>2, <2>3
<1>10. CASE WriteError(c) \/ ReceiveEnd(c) \/ WriteTimeout(c) \/ AckTimeout(c) \/ Cancel(c)
  <2>1. PICK e \in Errors : Return(c, Err(e))
    BY <1>10, FatalErrors DEF WriteError, WriteTimeout, WriteTimed, ReceiveEnd, AckTimeout,
                              AckTimed, Cancel
  <2>2. sent' = sent /\ InSend(c)
    BY <1>10 DEF WriteError, WriteTimeout, WriteTimed, ReceiveEnd, AckTimeout, AckTimed,
                 Cancel, InSend
  <2> QED  BY <1>7, <2>1, <2>2
<1>11. CASE Receive(c)  BY <1>2, <1>4, <1>11, ReceiveStory
<1>12. CASE \E sizes \in Batches : Send(c, sizes) \/ SerializeFails(c, sizes)
  BY <1>2, <1>4, <1>12, SendStory
<1> QED  BY <1>1, <1>8, <1>9, <1>10, <1>11, <1>12 DEF ClientRuntime, ClientChoice

(* A handler hands the current batch over, or does nothing of interest.    *)
LEMMA HandlerStory ==
    ASSUME LumberjackInv, LumberjackInv', NEW c \in Conns, ConnOk(c), Healthy(c),
           HandlerSide(c)
    PROVE  [Promise!Next]_(Promise!vars)
<1>1. Handler(c) /\ UNCHANGED clientVars /\ UNCHANGED serverVars  BY DEF HandlerSide
<1>2. sent' = sent /\ outcome' = outcome  BY <1>1 DEF clientVars
<1>3. CASE queue' = queue
  <2>1. \A d \in Conns : SameBooks(d)  BY <1>1, <1>3, NoBatchMoves DEF serverVars
  <2>2. \A d \in Conns : SameStory(d)  BY <1>2, <2>1, SameReleased DEF SameStory
  <2> QED  BY <2>2, StoryStutters
<1>4. CASE queue' # queue
  <2>1. Dispatch(c)
    BY <1>1, <1>4 DEF Handler, Handshake, ReadWindow, Collect, ReadEnd, DispatchClosed,
                      AckReceived, KeepaliveDue, WriteAck, WriteAckFails
  <2>2. NewBatch(c) \in BatchSet /\ NewBatch(c).conn = c
    BY TypesAt DEF NewBatch, BatchSet
  <2>3. PICK b \in BatchSet : b = NewBatch(c)  BY <2>2
  <2>4. queue' = Append(queue, b) /\ b.conn = c  BY <2>1, <2>2, <2>3 DEF Dispatch
  <2>5. \A d \in Conns : Queued(d)' = IF d = c THEN Queued(d) \cup {b} ELSE Queued(d)
    BY <2>4, QueueAppend DEF LumberjackInv
  <2>6. \A d \in Conns : /\ Held(d)' = Held(d) /\ got'[d] = got[d] /\ lost'[d] = lost[d]
                         /\ d # c => SameBooks(d)
    BY <1>1, <2>5 DEF Held, serverVars, SameBooks
  <2>7. \A d \in Conns : d # c => SameStory(d)
    BY <1>2, <2>6, SameReleased DEF SameStory
  <2>8. DispatchesAt(c)
    BY <2>1, <2>3, <2>5, <2>6
    DEF Dispatch, DispatchesAt, locals, LumberjackInv, ServerInv, ServerTypes, ConnTypeOK
  <2>9. /\ Fresh(c) /\ NothingOut(c) /\ sent[c] # <<>> /\ Current(c) # <<>>
        /\ Queued(c)' = {NewBatch(c)} /\ Delivered(c)' = Append(Delivered(c), Current(c))
        /\ SendOf(Current(c)) = Len(sent[c])
    BY <2>8, Handing
  <2>10. Current(c) \notin Range(Delivered(c))
    <3>1. Len(sent[c]) \in Nat  BY TypesAt
    <3> QED  BY <2>9, <3>1 DEF Fresh, AllBefore, Range
  <2>11. Delivered(c) \in Seq(Seq(Event)) /\ Current(c) \in Seq(Event)
    BY <2>9, DeliveredType, CurrentType DEF ConnOk, Calls
  <2>12. Released(c) = Len(Delivered(c)) /\ Released(c)' = Released(c)
    <3>1. Len(Delivered(c)) \in Nat /\ Len(Delivered(c)') = Len(Delivered(c)) + 1
      BY <2>9, <2>11, AppendProperties
    <3>2. Released(c) = Len(Delivered(c))
      BY <2>9, <3>1, ReleasedCounts DEF NothingOut
    <3>3. Released(c)' = Len(Delivered(c)') - 1  BY <2>9, ReleasedAfter
    <3> QED  BY <3>1, <3>2, <3>3
  <2> QED  BY <1>2, <2>7, <2>9, <2>10, <2>12, StoryDelivers
<1> QED  BY <1>3, <1>4

(* The one batch that is out is acknowledged or dropped.                   *)
LEMMA OneReleased ==
    ASSUME LumberjackInv, LumberjackInv', NEW c \in Conns, UNCHANGED clientVars,
           \A d \in Conns : d # c => SameBooks(d), Delivered(c)' = Delivered(c),
           Queued(c) \cup Held(c) # {}, Queued(c)' \cup Held(c)' = {}
    PROVE  Promise!Next
<1>1. sent' = sent /\ outcome' = outcome  BY DEF clientVars
<1>2. \A d \in Conns : d # c => SameStory(d)  BY <1>1, SameReleased DEF SameStory
<1>3. Len(Delivered(c)) \in Nat
  <2>1. Delivered(c) \in Seq(Seq(Event))  BY DeliveredType
  <2> QED  BY <2>1
<1>4. Released(c) = Len(Delivered(c)) - 1 /\ Released(c)' = Len(Delivered(c))
  BY <1>3, ReleasedCounts, ReleasedAfter
<1> QED  BY <1>1, <1>2, <1>3, <1>4, StoryReleases

(* The application or the dropped channel releases a batch; recv and the   *)
(* accept loop change nothing of interest.                                 *)
LEMMA ServerStory ==
    ASSUME LumberjackInv, LumberjackInv', LostLate, ServerSide
    PROVE  [Promise!Next]_(Promise!vars)
<1>1. ServerStep /\ UNCHANGED clientVars  BY DEF ServerSide
<1>2. sent' = sent /\ outcome' = outcome  BY <1>1 DEF clientVars
<1>3. CASE UNCHANGED <<queue, held, got, lost>>
  <2>1. \A d \in Conns : SameBooks(d)  BY <1>3, NoBatchMoves
  <2>2. \A d \in Conns : SameStory(d)  BY <1>2, <2>1, SameReleased DEF SameStory
  <2> QED  BY <2>2, StoryStutters
<1>4. CASE Recv
  <2>1. PICK b \in BatchSet : b = Head(queue)  BY <1>4, PopQueue DEF LumberjackInv, Recv
  <2>2. PICK c \in Conns : c = b.conn  BY DEF BatchSet
  <2>3. /\ Queued(c) = {b} /\ Held(c)' = {b} /\ Delivered(c)' = Delivered(c)
        /\ \A d \in Conns : d # c => SameBooks(d)
    BY <1>4, <2>1, <2>2, RecvBooks
  <2>4. Released(c)' = Released(c)  BY <2>3, ReleasedCounts, ReleasedAfter
  <2>5. \A d \in Conns : SameStory(d)  BY <1>2, <2>3, <2>4, SameReleased DEF SameStory
  <2> QED  BY <2>5, StoryStutters
<1>5. CASE DropQueued
  <2>1. PICK b \in BatchSet : b = Head(queue)
    BY <1>5, PopQueue DEF LumberjackInv, DropQueued
  <2>2. PICK c \in Conns : c = b.conn  BY DEF BatchSet
  <2>3. /\ Queued(c) = {b} /\ Queued(c)' = {} /\ Held(c)' = {} /\ Delivered(c)' = Delivered(c)
        /\ \A d \in Conns : d # c => SameBooks(d)
    BY <1>5, <2>1, <2>2, DropBooks
  <2> QED  BY <1>1, <2>3, OneReleased
<1>6. ASSUME NEW b \in held, Resolve(b)  PROVE Promise!Next
  <2>1. b \in BatchSet /\ b.conn \in Conns
    BY DEF LumberjackInv, ServerInv, ServerTypes, ServerTypeOK, BatchSet
  <2>2. PICK c \in Conns : c = b.conn  BY <2>1
  <2>3. held' = held \ {b} /\ queue' = queue /\ got' = got /\ lost' = lost
    BY <1>6 DEF Resolve
  <2>4. \A d \in Conns : d # c => SameBooks(d)  BY <2>2, <2>3 DEF SameBooks, Held, Queued
  <2>5. Queued(c)' = Queued(c) /\ Delivered(c)' = Delivered(c)
    BY <2>3 DEF Queued, Delivered
  <2>6. b \in Held(c) /\ \A a \in Held(c) : a = b
    BY <2>2, QueuedOnce DEF Held, LumberjackInv
  <2>7. Held(c)' = {}  BY <2>3, <2>6 DEF Held
  <2>8. Queued(c) = {}
    BY <2>6, QueuedOnce DEF LumberjackInv, ServerInv, OneOutstanding
  <2> QED  BY <1>1, <2>4, <2>5, <2>6, <2>7, <2>8, OneReleased
<1>7. CASE \/ \E c \in Conns : Accept(c) \/ TaskEnd(c)
           \/ ShutdownSeen \/ AcceptFails \/ RecvNone \/ Shutdown \/ CloseReceiver
  BY <1>3, <1>7 DEF Accept, TaskEnd, ShutdownSeen, AcceptFails, StopLoop, RecvNone, Shutdown,
                    CloseReceiver, connVars, serverVars
<1> QED  BY <1>1, <1>4, <1>5, <1>6, <1>7 DEF ServerStep

(* Every step of the system is a step of Delivery, or none.                *)
LEMMA EveryStory ==
    ASSUME Reusing = {}, WireInv, [Next]_vars
    PROVE  [Promise!Next]_(Promise!vars)
<1>1. /\ LumberjackInv /\ LostLate /\ \A d \in Conns : ConnOk(d) /\ Healthy(d)
  BY DEF WireInv, Healthy
<1>2. LumberjackInv'  BY <1>1, InvKept
<1>3. ASSUME NEW c \in Conns, ClientSide(c)  PROVE [Promise!Next]_(Promise!vars)
  BY <1>1, <1>2, <1>3, ClientStory
<1>4. ASSUME NEW c \in Conns, HandlerSide(c)  PROVE [Promise!Next]_(Promise!vars)
  BY <1>1, <1>2, <1>4, HandlerStory
<1>5. CASE ServerSide  BY <1>1, <1>2, <1>5, ServerStory
<1>6. CASE \/ \E c \in Conns : LinkSide(c)
           \/ UNCHANGED vars
  <2>1. UNCHANGED <<queue, held, got, lost, sent, outcome>>
    BY <1>6 DEF LinkSide, vars, clientVars, connVars, serverVars
  <2>2. \A d \in Conns : SameBooks(d)  BY <2>1, NoBatchMoves
  <2>3. \A d \in Conns : SameStory(d)  BY <2>1, <2>2, SameReleased DEF SameStory
  <2> QED  BY <1>1, <1>2, <2>3, StoryStutters
<1> QED  BY <1>3, <1>4, <1>5, <1>6 DEF Next, Terminated

(* Clients, pipes, handlers, channel and application together do what      *)
(* Delivery says, connection by connection, for clients that are not used  *)
(* after an error: a batch is handed over at most once, whole and in       *)
(* order, one at a time, and send says Ok only after the batch of that     *)
(* call was handed over and released.                                      *)
THEOREM KeepsThePromise ==
    ASSUME Reusing = {}
    PROVE  Spec => ImplementsDelivery
<1>1. ASSUME Init  PROVE Promise!Init
  <2>1. sent = [c \in Conns |-> <<>>] /\ outcome = [c \in Conns |-> <<>>]
    BY <1>1 DEF Init, ClientInit
  <2>2. ASSUME NEW c \in Conns  PROVE Delivered(c) = <<>> /\ Released(c) = 0
    <3>1. got[c] = <<>> /\ lost[c] = <<>> /\ queue = <<>> /\ held = {}
      BY <1>1 DEF Init, ConnInit, ServerInit
    <3>2. Queued(c) = {} /\ Held(c) = {}  BY <3>1 DEF Queued, Held, Range
    <3>3. Delivered(c) = <<>>  BY <3>1, <3>2 DEF Delivered
    <3> QED  BY <3>2, <3>3, ReleasedCounts
  <2>3. [c \in Conns |-> Delivered(c)] = [c \in Conns |-> <<>>]  BY <2>2
  <2>4. [c \in Conns |-> Released(c)] = [c \in Conns |-> 0]  BY <2>2
  <2> QED  BY <2>1, <2>3, <2>4 DEF Promise!Init
<1>2. WireInv /\ [Next]_vars => [Promise!Next]_(Promise!vars)  BY EveryStory
<1> QED  BY <1>1, <1>2, WireHolds, PTL DEF Spec, ImplementsDelivery, Promise!Spec

-----------------------------------------------------------------------------
(* How a handler ends *)

(* The fault of frames that are not in order is that of the first that is  *)
(* bad.                                                                    *)
LEMMA FirstFault ==
    ASSUME NEW fs \in Seq(FrameSet), NEW prev \in Nat, ~InOrder(fs, prev)
    PROVE  \E k \in DOMAIN fs : /\ IsFirstBad(k, fs, prev)
                                /\ fs[k].type = "X" => Fault(fs, prev) = fs[k].err
<1> DEFINE bad == {i \in DOMAIN fs : ~FrameOk(fs, i, prev)}
<1>1. bad \in SUBSET Nat /\ bad # {}  BY DEF InOrder
<1>2. PICK k \in bad : \A i \in bad : k <= i
  <2> HIDE DEF bad
  <2> QED  BY <1>1, LeastNatural
<1>3. k \in DOMAIN fs /\ IsFirstBad(k, fs, prev)  BY <1>2 DEF IsFirstBad
<1> DEFINE first == CHOOSE i \in DOMAIN fs : IsFirstBad(i, fs, prev)
<1>4. first \in DOMAIN fs /\ IsFirstBad(first, fs, prev)  BY <1>3
<1>5. fs[first].type = "X" => Fault(fs, prev) = fs[first].err  BY DEF Fault
<1> QED  BY <1>4, <1>5

(* A single frame that does not decode is the fault.                       *)
LEMMA OnlyFault ==
    ASSUME NEW e \in Errors, NEW prev \in Nat
    PROVE  Fault(<<Bad(e)>>, prev) = e
<1>1. Bad(e) \in FrameSet /\ Bad(e).type = "X" /\ Bad(e).err = e
  BY DEF Bad, FrameSet, InnerFrames, BadFrames
<1>2. PICK f \in FrameSet : f = Bad(e)  BY <1>1
<1>3. <<f>> \in Seq(FrameSet) /\ DOMAIN <<f>> = {1} /\ <<f>>[1] = f  OBVIOUS
<1>4. ~InOrder(<<f>>, prev)  BY <1>1, <1>2, <1>3 DEF InOrder, FrameOk
<1>5. PICK k \in DOMAIN <<f>> : <<f>>[k].type = "X" => Fault(<<f>>, prev) = <<f>>[k].err
  BY <1>3, <1>4, FirstFault
<1> QED  BY <1>1, <1>2, <1>3, <1>5

(* Of the events of a batch in one compressed frame, the first bad one is  *)
(* above the limit: they are numbered in order.                            *)
LEMMA PackedFault ==
    ASSUME NEW ee \in Seq(InnerFrames), NEW cur \in Seq(Event), Len(ee) = Len(cur),
           \A k \in 1..Len(cur) : ee[k] = Json(k, cur[k]),
           NEW fs \in Seq(FrameSet), Len(fs) = Len(cur),
           \A i \in 1..Len(cur) : fs[i] = DecodeWithLimit(ee[i], ServerMax),
           ~InOrder(fs, 0)
    PROVE  /\ Fault(fs, 0) = "FrameTooLarge"
           /\ \E i \in DOMAIN ee : Oversize(ee[i], ServerMax)
<1>1. PICK k \in DOMAIN fs : /\ IsFirstBad(k, fs, 0)
                             /\ fs[k].type = "X" => Fault(fs, 0) = fs[k].err
  BY FirstFault
<1>2. /\ Len(cur) \in Nat /\ DOMAIN fs = 1..Len(cur) /\ DOMAIN ee = 1..Len(cur)
      /\ k \in 1..Len(cur)
  OBVIOUS
<1>3. Oversize(ee[k], ServerMax)
  <2>1. SUFFICES ASSUME ~Oversize(ee[k], ServerMax)  PROVE FrameOk(fs, k, 0)
    BY <1>1 DEF IsFirstBad
  <2>2. fs[k] = Json(k, cur[k])  BY <1>2, <2>1 DEF DecodeWithLimit
  <2>3. fs[k].type = "J" /\ fs[k].seq = k  BY <2>2 DEF Json
  <2>4. k > PrevSeq(fs, k, 0)
    <3>1. CASE k = 1  BY <3>1 DEF PrevSeq
    <3>2. CASE k # 1
      <4>1. k - 1 \in 1..(k - 1) /\ k - 1 \in 1..Len(cur) /\ k > k - 1  BY <1>2, <3>2
      <4>2. fs[k - 1].type = "J"  BY <1>1, <4>1 DEF IsFirstBad, FrameOk
      <4>3. fs[k - 1] = ee[k - 1]  BY <4>1, <4>2 DEF DecodeWithLimit, Bad
      <4>4. ee[k - 1] = Json(k - 1, cur[k - 1])  BY <4>1
      <4>5. fs[k - 1].seq = k - 1  BY <4>3, <4>4 DEF Json
      <4> QED  BY <3>2, <4>1, <4>5 DEF PrevSeq
    <3> QED  BY <3>1, <3>2
  <2> QED  BY <2>3, <2>4 DEF FrameOk, SeqOk
<1>4. fs[k] = Bad("FrameTooLarge")  BY <1>2, <1>3 DEF DecodeWithLimit
<1>5. fs[k].type = "X" /\ fs[k].err = "FrameTooLarge"  BY <1>4 DEF Bad
<1> QED  BY <1>1, <1>2, <1>3, <1>5

(* What can be wrong with the frames a handler collects: a client that     *)
(* went away inside a frame, or an event above the server's limit.         *)
LEMMA CollectFault ==
    ASSUME LumberjackInv, NEW c \in Conns, ConnOk(c), CanCollect(c),
           NEW fs, fs = Taken(c), ~InOrder(fs, last_seq[c])
    PROVE  \/ cEnd[c] = "closed" /\ Fault(fs, last_seq[c]) = "Io"
           \/ /\ Fault(fs, last_seq[c]) = "FrameTooLarge"
              /\ \E f \in Range(Encoded(c)) : TooLarge(f)
<1> DEFINE n == Len(events[c])
           cur == Current(c)
           prev == last_seq[c]
<1>1. PICK j \in Nat : j = 1 + n  BY TypesAt
<1>2. fs = Contents(NextFrame(c), window[c] - n) /\ link[c] # "reset" /\ c2s[c] # <<>>
  BY DEF Taken, CanCollect
<1>3. sent[c] # <<>> /\ cur # <<>> /\ Collected(c) /\ OnTheWay(c, j)
  BY <1>1 DEF CanCollect, InTransit, Partly
<1>4. cur \in Seq(Event) /\ Len(cur) < U32 /\ Len(cur) \in Nat
      /\ Encoded(c) \in Seq(FrameSet) /\ Len(Encoded(c)) \in Nat
  BY <1>3, CurrentType DEF ConnOk, Calls
<1>5. n \in Nat /\ prev \in Nat /\ prev = n  BY <1>3, TypesAt DEF Collected
<1>6. n < Len(cur) /\ window[c] = Len(cur)
  BY <1>3 DEF LumberjackInv, ServerInv, CollectRoom, CanCollect, Partly, Collected
<1>7. /\ j + 1 <= Len(Encoded(c))
      /\ \/ NextFrame(c) = DecodeWithLimit(Encoded(c)[j + 1], ServerMax)
         \/ cEnd[c] = "closed" /\ NextFrame(c) = Bad("Io")
  BY <1>2, <1>3, NextIsNext
<1>8. PICK f : f = Encoded(c)[j + 1]  OBVIOUS
<1>9. f \in Range(Encoded(c))
  <2>1. j + 1 \in DOMAIN Encoded(c)  BY <1>4, <1>7
  <2> QED  BY <1>8, <2>1 DEF Range
<1>10. \A e : NextFrame(c) = Bad(e) => fs = <<Bad(e)>>  BY <1>2 DEF Contents, Bad
<1>11. CASE cEnd[c] = "closed" /\ NextFrame(c) = Bad("Io")
  <2>1. Fault(fs, prev) = "Io"
    <3>1. "Io" \in Errors  BY DEF Errors
    <3> QED  BY <1>5, <1>10, <1>11, <3>1, OnlyFault
  <2> QED  BY <1>11, <2>1
<1>12. CASE NextFrame(c) = DecodeWithLimit(f, ServerMax) /\ Oversize(f, ServerMax)
  <2>1. NextFrame(c) = Bad("FrameTooLarge")  BY <1>12 DEF DecodeWithLimit
  <2>2. Fault(fs, prev) = "FrameTooLarge"
    <3>1. "FrameTooLarge" \in Errors  BY DEF Errors
    <3> QED  BY <1>5, <1>10, <2>1, <3>1, OnlyFault
  <2> QED  BY <1>9, <1>12, <2>2 DEF TooLarge
<1>13. CASE NextFrame(c) = f /\ c \notin Compressing
  <2>1. f = Json(n + 1, cur[n + 1])
    <3>1. n + 1 \in 1..Len(cur) /\ j + 1 = 1 + (n + 1)  BY <1>1, <1>4, <1>5, <1>6
    <3> QED  BY <1>4, <1>8, <1>13, <3>1, FramesOfBatch DEF Encoded
  <2>2. fs = <<f>> /\ f.type = "J" /\ f.seq = n + 1
    BY <1>2, <1>13, <2>1 DEF Contents, Json
  <2>3. DOMAIN <<f>> = {1} /\ <<f>>[1] = f  OBVIOUS
  <2>4. SeqOk(f.seq, PrevSeq(fs, 1, prev))  BY <1>5, <2>2 DEF SeqOk, PrevSeq
  <2>5. InOrder(fs, prev)  BY <2>2, <2>3, <2>4 DEF InOrder, FrameOk
  <2> QED  BY <2>5
<1>14. CASE NextFrame(c) = f /\ c \in Compressing
  <2>1. PICK ee : ee = EncodedEvents(cur)  OBVIOUS
  <2>2. n = 0 /\ j + 1 = 2 /\ window[c] - n = Len(cur)
    BY <1>1, <1>4, <1>6, <1>14 DEF CanCollect, Partly
  <2>3. /\ ee \in Seq(InnerFrames) /\ Len(ee) = Len(cur)
        /\ \A k \in 1..Len(cur) : ee[k] = Json(k, cur[k])
        /\ f = Compressed(ee)
    BY <1>4, <1>8, <1>14, <2>1, <2>2, FramesOfBatch DEF Encoded
  <2>4. fs = [i \in 1..Min({Len(ee), Len(cur)}) |-> DecodeWithLimit(ee[i], ServerMax)]
    <3>1. fs = Contents(Compressed(ee), Len(cur))  BY <1>2, <1>14, <2>2, <2>3
    <3> HIDE DEF cur
    <3> QED  BY <3>1 DEF Contents, Compressed
  <2>5. Min({Len(ee), Len(cur)}) = Len(cur)  BY <1>4, <2>3, MinOfTwo
  <2>6. fs = [i \in 1..Len(cur) |-> DecodeWithLimit(ee[i], ServerMax)]  BY <2>4, <2>5
  <2>7. fs \in Seq(FrameSet) /\ Len(fs) = Len(cur)
    <3>1. \A i \in 1..Len(cur) : ee[i] \in FrameSet  BY <2>3 DEF FrameSet
    <3>2. \A i \in 1..Len(cur) : DecodeWithLimit(ee[i], ServerMax) \in FrameSet
      BY <3>1, DecodeType, ConnectionAssumption
    <3> HIDE DEF cur
    <3> QED  BY <1>4, <2>6, <3>2
  <2>8. \A i \in 1..Len(cur) : fs[i] = DecodeWithLimit(ee[i], ServerMax)  BY <2>6
  <2>9. ~InOrder(fs, 0)  BY <1>5, <2>2
  <2>10. Fault(fs, 0) = "FrameTooLarge" /\ \E i \in DOMAIN ee : Oversize(ee[i], ServerMax)
    <3> HIDE DEF cur
    <3> QED  BY <1>4, <2>3, <2>7, <2>8, <2>9, PackedFault
  <2>11. TooLarge(f)  BY <2>3, <2>10 DEF TooLarge, Compressed
  <2> QED  BY <1>5, <1>9, <2>2, <2>10, <2>11
<1> QED  BY <1>7, <1>8, <1>11, <1>12, <1>13, <1>14 DEF DecodeWithLimit

(* The invariant: a task is in a handshake only with TLS, and every result *)
(* so far is as expected.                                                  *)
EndsInv ==
    \A c \in Conns : /\ spc[c] = "handshake" => Tls
                     /\ c \notin Reusing => EndsAsExpected(c)

(* What explains a result never goes away again.                           *)
StillExplained(c) ==
    /\ cEnd[c] = "closed" => cEnd'[c] = "closed"
    /\ link[c] = "reset" => link'[c] = "reset"
    /\ rx = "dropped" => rx' = "dropped"
    /\ \A k \in DOMAIN sent[c] : k \in DOMAIN sent'[c] /\ sent'[c][k] = sent[c][k]

(* An expected result stays as expected.                                   *)
LEMMA ExpectedStays ==
    ASSUME NEW c \in Conns, EndsAsExpected(c), StillExplained(c), result'[c] = result[c]
    PROVE  EndsAsExpected(c)'
<1>1. CASE result[c] = "FrameTooLarge"
  <2>1. PICK k \in DOMAIN sent[c] : \E f \in Range(BatchFrames(c, sent[c][k])) : TooLarge(f)
    BY <1>1 DEF EndsAsExpected
  <2>2. k \in DOMAIN sent'[c] /\ sent'[c][k] = sent[c][k]  BY DEF StillExplained
  <2>3. \E f \in Range(BatchFrames(c, sent'[c][k])) : TooLarge(f)  BY <2>1, <2>2
  <2> QED  BY <1>1, <2>2, <2>3 DEF EndsAsExpected
<1>2. CASE result[c] # "FrameTooLarge"
  BY <1>2 DEF EndsAsExpected, StillExplained
<1> QED  BY <1>1, <1>2

(* A client only connects, closes its end, and makes calls.                *)
LEMMA ClientKeepsExplained ==
    ASSUME LumberjackInv, NEW c \in Conns, ClientSide(c), NEW d \in Conns
    PROVE  StillExplained(d)
<1>1. /\ Connect(c, loop # "stopped") \/ ClientRuntime(c) \/ ClientChoice(c)
      /\ UNCHANGED connVars
  BY DEF ClientSide
<1>2. rx' = rx  BY <1>1 DEF connVars
<1>3. CASE d # c
  <2>1. Same(d)  BY <1>3, ClientElsewhere
  <2> QED  BY <1>2, <2>1 DEF Same, SameLink, SameClient, StillExplained
<1>4. CASE d = c
  <2>1. ClientTypeOK /\ TransportTypeOK  BY DEF LumberjackInv, ServerInv, ServerTypes
  <2>2. CASE Connect(c, loop # "stopped")
    <3>1. link[c] = "none"  BY <2>2 DEF Connect, LumberjackInv, ClientShape
    <3> QED  BY <1>2, <1>4, <2>1, <2>2, <3>1 DEF Connect, StillExplained, TransportTypeOK
  <2>3. CASE \/ ClientHandshake(c) \/ Feed(c) \/ WriteOut(c) \/ WriteError(c) \/ Receive(c)
             \/ ReceiveEnd(c) \/ CloseFails(c) \/ WriteTimeout(c) \/ AckTimeout(c) \/ Cancel(c)
             \/ Close(c) \/ Drop(c)
    <3>1. link' = link /\ sent' = sent
      BY <2>3 DEF ClientHandshake, Feed, WriteOut, WriteError, Receive, ReceiveEnd, CloseFails,
                  WriteTimeout, WriteTimed, AckTimeout, AckTimed, Cancel, Close, Drop, transportVars
    <3>2. cEnd' = cEnd \/ cEnd' = [cEnd EXCEPT ![c] = "closed"]
      BY <2>3 DEF ClientHandshake, Feed, WriteOut, WriteError, Receive, ReceiveEnd, CloseFails,
                  WriteTimeout, WriteTimed, AckTimeout, AckTimed, Cancel, Close, Drop, transportVars
    <3> QED  BY <1>2, <1>4, <2>1, <3>1, <3>2 DEF StillExplained, TransportTypeOK
  <2>4. ASSUME NEW sizes \in Batches, Send(c, sizes) \/ SerializeFails(c, sizes)
        PROVE  StillExplained(d)
    <3>1. PICK e : sent'[c] = Append(sent[c], e)
      BY <2>1, <2>4 DEF Send, SerializeFails, ClientTypeOK
    <3>2. sent[c] \in Seq(Seq(Event))  BY TypesAt
    <3>3. \A k \in DOMAIN sent[c] : k \in DOMAIN sent'[c] /\ sent'[c][k] = sent[c][k]
      <4>1. PICK s \in Seq(Seq(Event)) : s = sent[c]  BY <3>2
      <4>2. \A k \in DOMAIN s : k \in DOMAIN Append(s, e) /\ Append(s, e)[k] = s[k]
        OBVIOUS
      <4> QED  BY <3>1, <4>1, <4>2
    <3>4. link' = link /\ cEnd' = cEnd  BY <2>4 DEF Send, SerializeFails, transportVars
    <3> QED  BY <1>2, <1>4, <3>3, <3>4 DEF StillExplained
  <2> QED  BY <1>1, <2>2, <2>3, <2>4 DEF ClientRuntime, ClientChoice
<1> QED  BY <1>3, <1>4

(* Nor do handler, server and link take an explanation back.               *)
LEMMA OthersKeepExplained ==
    ASSUME LumberjackInv, NEW d \in Conns,
           \/ \E c \in Conns : HandlerSide(c) \/ LinkSide(c)
           \/ ServerSide \/ UNCHANGED vars
    PROVE  StillExplained(d)
<1>1. sent' = sent  BY DEF HandlerSide, LinkSide, ServerSide, vars, clientVars
<1>2. TransportTypeOK  BY DEF LumberjackInv, ServerInv, ServerTypes
<1>3. ASSUME NEW c \in Conns, Handler(c)  PROVE UNCHANGED <<link, cEnd, rx>>
  BY <1>3 DEF Handler, Handshake, ReadWindow, Collect, ReadEnd, Dispatch, DispatchClosed,
              AckReceived, KeepaliveDue, WriteAck, WriteAckFails, transportVars
<1>4. CASE \/ \E c \in Conns : HandlerSide(c)
           \/ UNCHANGED vars
  <2>1. UNCHANGED <<link, cEnd, rx>>
    BY <1>3, <1>4 DEF HandlerSide, vars, transportVars, connVars
  <2> QED  BY <1>1, <2>1 DEF StillExplained
<1>5. ASSUME NEW c \in Conns, LinkSide(c)  PROVE StillExplained(d)
  BY <1>1, <1>2, <1>5 DEF LinkSide, LinkReset, connVars, StillExplained, TransportTypeOK
<1>6. ASSUME ServerStep  PROVE StillExplained(d)
  <2>1. CASE \E c \in Conns : Accept(c)
    BY <1>1, <1>2, <2>1 DEF Accept, StillExplained, TransportTypeOK
  <2>2. CASE ShutdownSeen \/ AcceptFails
    BY <1>1, <1>2, <2>2 DEF ShutdownSeen, AcceptFails, StopLoop, StillExplained,
                            TransportTypeOK, connVars
  <2>3. CASE \/ \E c \in Conns : TaskEnd(c)
             \/ Recv \/ RecvNone \/ \E b \in held : Resolve(b)
             \/ Shutdown \/ CloseReceiver \/ DropQueued
    <3>1. UNCHANGED <<link, cEnd>> /\ (rx = "dropped" => rx' = "dropped")
      BY <2>3 DEF TaskEnd, Recv, RecvNone, Resolve, Shutdown, CloseReceiver, DropQueued,
                  transportVars, connVars
    <3> QED  BY <1>1, <3>1 DEF StillExplained
  <2> QED  BY <1>6, <2>1, <2>2, <2>3 DEF ServerStep
<1> QED  BY <1>4, <1>5, <1>6 DEF ServerSide

(* The result of a handler that returns is as expected.                    *)
LEMMA ReturnsAsExpected ==
    ASSUME LumberjackInv, NEW c \in Conns, ConnOk(c), Healthy(c), Handler(c),
           spc[c] = "handshake" => Tls, sent' = sent, NEW r, Finish(c, r)
    PROVE  EndsAsExpected(c)'
<1>1. result'[c] = r
  BY DEF Finish, LumberjackInv, ServerInv, ServerTypes, ConnTypeOK
<1>2. UNCHANGED <<link, cEnd, rx>>
  BY DEF Handler, Handshake, ReadWindow, Collect, ReadEnd, Dispatch, DispatchClosed,
         AckReceived, KeepaliveDue, WriteAck, WriteAckFails, transportVars
<1>3. \A q : Finish(c, q) => q = r
  BY DEF Finish, LumberjackInv, ServerInv, ServerTypes, ConnTypeOK
<1>4. spc'[c] = "ending" /\ spc[c] \in ConnPcs
  BY DEF Finish, LumberjackInv, ServerInv, ServerTypes, ConnTypeOK
<1>5. CASE r \in {"Io", "ConnectionClosed"} /\ (cEnd[c] = "closed" \/ link[c] = "reset")
  BY <1>1, <1>2, <1>5 DEF EndsAsExpected
<1>6. CASE r = "Ok" /\ (cEnd[c] = "closed" \/ rx = "dropped")
  BY <1>1, <1>2, <1>6 DEF EndsAsExpected
<1>7. CASE Handshake(c)
  <2>1. spc[c] = "handshake" /\ Finish(c, "Handshake")
    BY <1>4, <1>7 DEF Handshake, LumberjackInv, ServerInv, ServerTypes, ConnTypeOK
  <2>2. r = "Handshake" /\ Tls  BY <1>3, <2>1
  <2> QED  BY <1>1, <2>2 DEF EndsAsExpected
<1>8. CASE ReadWindow(c)
  <2>1. spc[c] = "window" /\ link[c] # "reset" /\ c2s[c] # <<>>
    BY <1>8 DEF ReadWindow, Readable
  <2>2. InTransit(c) /\ Unread(c)
    BY <2>1, Phases DEF AtRest, Drained, Partly, HandedOver, Answered, Waits, Ended
  <2>3. PICK j \in Nat : j = 0  OBVIOUS
  <2>4. OnTheWay(c, j) /\ sent[c] # <<>>  BY <2>2, <2>3 DEF InTransit, Unread
  <2>5. \/ NextFrame(c) = DecodeWithLimit(Encoded(c)[j + 1], ServerMax)
        \/ cEnd[c] = "closed" /\ NextFrame(c) = Bad("Io")
    BY <2>1, <2>4, NextIsNext
  <2>6. NextFrame(c).type # "W"
    BY <1>4, <1>8 DEF ReadWindow, LumberjackInv, ServerInv, ServerTypes, ConnTypeOK
  <2>7. cEnd[c] = "closed" /\ NextFrame(c) = Bad("Io")
    <3>1. Current(c) \in Seq(Event) /\ Len(Current(c)) < U32
      BY <2>4, CurrentType DEF ConnOk, Calls
    <3>2. Encoded(c)[j + 1] = Window(Len(Current(c)))
      BY <2>3, <3>1, FramesOfBatch DEF Encoded
    <3>3. DecodeWithLimit(Encoded(c)[j + 1], ServerMax).type = "W"
      BY <3>2 DEF DecodeWithLimit, Oversize, Window
    <3> QED  BY <2>5, <2>6, <3>3
  <2>8. Finish(c, "Io")  BY <1>8, <2>6, <2>7 DEF ReadWindow, Bad
  <2> QED  BY <1>3, <1>5, <2>7, <2>8
<1>9. CASE Collect(c)
  <2>1. spc[c] = "collect" /\ link[c] # "reset" /\ c2s[c] # <<>>
    BY <1>9 DEF Collect, Readable
  <2>2. CanCollect(c)
    BY <2>1, Phases DEF AtRest, Unread, HandedOver, Answered, Ended, CanCollect
  <2>3. PICK fs : fs = Taken(c)  OBVIOUS
  <2>4. ~InOrder(fs, last_seq[c]) /\ Finish(c, Fault(fs, last_seq[c]))
    BY <1>4, <1>9, <2>1, <2>3
    DEF Collect, Taken, LumberjackInv, ServerInv, ServerTypes, ConnTypeOK
  <2>5. r = Fault(fs, last_seq[c])  BY <1>3, <2>4
  <2>6. \/ cEnd[c] = "closed" /\ r = "Io"
        \/ r = "FrameTooLarge" /\ \E f \in Range(Encoded(c)) : TooLarge(f)
    BY <2>2, <2>3, <2>4, <2>5, CollectFault
  <2>7. CASE r = "FrameTooLarge" /\ \E f \in Range(Encoded(c)) : TooLarge(f)
    <3>1. sent[c] # <<>>  BY <2>2 DEF CanCollect, InTransit
    <3>2. Len(sent[c]) \in DOMAIN sent[c]  BY <3>1, CurrentType DEF ConnOk, Calls
    <3>3. Encoded(c) = BatchFrames(c, sent[c][Len(sent[c])])  BY DEF Encoded, Current
    <3>4. \E k \in DOMAIN sent[c] : \E f \in Range(BatchFrames(c, sent[c][k])) : TooLarge(f)
      BY <2>7, <3>2, <3>3
    <3> QED  BY <1>1, <2>7, <3>4 DEF EndsAsExpected
  <2> QED  BY <1>5, <2>6, <2>7
<1>10. CASE ReadEnd(c)
  BY <1>3, <1>5, <1>6, <1>10 DEF ReadEnd, AtEof
<1>11. CASE DispatchClosed(c)  BY <1>3, <1>6, <1>11 DEF DispatchClosed
<1>12. CASE WriteAckFails(c)  BY <1>3, <1>5, <1>12 DEF WriteAckFails, WriteFails
<1>13. CASE Dispatch(c) \/ AckReceived(c) \/ KeepaliveDue(c) \/ WriteAck(c)
  BY <1>4, <1>13 DEF Dispatch, AckReceived, KeepaliveDue, WriteAck, LumberjackInv, ServerInv,
                     ServerTypes, ConnTypeOK
<1> QED  BY <1>7, <1>8, <1>9, <1>10, <1>11, <1>12, <1>13 DEF Handler

(* A handler reports once, when it returns, and never goes back to the     *)
(* handshake.                                                              *)
LEMMA HandlerReports ==
    ASSUME LumberjackInv, NEW c \in Conns, Handler(c)
    PROVE  /\ (\E r : Finish(c, r)) \/ result' = result
           /\ \A d \in Conns : /\ d # c => result'[d] = result[d] /\ spc'[d] = spc[d]
                               /\ spc'[d] = "handshake" => spc[d] = "handshake"
<1>1. ConnTypeOK  BY DEF LumberjackInv, ServerInv, ServerTypes
<1>2. (\E r : Finish(c, r)) \/ result' = result
  BY DEF Handler, Handshake, ReadWindow, Collect, ReadEnd, Dispatch, DispatchClosed,
         AckReceived, KeepaliveDue, WriteAck, WriteAckFails
<1>3. \A d \in Conns : d # c => result'[d] = result[d]
  BY <1>1, <1>2 DEF Finish, ConnTypeOK
<1>4. \E pc : spc' = [spc EXCEPT ![c] = pc] /\ pc # "handshake"
  <2>1. ASSUME NEW r, Finish(c, r)
        PROVE  \E pc : spc' = [spc EXCEPT ![c] = pc] /\ pc # "handshake"
    <3>1. spc' = [spc EXCEPT ![c] = "ending"] /\ "ending" # "handshake"  BY <2>1 DEF Finish
    <3> QED  BY <3>1
  <2>2. CASE ~\E r : Finish(c, r)
    <3>1. CASE Collect(c)
      BY <1>1, <2>2, <3>1 DEF Collect, ConnTypeOK
    <3> QED  BY <2>2, <3>1 DEF Handler, Handshake, ReadWindow, ReadEnd, Dispatch,
               DispatchClosed, AckReceived, KeepaliveDue, WriteAck, WriteAckFails
  <2> QED  BY <2>1, <2>2
<1>5. \A d \in Conns : /\ d # c => spc'[d] = spc[d]
                       /\ spc'[d] = "handshake" => spc[d] = "handshake"
  BY <1>1, <1>4 DEF ConnTypeOK
<1> QED  BY <1>2, <1>3, <1>5

(* Only TLS puts an accepted connection into a handshake.                  *)
LEMMA ServerReportsNothing ==
    ASSUME LumberjackInv, ServerStep, NEW d \in Conns
    PROVE  /\ result'[d] = result[d]
           /\ spc'[d] = "handshake" => spc[d] = "handshake" \/ Tls
<1>1. ConnTypeOK  BY DEF LumberjackInv, ServerInv, ServerTypes
<1>2. CASE \E c \in Conns : Accept(c) \/ TaskEnd(c)
  BY <1>1, <1>2 DEF Accept, TaskEnd, ConnTypeOK
<1>3. CASE ~\E c \in Conns : Accept(c) \/ TaskEnd(c)
  BY <1>3 DEF ServerStep, ShutdownSeen, AcceptFails, StopLoop, Recv, RecvNone, Resolve,
              Shutdown, CloseReceiver, DropQueued, connVars
<1> QED  BY <1>2, <1>3

(* Every step keeps the results as expected.                               *)
LEMMA EndsKept ==
    ASSUME WireInv, EndsInv, [Next]_vars
    PROVE  EndsInv'
<1>1. LumberjackInv /\ \A d \in Conns : ConnOk(d)  BY DEF WireInv
<1>2. \A d \in Conns \ Reusing : EndsAsExpected(d) /\ Healthy(d)  BY DEF EndsInv, Healthy
<1>3. \A d \in Conns : spc[d] = "handshake" => Tls  BY DEF EndsInv
<1>4. ASSUME NEW c \in Conns, ClientSide(c)  PROVE EndsInv'
  <2>1. result' = result /\ spc' = spc  BY <1>4 DEF ClientSide, connVars
  <2>2. \A d \in Conns : StillExplained(d)  BY <1>1, <1>4, ClientKeepsExplained
  <2>3. \A d \in Conns \ Reusing : EndsAsExpected(d)'  BY <1>2, <2>1, <2>2, ExpectedStays
  <2> QED  BY <1>3, <2>1, <2>3 DEF EndsInv
<1>5. ASSUME NEW c \in Conns, HandlerSide(c)  PROVE EndsInv'
  <2>1. Handler(c) /\ sent' = sent  BY <1>5 DEF HandlerSide, clientVars
  <2>2. /\ (\E r : Finish(c, r)) \/ result' = result
        /\ \A d \in Conns : /\ d # c => result'[d] = result[d]
                            /\ spc'[d] = "handshake" => spc[d] = "handshake"
    BY <1>1, <2>1, HandlerReports
  <2>3. \A d \in Conns : StillExplained(d)  BY <1>1, <1>5, OthersKeepExplained
  <2>4. ASSUME NEW d \in Conns \ Reusing  PROVE EndsAsExpected(d)'
    <3>1. CASE result'[d] = result[d]  BY <1>2, <2>3, <3>1, ExpectedStays
    <3>2. CASE d = c /\ \E r : Finish(c, r)
      BY <1>1, <1>2, <1>3, <2>1, <3>2, ReturnsAsExpected
    <3> QED  BY <2>2, <3>1, <3>2
  <2> QED  BY <1>3, <2>2, <2>4 DEF EndsInv
<1>6. CASE \/ \E c \in Conns : LinkSide(c)
           \/ UNCHANGED vars
  <2>1. result' = result /\ spc' = spc  BY <1>6 DEF LinkSide, vars, connVars
  <2>2. \A d \in Conns : StillExplained(d)  BY <1>1, <1>6, OthersKeepExplained
  <2>3. \A d \in Conns \ Reusing : EndsAsExpected(d)'  BY <1>2, <2>1, <2>2, ExpectedStays
  <2> QED  BY <1>3, <2>1, <2>3 DEF EndsInv
<1>7. CASE ServerSide
  <2>1. \A d \in Conns : /\ result'[d] = result[d]
                         /\ spc'[d] = "handshake" => spc[d] = "handshake" \/ Tls
    BY <1>1, <1>7, ServerReportsNothing DEF ServerSide
  <2>2. \A d \in Conns : StillExplained(d)  BY <1>1, <1>7, OthersKeepExplained
  <2>3. \A d \in Conns \ Reusing : EndsAsExpected(d)'  BY <1>2, <2>1, <2>2, ExpectedStays
  <2> QED  BY <1>3, <2>1, <2>3 DEF EndsInv
<1> QED  BY <1>4, <1>5, <1>6, <1>7 DEF Next, Terminated

(* A client that is given up after an error never makes its handler see a  *)
(* protocol violation: every result of run_connection is explained by the  *)
(* end of the client, of the Server or of the link, by a TLS handshake, or *)
(* by a frame above the server's limit that the application sent.          *)
THEOREM NoProtocolViolation == Spec => []HandlerEndsAsExpected
<1>1. Init => EndsInv  BY DEF Init, ConnInit, EndsInv, EndsAsExpected
<1>2. WireInv /\ EndsInv /\ [Next]_vars => EndsInv'  BY EndsKept
<1>3. EndsInv => HandlerEndsAsExpected  BY DEF EndsInv, HandlerEndsAsExpected
<1> QED  BY <1>1, <1>2, <1>3, WireHolds, PTL DEF Spec

-----------------------------------------------------------------------------
(* Clients that are used after an error: the frames of a batch that was    *)
(* given up half-way are followed on the wire by those of the next, and    *)
(* the handler must neither join the two nor repeat a batch.               *)

(* The frames of a connection that the handler has not read, in the order  *)
(* in which it will.                                                       *)
Row(c) == (c2s[c] \o wbuf[c]) \o tofeed[c]

(* The frames that carry events, the call of send they are from, and those *)
(* at which a batch has ended, whole or broken off.                        *)
Carries(f)   == f.type \in {"J", "C"}
Origin(f)    == IF f.type = "C" THEN f.inner[1].data.send ELSE f.data.send
Separates(f) == f.type \in {"W", "X"}

(* A frame that a call of send wrote, or the beginning of one; s[k] is     *)
(* what the k-th call was given.                                           *)
Genuine(f, s) ==
    \/ f.type = "X"
    \/ f.type = "W" /\ f.n # 0
    \/ /\ f.type = "J" /\ Origin(f) \in DOMAIN s
       /\ f.seq \in DOMAIN s[Origin(f)] /\ f.data = s[Origin(f)][f.seq]
    \/ /\ f.type = "C" /\ Origin(f) \in DOMAIN s
       /\ s[Origin(f)] # <<>> /\ f.inner = EncodedEvents(s[Origin(f)])

(* What may come after frame f: a batch may break off anywhere, and what   *)
(* follows is then a new batch; otherwise its next frame follows.          *)
Follows(f, g, s) ==
    \/ Separates(g)
    \/ /\ g.type = "J" /\ f.type = "J"
       /\ Origin(g) = Origin(f) /\ g.seq = f.seq + 1
    \/ /\ Carries(g) /\ f.type = "W"
       /\ f.n = Len(s[Origin(g)]) /\ (g.type = "J" => g.seq = 1)

(* Pieces of batches one after the other, in the order of the calls.       *)
Consecutive(fs, s) ==
    /\ \A i \in DOMAIN fs : Genuine(fs[i], s)
    /\ \A i, j \in DOMAIN fs : j = i + 1 => Follows(fs[i], fs[j], s)
    /\ \A i, m, j \in DOMAIN fs :
           i < m /\ m < j /\ Carries(fs[i]) /\ Separates(fs[m]) /\ Carries(fs[j]) =>
               Origin(fs[i]) < Origin(fs[j])

(* The row fs may come behind frame x.                                     *)
Behind(x, fs, s) ==
    /\ Consecutive(fs, s)
    /\ fs # <<>> => Follows(x, fs[1], s)
    /\ \A m, j \in DOMAIN fs :
           Carries(x) /\ m < j /\ Separates(fs[m]) /\ Carries(fs[j]) =>
               Origin(x) < Origin(fs[j])

(* Everything fs carries is from calls after the k-th.                     *)
Later(fs, k) == \A i \in DOMAIN fs : Carries(fs[i]) => k < Origin(fs[i])

(* The frames of one batch: a Window and what the k-th call was given.     *)
Opens(fs, k, s) ==
    /\ fs \in Seq(FrameSet) /\ fs # <<>> /\ Separates(fs[1]) /\ Consecutive(fs, s)
    /\ \A i \in DOMAIN fs : Carries(fs[i]) => Origin(fs[i]) = k

(* Every event of e is of the k-th call.                                   *)
OfCall(e, k) == \A i \in DOMAIN e : e[i].send = k

(* It may come behind x when the calls in D are over.                      *)
Fits(x, D, fs, s) == Behind(x, fs, s) /\ \A k \in D : Later(fs, k)

(* The last frame of the batch the handler is collecting, or something     *)
(* that only a new batch can follow.                                       *)
Context(c) ==
    IF spc[c] # "collect" THEN Bad("Io")
    ELSE IF events[c] = <<>> THEN Window(window[c])
    ELSE Json(Len(events[c]), events[c][Len(events[c])])

(* The calls that the batches of d come from.                              *)
CallsOf(d) == {SendOf(d[i]) : i \in DOMAIN d}

(* The calls whose batches were delivered or are about to be.              *)
Past(c) == CallsOf(Delivered(c))
               \cup (IF spc[c] = "dispatch" THEN {SendOf(events[c])} ELSE {})

(* The events collected are the first of one call of send, the window is   *)
(* that of this call, and no batch of it or a later one was delivered.     *)
Begun(c) ==
    events[c] # <<>> =>
        LET k == SendOf(events[c]) IN
        /\ k \in DOMAIN sent[c] /\ window[c] = Len(sent[c][k])
        /\ \A i \in DOMAIN events[c] : i \in DOMAIN sent[c][k] /\ events[c][i] = sent[c][k][i]
        /\ AllBefore(Delivered(c), k)

(* They are all the events of that call.                                   *)
Whole(c) ==
    /\ events[c] # <<>> /\ SendOf(events[c]) \in DOMAIN sent[c]
    /\ events[c] = sent[c][SendOf(events[c])]
    /\ AllBefore(Delivered(c), SendOf(events[c]))

(* The handler can still read from its connection.                         *)
CanRead(c) == spc[c] \notin {"ending", "done"} /\ link[c] # "reset"

Expects(c) == Fits(Context(c), Past(c), Row(c), sent[c])

Tidy(c) ==
    /\ InOrderOnce(c)
    /\ spc[c] = "collect" => Begun(c)
    /\ spc[c] = "dispatch" => Whole(c)
    /\ CanRead(c) => Expects(c)

-----------------------------------------------------------------------------
(* Rows of frames *)

(* A sequence is its head and its tail.                                    *)
LEMMA HeadAndTail ==
    ASSUME NEW s \in Seq(FrameSet), s # <<>>
    PROVE  s = <<Head(s)>> \o Tail(s)
<1>1. Len(s) \in Nat /\ Len(s) >= 1  OBVIOUS
<1>2. SubSeq(s, 1, Len(s)) = <<s[1]>> \o SubSeq(s, 2, Len(s))
  <2>1. 1 \in 1..Len(s) /\ Len(s) \in 1..Len(s) /\ 1 + 1 = 2  BY <1>1
  <2> QED  BY <2>1, SubSeqRecursiveFirst
<1>3. SubSeq(s, 1, Len(s)) = s /\ Tail(s) = SubSeq(s, 2, Len(s))  BY SubSeqFull, TailIsSubSeq
<1>4. Head(s) = s[1]  OBVIOUS
<1> QED  BY <1>2, <1>3, <1>4

(* Feeding and writing move frames along the row.                          *)
LEMMA RowFeed ==
    ASSUME NEW p \in Seq(FrameSet), NEW w \in Seq(FrameSet), NEW t \in Seq(FrameSet), t # <<>>
    PROVE  (p \o Append(w, Head(t))) \o Tail(t) = (p \o w) \o t
<1>1. PICK h \in FrameSet : h = Head(t)  BY HeadTailProperties
<1>2. PICK r \in Seq(FrameSet) : r = Tail(t)  BY HeadTailProperties
<1>3. t = <<h>> \o r  BY <1>1, <1>2, HeadAndTail
<1>4. <<h>> \in Seq(FrameSet) /\ p \o w \in Seq(FrameSet)  BY ConcatProperties
<1>5. Append(w, h) = w \o <<h>>  BY AppendIsConcat
<1>6. p \o (w \o <<h>>) = (p \o w) \o <<h>>  BY <1>4, ConcatAssociative
<1>7. ((p \o w) \o <<h>>) \o r = (p \o w) \o (<<h>> \o r)  BY <1>4, ConcatAssociative, SMTT(30)
<1> QED  BY <1>1, <1>2, <1>3, <1>5, <1>6, <1>7

LEMMA RowWrite ==
    ASSUME NEW p \in Seq(FrameSet), NEW w \in Seq(FrameSet), NEW t \in Seq(FrameSet), w # <<>>
    PROVE  (Append(p, Head(w)) \o Tail(w)) \o t = (p \o w) \o t
<1>1. PICK h \in FrameSet : h = Head(w)  BY HeadTailProperties
<1>2. PICK r \in Seq(FrameSet) : r = Tail(w)  BY HeadTailProperties
<1>3. w = <<h>> \o r  BY <1>1, <1>2, HeadAndTail
<1>4. <<h>> \in Seq(FrameSet)  OBVIOUS
<1>5. Append(p, h) = p \o <<h>>  BY AppendIsConcat
<1>6. (p \o <<h>>) \o r = p \o (<<h>> \o r)  BY <1>4, ConcatAssociative, SMTT(30)
<1> QED  BY <1>1, <1>2, <1>3, <1>5, <1>6, Zenon

(* Reading takes the first frame of the row.                               *)
LEMMA RowRead ==
    ASSUME NEW p \in Seq(FrameSet), NEW w \in Seq(FrameSet), NEW t \in Seq(FrameSet), p # <<>>
    PROVE  (p \o w) \o t = <<Head(p)>> \o ((Tail(p) \o w) \o t)
<1>1. PICK h \in FrameSet : h = Head(p)  BY HeadTailProperties
<1>2. PICK r \in Seq(FrameSet) : r = Tail(p)  BY HeadTailProperties
<1>3. p = <<h>> \o r  BY <1>1, <1>2, HeadAndTail
<1>4. PICK q \in Seq(FrameSet) : q = r \o w  BY ConcatProperties
<1>5. <<h>> \in Seq(FrameSet)  OBVIOUS
<1>6. (<<h>> \o r) \o w = <<h>> \o q  BY <1>4, <1>5, ConcatAssociative
<1>7. (<<h>> \o q) \o t = <<h>> \o (q \o t)  BY <1>5, ConcatAssociative
<1>8. (p \o w) \o t = <<h>> \o (q \o t)  BY <1>3, <1>6, <1>7
<1> QED  BY <1>1, <1>2, <1>4, <1>8

(* Two rows joined, and where each frame is.                               *)
LEMMA Joining ==
    ASSUME NEW a \in Seq(FrameSet), NEW b \in Seq(FrameSet), NEW r, r = a \o b
    PROVE  /\ r \in Seq(FrameSet) /\ Len(r) = Len(a) + Len(b)
           /\ DOMAIN r = 1..(Len(a) + Len(b)) /\ DOMAIN a = 1..Len(a) /\ DOMAIN b = 1..Len(b)
           /\ Len(a) \in Nat /\ Len(b) \in Nat
           /\ \A i \in 1..Len(a) : i \in DOMAIN r /\ r[i] = a[i]
           /\ \A i \in 1..Len(b) : Len(a) + i \in DOMAIN r /\ r[Len(a) + i] = b[i]
           /\ \A i \in DOMAIN r : \/ i \in 1..Len(a)
                                  \/ /\ i > Len(a) /\ i - Len(a) \in 1..Len(b)
                                     /\ r[i] = b[i - Len(a)]
           /\ a # <<>> => 1 \in DOMAIN a /\ r # <<>>
           /\ a = <<>> => r = b
<1>1. r \in Seq(FrameSet) /\ Len(r) = Len(a) + Len(b)
      /\ \A i \in 1..(Len(a) + Len(b)) : r[i] = IF i <= Len(a) THEN a[i] ELSE b[i - Len(a)]
  BY ConcatProperties
<1>2. /\ Len(a) \in Nat /\ Len(b) \in Nat /\ DOMAIN a = 1..Len(a) /\ DOMAIN b = 1..Len(b)
      /\ a # <<>> => 1 \in DOMAIN a
  OBVIOUS
<1>3. DOMAIN r = 1..(Len(a) + Len(b))  BY <1>1
<1>4. \A i \in 1..Len(a) : i \in DOMAIN r /\ r[i] = a[i]  BY <1>1, <1>2, <1>3
<1>5. \A i \in 1..Len(b) : Len(a) + i \in DOMAIN r /\ r[Len(a) + i] = b[i]
  <2>1. ASSUME NEW i \in 1..Len(b)
        PROVE  Len(a) + i \in 1..(Len(a) + Len(b)) /\ ~(Len(a) + i <= Len(a))
               /\ (Len(a) + i) - Len(a) = i
    BY <1>2
  <2> QED  BY <1>1, <1>3, <2>1
<1>6. ASSUME NEW i \in DOMAIN r, i \notin 1..Len(a)
      PROVE  i > Len(a) /\ i - Len(a) \in 1..Len(b) /\ r[i] = b[i - Len(a)]
  <2>1. i \in 1..(Len(a) + Len(b)) /\ i > Len(a) /\ i - Len(a) \in 1..Len(b)
    BY <1>2, <1>3, <1>6
  <2> QED  BY <1>1, <1>2, <2>1
<1>7. a # <<>> => r # <<>>
  <2>1. a # <<>> => Len(r) >= 1  BY <1>1, <1>2
  <2> QED  BY <1>1, <2>1
<1>8. a = <<>> => r = b  BY ConcatEmptySeq
<1> QED  BY <1>1, <1>2, <1>3, <1>4, <1>5, <1>6, <1>7, <1>8

(* The beginning of a row fits where the row does.                         *)
LEMMA FitsStart ==
    ASSUME NEW a \in Seq(FrameSet), NEW b \in Seq(FrameSet), NEW x, NEW D, NEW s,
           Fits(x, D, a \o b, s)
    PROVE  Fits(x, D, a, s)
<1>1. PICK r : r = a \o b  OBVIOUS
<1>2. /\ \A i \in DOMAIN a : i \in DOMAIN r /\ r[i] = a[i]
      /\ a # <<>> => 1 \in DOMAIN a /\ r # <<>>
  BY <1>1, Joining
<1>3. Behind(x, r, s) /\ \A k \in D : Later(r, k)  BY <1>1 DEF Fits
<1>4. Consecutive(a, s)
  <2>1. Consecutive(r, s)  BY <1>3 DEF Behind
  <2> QED  BY <1>2, <2>1 DEF Consecutive
<1>5. a # <<>> => Follows(x, a[1], s)  BY <1>2, <1>3 DEF Behind
<1>6. ASSUME NEW m \in DOMAIN a, NEW j \in DOMAIN a, Carries(x), m < j, Separates(a[m]),
             Carries(a[j])
      PROVE  Origin(x) < Origin(a[j])
  BY <1>2, <1>3, <1>6 DEF Behind
<1>7. \A k \in D : Later(a, k)  BY <1>2, <1>3 DEF Later
<1> QED  BY <1>4, <1>5, <1>6, <1>7 DEF Behind, Fits

(* A later row that starts a new batch.                                    *)
LEMMA FitsJoin ==
    ASSUME NEW a \in Seq(FrameSet), NEW b \in Seq(FrameSet), NEW x, NEW D, NEW s,
           Fits(x, D, a, s), Consecutive(b, s), b # <<>>, Separates(b[1]),
           \A i \in DOMAIN a, j \in DOMAIN b :
               Carries(a[i]) /\ Carries(b[j]) => Origin(a[i]) < Origin(b[j]),
           \A j \in DOMAIN b : Carries(x) /\ Carries(b[j]) => Origin(x) < Origin(b[j]),
           \A k \in D : Later(b, k)
    PROVE  Fits(x, D, a \o b, s)
<1>1. PICK r : r = a \o b  OBVIOUS
<1> DEFINE n == Len(a)
<1>2. /\ DOMAIN r = 1..(n + Len(b)) /\ DOMAIN a = 1..n /\ DOMAIN b = 1..Len(b)
      /\ n \in Nat /\ Len(b) \in Nat
      /\ \A i \in 1..n : i \in DOMAIN r /\ r[i] = a[i]
      /\ \A i \in DOMAIN r : \/ i \in 1..n
                             \/ i > n /\ i - n \in 1..Len(b) /\ r[i] = b[i - n]
      /\ a # <<>> => 1 \in DOMAIN a /\ r # <<>>
      /\ a = <<>> => r = b
  BY <1>1, Joining
<1> HIDE DEF n
<1>3. Behind(x, a, s) /\ Consecutive(a, s)  BY DEF Fits, Behind
<1>4. \A i \in DOMAIN r : Genuine(r[i], s)  BY <1>2, <1>3 DEF Consecutive
<1>5. ASSUME NEW i \in DOMAIN r, NEW j \in DOMAIN r, j = i + 1
      PROVE  Follows(r[i], r[j], s)
  <2>1. CASE j \in 1..n
    <3>1. i \in 1..n  BY <1>2, <1>5, <2>1
    <3> QED  BY <1>2, <1>3, <1>5, <2>1, <3>1 DEF Consecutive
  <2>2. CASE j \notin 1..n /\ i \in 1..n
    <3>1. j - n = 1 /\ r[j] = b[j - n]  BY <1>2, <1>5, <2>2
    <3> QED  BY <3>1 DEF Follows
  <2>3. CASE j \notin 1..n /\ i \notin 1..n
    <3>1. /\ i - n \in DOMAIN b /\ j - n \in DOMAIN b /\ j - n = (i - n) + 1
          /\ r[i] = b[i - n] /\ r[j] = b[j - n]
      BY <1>2, <1>5, <2>3
    <3> QED  BY <3>1 DEF Consecutive
  <2> QED  BY <2>1, <2>2, <2>3
<1>6. ASSUME NEW i \in DOMAIN r, NEW m \in DOMAIN r, NEW j \in DOMAIN r,
             i < m, m < j, Carries(r[i]), Separates(r[m]), Carries(r[j])
      PROVE  Origin(r[i]) < Origin(r[j])
  <2>1. CASE j \in 1..n
    <3>1. i \in 1..n /\ m \in 1..n  BY <1>2, <1>6, <2>1
    <3> QED  BY <1>2, <1>3, <1>6, <2>1, <3>1 DEF Consecutive
  <2>2. CASE j \notin 1..n /\ i \in 1..n  BY <1>2, <1>6, <2>2
  <2>3. CASE j \notin 1..n /\ i \notin 1..n
    <3>1. /\ i - n \in DOMAIN b /\ r[i] = b[i - n]
          /\ m - n \in DOMAIN b /\ r[m] = b[m - n]
          /\ j - n \in DOMAIN b /\ r[j] = b[j - n]
          /\ i - n < m - n /\ m - n < j - n
      BY <1>2, <1>6, <2>3
    <3> QED  BY <1>6, <3>1 DEF Consecutive
  <2> QED  BY <2>1, <2>2, <2>3
<1>7. Consecutive(r, s)  BY <1>4, <1>5, <1>6 DEF Consecutive
<1>8. r # <<>> => Follows(x, r[1], s)
  <2>1. CASE a = <<>>  BY <1>2, <2>1 DEF Follows
  <2>2. CASE a # <<>>  BY <1>2, <1>3, <2>2 DEF Behind
  <2> QED  BY <2>1, <2>2
<1>9. ASSUME NEW m \in DOMAIN r, NEW j \in DOMAIN r, Carries(x), m < j, Separates(r[m]),
             Carries(r[j])
      PROVE  Origin(x) < Origin(r[j])
  <2>1. CASE j \in 1..n
    <3>1. m \in 1..n  BY <1>2, <1>9, <2>1
    <3> QED  BY <1>2, <1>3, <1>9, <2>1, <3>1 DEF Behind
  <2>2. CASE j \notin 1..n  BY <1>2, <1>9, <2>2
  <2> QED  BY <2>1, <2>2
<1>10. \A k \in D : Later(r, k)
  <2>1. ASSUME NEW k \in D, NEW i \in DOMAIN r, Carries(r[i])  PROVE k < Origin(r[i])
    <3>1. Later(a, k) /\ Later(b, k)  BY DEF Fits
    <3> QED  BY <1>2, <2>1, <3>1 DEF Later
  <2> QED  BY <2>1 DEF Later
<1> QED  BY <1>1, <1>7, <1>8, <1>9, <1>10 DEF Behind, Fits

(* The beginning of a frame at the end.                                    *)
LEMMA FitsTorn ==
    ASSUME NEW a \in Seq(FrameSet), NEW x, NEW D, NEW s, Fits(x, D, a, s)
    PROVE  Fits(x, D, a \o <<Bad("Io")>>, s)
<1>1. PICK b : b = <<Bad("Io")>>  OBVIOUS
<1>2. Bad("Io") \in FrameSet /\ ~Carries(Bad("Io")) /\ Separates(Bad("Io"))
  BY DEF Bad, FrameSet, InnerFrames, BadFrames, Errors, Carries, Separates
<1>3. b \in Seq(FrameSet) /\ b # <<>> /\ DOMAIN b = {1} /\ b[1] = Bad("Io")  BY <1>1, <1>2
<1>4. Consecutive(b, s)
  <2>1. Genuine(Bad("Io"), s)  BY DEF Genuine, Bad
  <2>2. 1 # 1 + 1  OBVIOUS
  <2> QED  BY <1>2, <1>3, <2>1, <2>2 DEF Consecutive
<1>5. \A k \in D : Later(b, k)  BY <1>2, <1>3 DEF Later
<1> QED  BY <1>1, <1>2, <1>3, <1>4, <1>5, FitsJoin

(* One call more leaves what was there in its place.                       *)
LEMMA FitsGrows ==
    ASSUME NEW a \in Seq(FrameSet), NEW x, NEW D, NEW s \in Seq(Seq(Event)),
           NEW e \in Seq(Event), Fits(x, D, a, s)
    PROVE  Fits(x, D, a, Append(s, e))
<1>1. PICK t : t = Append(s, e)  OBVIOUS
<1>2. \A k \in DOMAIN s : k \in DOMAIN t /\ t[k] = s[k]  BY <1>1, OneMoreSent
<1>3. Behind(x, a, s) /\ Consecutive(a, s)  BY DEF Fits, Behind
<1>4. \A f : Genuine(f, s) => Genuine(f, t) /\ (Carries(f) => Origin(f) \in DOMAIN s)
  BY <1>2 DEF Genuine, Carries
<1>5. \A f, g : Genuine(g, s) /\ Follows(f, g, s) => Follows(f, g, t)
  <2>1. ASSUME NEW f, NEW g, Genuine(g, s), Follows(f, g, s), Carries(g), f.type = "W",
               f.n = Len(s[Origin(g)])
        PROVE  f.n = Len(t[Origin(g)])
    BY <1>2, <1>4, <2>1
  <2> QED  BY <2>1 DEF Follows
<1>6. Consecutive(a, t)
  <2>1. \A i \in DOMAIN a : Genuine(a[i], s) /\ Genuine(a[i], t)  BY <1>3, <1>4 DEF Consecutive
  <2>2. \A i, j \in DOMAIN a : j = i + 1 => Follows(a[i], a[j], t)
    BY <1>3, <1>5, <2>1 DEF Consecutive
  <2> QED  BY <1>3, <2>1, <2>2 DEF Consecutive
<1>7. a # <<>> => Follows(x, a[1], t)
  <2>1. a # <<>> => 1 \in DOMAIN a  OBVIOUS
  <2>2. a # <<>> => Genuine(a[1], s)  BY <1>3, <2>1 DEF Consecutive
  <2> QED  BY <1>3, <1>5, <2>2 DEF Behind
<1> QED  BY <1>1, <1>3, <1>6, <1>7 DEF Behind, Fits

(* The frames of a batch follow each other.                                *)
LEMMA BatchRow ==
    ASSUME NEW c \in Conns, NEW k \in Nat, NEW e \in Seq(Event), e # <<>>, Len(e) < U32,
           OfCall(e, k), NEW s, k \in DOMAIN s, s[k] = e,
           NEW b, b = BatchFrames(c, e)
    PROVE  Opens(b, k, s)
<1> DEFINE n == Len(e)
<1>1. /\ b \in Seq(FrameSet) /\ b[1] = Window(n)
      /\ EncodedEvents(e) \in Seq(InnerFrames) /\ Len(EncodedEvents(e)) = n
      /\ \A i \in 1..n : EncodedEvents(e)[i] = Json(i, e[i])
      /\ c \in Compressing => Len(b) = 2 /\ b[2] = Compressed(EncodedEvents(e))
      /\ c \notin Compressing => /\ Len(b) = 1 + n
                                 /\ \A i \in 1..n : b[1 + i] = Json(i, e[i])
  BY FramesOfBatch
<1>2. n \in Nat /\ n >= 1 /\ DOMAIN e = 1..n /\ n = Len(s[k])  OBVIOUS
<1> HIDE DEF n
<1>3. /\ b[1].type = "W" /\ b[1].n = n
      /\ Separates(b[1]) /\ ~Carries(b[1]) /\ Genuine(b[1], s)
  BY <1>1, <1>2 DEF Window, Separates, Carries, Genuine
<1>4. DOMAIN b = 1..Len(b) /\ Len(b) \in Nat /\ (Len(b) >= 1 => b # <<>>)  BY <1>1
<1>5. CASE c \in Compressing
  <2>1. DOMAIN b = {1, 2} /\ b # <<>>  BY <1>1, <1>4, <1>5
  <2>2. b[2].type = "C" /\ b[2].inner = EncodedEvents(e)  BY <1>1, <1>5 DEF Compressed
  <2>3. Origin(b[2]) = k
    <3>1. 1 \in 1..n  BY <1>2
    <3>2. EncodedEvents(e)[1] = Json(1, e[1]) /\ e[1].send = k
      BY <1>1, <1>2, <3>1 DEF OfCall
    <3>3. Json(1, e[1]).data = e[1]  BY DEF Json
    <3> QED  BY <2>2, <3>2, <3>3 DEF Origin
  <2>4. Genuine(b[2], s) /\ Carries(b[2]) /\ ~Separates(b[2])
    BY <2>2, <2>3 DEF Genuine, Carries, Separates
  <2>5. Follows(b[1], b[2], s)  BY <1>2, <1>3, <2>2, <2>3, <2>4 DEF Follows
  <2>6. \A i, j \in DOMAIN b : j = i + 1 => i = 1 /\ j = 2  BY <2>1
  <2>7. \A i \in DOMAIN b : Genuine(b[i], s)  BY <1>3, <2>1, <2>4
  <2>8. \A i, m, j \in DOMAIN b : ~(i < m /\ m < j)  BY <2>1
  <2>9. Consecutive(b, s)  BY <2>5, <2>6, <2>7, <2>8 DEF Consecutive
  <2>10. \A i \in DOMAIN b : Carries(b[i]) => Origin(b[i]) = k  BY <1>3, <2>1, <2>3
  <2> QED  BY <1>1, <1>3, <2>1, <2>9, <2>10 DEF Opens
<1>6. CASE c \notin Compressing
  <2>1. Len(b) = 1 + n /\ b # <<>> /\ DOMAIN b = 1..(1 + n)  BY <1>1, <1>2, <1>4, <1>6
  <2>2. ASSUME NEW i \in DOMAIN b, i # 1
        PROVE  /\ i - 1 \in DOMAIN e /\ i - 1 \in Nat
               /\ b[i].type = "J" /\ b[i].seq = i - 1 /\ b[i].data = e[i - 1]
               /\ Origin(b[i]) = k /\ Genuine(b[i], s) /\ Carries(b[i]) /\ ~Separates(b[i])
    <3>1. i - 1 \in 1..n /\ 1 + (i - 1) = i  BY <1>2, <2>1, <2>2
    <3>2. b[i] = Json(i - 1, e[i - 1])  BY <1>1, <1>6, <3>1
    <3>3. i - 1 \in DOMAIN e /\ e[i - 1].send = k  BY <1>2, <3>1 DEF OfCall
    <3>4. b[i].type = "J" /\ b[i].seq = i - 1 /\ b[i].data = e[i - 1]  BY <3>2 DEF Json
    <3>5. Origin(b[i]) = k  BY <3>3, <3>4 DEF Origin
    <3>6. Genuine(b[i], s)  BY <3>3, <3>4, <3>5 DEF Genuine
    <3> QED  BY <3>1, <3>3, <3>4, <3>5, <3>6 DEF Carries, Separates
  <2>3. ASSUME NEW i \in DOMAIN b, NEW j \in DOMAIN b, j = i + 1
        PROVE  Follows(b[i], b[j], s)
    <3>1. i \in Nat /\ j # 1 /\ j - 1 = i  BY <2>1, <2>3
    <3>2. b[j].type = "J" /\ b[j].seq = i /\ Origin(b[j]) = k /\ Carries(b[j])
      BY <2>2, <3>1
    <3>3. CASE i = 1  BY <1>2, <1>3, <3>2, <3>3 DEF Follows
    <3>4. CASE i # 1
      <4>1. b[i].type = "J" /\ b[i].seq = i - 1 /\ Origin(b[i]) = k  BY <2>2, <3>4
      <4>2. b[j].seq = b[i].seq + 1  BY <3>1, <3>2, <4>1
      <4> QED  BY <3>2, <4>1, <4>2 DEF Follows
    <3> QED  BY <3>3, <3>4
  <2>4. \A i \in DOMAIN b : Genuine(b[i], s)  BY <1>3, <2>2
  <2>5. ASSUME NEW i \in DOMAIN b, NEW m \in DOMAIN b, i < m, Separates(b[m])  PROVE FALSE
    <3>1. m # 1  BY <2>1, <2>5
    <3> QED  BY <2>2, <2>5, <3>1
  <2>6. Consecutive(b, s)  BY <2>3, <2>4, <2>5 DEF Consecutive
  <2>7. \A i \in DOMAIN b : Carries(b[i]) => Origin(b[i]) = k  BY <1>3, <2>2
  <2> QED  BY <1>1, <1>3, <2>1, <2>6, <2>7 DEF Opens
<1> QED  BY <1>5, <1>6

(* The frames of a new call fit behind anything.                           *)
LEMMA FitsNext ==
    ASSUME NEW c \in Conns, NEW a \in Seq(FrameSet), NEW x, NEW D, NEW s \in Seq(Seq(Event)),
           Fits(x, D, a, s), D \subseteq DOMAIN s, Carries(x) => Origin(x) \in DOMAIN s,
           NEW e \in Seq(Event), e # <<>>, Len(e) < U32,
           \A i \in DOMAIN e : e[i].send = Len(s) + 1
    PROVE  Fits(x, D, a \o BatchFrames(c, e), Append(s, e))
<1>1. PICK t : t = Append(s, e)  OBVIOUS
<1>2. PICK b : b = BatchFrames(c, e)  OBVIOUS
<1>3. PICK k \in Nat : k = Len(s) + 1  OBVIOUS
<1>4. k \in DOMAIN t /\ t[k] = e /\ \A i \in DOMAIN s : i < k
  <2>1. Len(s) \in Nat  OBVIOUS
  <2> QED  BY <1>1, <1>3, <2>1, OneMoreSent
<1>5. /\ b \in Seq(FrameSet) /\ b # <<>> /\ Separates(b[1]) /\ Consecutive(b, t)
      /\ \A i \in DOMAIN b : Carries(b[i]) => Origin(b[i]) = k
  <2>1. OfCall(e, k)  BY <1>3 DEF OfCall
  <2>2. Opens(b, k, t)  BY <1>2, <1>4, <2>1, BatchRow
  <2> QED  BY <2>2 DEF Opens
<1>6. Fits(x, D, a, t)  BY <1>1, FitsGrows
<1>7. \A i \in DOMAIN a : Carries(a[i]) => Origin(a[i]) \in DOMAIN s
  BY DEF Fits, Behind, Consecutive, Genuine, Carries
<1>8. \A i \in DOMAIN a, j \in DOMAIN b :
          Carries(a[i]) /\ Carries(b[j]) => Origin(a[i]) < Origin(b[j])
  BY <1>4, <1>5, <1>7
<1>9. \A j \in DOMAIN b : Carries(x) /\ Carries(b[j]) => Origin(x) < Origin(b[j])
  BY <1>4, <1>5
<1>10. \A d \in D : Later(b, d)  BY <1>4, <1>5 DEF Later
<1> QED  BY <1>1, <1>2, <1>5, <1>6, <1>8, <1>9, <1>10, FitsJoin

(* The first frame of a row that fits, and the rest behind it.             *)
LEMMA FitsRead ==
    ASSUME NEW f \in FrameSet, NEW a \in Seq(FrameSet), NEW x, NEW D, NEW s,
           Fits(x, D, <<f>> \o a, s)
    PROVE  /\ Genuine(f, s) /\ Follows(x, f, s)
           /\ Fits(f, D, a, s)
           /\ Carries(f) => \A k \in D : k < Origin(f)
<1>1. PICK h : h = <<f>>  OBVIOUS
<1>2. h \in Seq(FrameSet) /\ Len(h) = 1 /\ h[1] = f  BY <1>1
<1>3. PICK r : r = h \o a  OBVIOUS
<1>4. /\ r # <<>> /\ 1 \in DOMAIN r /\ r[1] = f /\ DOMAIN a = 1..Len(a) /\ Len(a) \in Nat
      /\ \A i \in DOMAIN a : 1 + i \in DOMAIN r /\ r[1 + i] = a[i]
      /\ a # <<>> => 1 \in DOMAIN a
  <2>1. /\ DOMAIN h = 1..1 /\ h # <<>> /\ 1 \in 1..Len(h) /\ DOMAIN a = 1..Len(a)
        /\ Len(a) \in Nat /\ (a # <<>> => 1 \in DOMAIN a)
    BY <1>2
  <2>2. /\ \A i \in 1..Len(h) : i \in DOMAIN r /\ r[i] = h[i]
        /\ \A i \in 1..Len(a) : Len(h) + i \in DOMAIN r /\ r[Len(h) + i] = a[i]
        /\ h # <<>> => r # <<>>
    <3>1. h \in Seq(FrameSet)  BY <1>2
    <3> HIDE <1>1
    <3> QED  BY <1>3, <3>1, Joining
  <2>3. 1 \in DOMAIN r /\ r[1] = f /\ r # <<>>  BY <1>2, <2>1, <2>2
  <2>4. \A i \in DOMAIN a : 1 + i \in DOMAIN r /\ r[1 + i] = a[i]  BY <1>2, <2>1, <2>2
  <2> QED  BY <2>1, <2>3, <2>4
<1>5. Behind(x, r, s) /\ \A k \in D : Later(r, k)  BY <1>1, <1>3 DEF Fits
<1>6. Consecutive(r, s)  BY <1>5 DEF Behind
<1>7. Genuine(f, s) /\ Follows(x, f, s)
  BY <1>4, <1>5, <1>6 DEF Behind, Consecutive
<1>8. Carries(f) => \A k \in D : k < Origin(f)  BY <1>4, <1>5 DEF Later
<1>9. Consecutive(a, s)
  <2>1. \A i \in DOMAIN a : Genuine(a[i], s)  BY <1>4, <1>6 DEF Consecutive
  <2>2. ASSUME NEW i \in DOMAIN a, NEW j \in DOMAIN a, j = i + 1
        PROVE  Follows(a[i], a[j], s)
    <3>1. 1 + j = (1 + i) + 1  BY <1>4, <2>2
    <3>2. /\ 1 + i \in DOMAIN r /\ r[1 + i] = a[i]
          /\ 1 + j \in DOMAIN r /\ r[1 + j] = a[j]
      BY <1>4
    <3> QED  BY <1>6, <3>1, <3>2 DEF Consecutive
  <2>3. ASSUME NEW i \in DOMAIN a, NEW m \in DOMAIN a, NEW j \in DOMAIN a,
               i < m, m < j, Carries(a[i]), Separates(a[m]), Carries(a[j])
        PROVE  Origin(a[i]) < Origin(a[j])
    <3>1. 1 + i < 1 + m /\ 1 + m < 1 + j  BY <1>4, <2>3
    <3>2. /\ 1 + i \in DOMAIN r /\ r[1 + i] = a[i] /\ 1 + m \in DOMAIN r /\ r[1 + m] = a[m]
          /\ 1 + j \in DOMAIN r /\ r[1 + j] = a[j]
      BY <1>4
    <3> QED  BY <1>6, <2>3, <3>1, <3>2 DEF Consecutive
  <2> QED  BY <2>1, <2>2, <2>3 DEF Consecutive
<1>10. a # <<>> => Follows(f, a[1], s)
  <2>1. ASSUME a # <<>>  PROVE Follows(r[1], r[1 + 1], s)
    <3>1. 1 \in DOMAIN r /\ 1 + 1 \in DOMAIN r  BY <1>4, <2>1
    <3> QED  BY <1>6, <3>1 DEF Consecutive
  <2> QED  BY <1>4, <2>1
<1>11. ASSUME NEW m \in DOMAIN a, NEW j \in DOMAIN a, Carries(f), m < j, Separates(a[m]),
              Carries(a[j])
       PROVE  Origin(f) < Origin(a[j])
  <2>1. 1 < 1 + m /\ 1 + m < 1 + j  BY <1>4, <1>11
  <2>2. /\ 1 + m \in DOMAIN r /\ r[1 + m] = a[m]
        /\ 1 + j \in DOMAIN r /\ r[1 + j] = a[j]
    BY <1>4
  <2> QED  BY <1>4, <1>6, <1>11, <2>1, <2>2 DEF Consecutive
<1>12. \A k \in D : Later(a, k)  BY <1>4, <1>5 DEF Later
<1> QED  BY <1>7, <1>8, <1>9, <1>10, <1>11, <1>12 DEF Behind, Fits

-----------------------------------------------------------------------------
(* What the steps do to a connection *)

(* The handler goes on collecting what it has, or is not collecting.       *)
Keeps(c) ==
    \/ spc'[c] = spc[c] /\ window'[c] = window[c] /\ events'[c] = events[c]
    \/ spc[c] \notin {"collect", "dispatch"} /\ spc'[c] \notin {"collect", "dispatch"}

(* What follows the handler's last frame is then as before.                *)
LEMMA SameContext ==
    ASSUME NEW c \in Conns, Keeps(c), Delivered(c)' = Delivered(c)
    PROVE  Context(c)' = Context(c) /\ Past(c)' = Past(c)
<1>1. CASE spc'[c] = spc[c] /\ window'[c] = window[c] /\ events'[c] = events[c]
  BY <1>1 DEF Context, Past
<1>2. CASE spc[c] \notin {"collect", "dispatch"} /\ spc'[c] \notin {"collect", "dispatch"}
  BY <1>2 DEF Context, Past
<1> QED  BY <1>1, <1>2 DEF Keeps

(* A step that delivers nothing and submits nothing.                       *)
LEMMA MovesTidy ==
    ASSUME NEW c \in Conns, Tidy(c), Keeps(c), sent'[c] = sent[c],
           Delivered(c)' = Delivered(c),
           CanRead(c)' => CanRead(c) /\ Fits(Context(c), Past(c), Row(c)', sent[c])
    PROVE  Tidy(c)'
<1>1. Context(c)' = Context(c) /\ Past(c)' = Past(c)  BY SameContext
<1>2. InOrderOnce(c)'  BY DEF Tidy, InOrderOnce
<1>3. spc'[c] = "collect" => Begun(c)'
  <2>1. spc'[c] = "collect" => /\ spc[c] = "collect" /\ window'[c] = window[c]
                               /\ events'[c] = events[c]
    BY DEF Keeps
  <2> QED  BY <2>1 DEF Tidy, Begun
<1>4. spc'[c] = "dispatch" => Whole(c)'
  <2>1. spc'[c] = "dispatch" => spc[c] = "dispatch" /\ events'[c] = events[c]  BY DEF Keeps
  <2> QED  BY <2>1 DEF Tidy, Whole
<1>5. CanRead(c)' => Expects(c)'  BY <1>1 DEF Expects
<1> QED  BY <1>2, <1>3, <1>4, <1>5 DEF Tidy

(* A connection whose row stays as it is, or is not read any more.         *)
LEMMA StillTidy ==
    ASSUME NEW c \in Conns, Tidy(c), Keeps(c), sent'[c] = sent[c],
           Delivered(c)' = Delivered(c),
           CanRead(c)' => CanRead(c) /\ Row(c)' = Row(c)
    PROVE  Tidy(c)'
<1>1. CanRead(c)' => CanRead(c) /\ Fits(Context(c), Past(c), Row(c)', sent[c])
  BY DEF Tidy, Expects
<1> QED  BY <1>1, MovesTidy

(* Whatever the handler has is from calls that were made.                  *)
LEMMA PastCalls ==
    ASSUME LumberjackInv, NEW c \in Conns, ConnOk(c), Tidy(c)
    PROVE  /\ Past(c) \subseteq DOMAIN sent[c]
           /\ Carries(Context(c)) => Origin(Context(c)) \in DOMAIN sent[c]
<1>1. Past(c) \subseteq DOMAIN sent[c]
  BY DEF Past, CallsOf, Tidy, Whole, InOrderOnce, Ordered
<1>2. ASSUME Carries(Context(c))  PROVE Origin(Context(c)) \in DOMAIN sent[c]
  <2>1. /\ spc[c] = "collect" /\ events[c] # <<>>
        /\ Context(c) = Json(Len(events[c]), events[c][Len(events[c])])
    BY <1>2 DEF Context, Carries, Bad, Window
  <2>2. Origin(Context(c)) = events[c][Len(events[c])].send  BY <2>1 DEF Origin, Json
  <2>3. PICK k : k = SendOf(events[c])  OBVIOUS
  <2>4. Len(events[c]) \in DOMAIN events[c]
    <3>1. events[c] \in Seq(Event)  BY TypesAt
    <3> QED  BY <2>1, <3>1
  <2>5. /\ k \in DOMAIN sent[c] /\ Len(events[c]) \in DOMAIN sent[c][k]
        /\ events[c][Len(events[c])] = sent[c][k][Len(events[c])]
    BY <2>1, <2>3, <2>4 DEF Tidy, Begun
  <2>6. sent[c][k][Len(events[c])].send = k  BY <2>5 DEF ConnOk, Calls, Numbered
  <2> QED  BY <2>2, <2>5, <2>6
<1> QED  BY <1>1, <1>2

(* A new call adds to what was sent, and changes nothing else.             *)
LEMMA GrowsTidy ==
    ASSUME LumberjackInv, NEW c \in Conns, Tidy(c), NEW e \in Seq(Event),
           sent'[c] = Append(sent[c], e), SameHandler(c), SameBooks(c),
           CanRead(c)' => CanRead(c) /\ Fits(Context(c), Past(c), Row(c)', sent'[c])
    PROVE  Tidy(c)'
<1>1. Delivered(c)' = Delivered(c)  BY SameDelivered
<1>2. Keeps(c)  BY DEF Keeps, SameHandler
<1>3. Context(c)' = Context(c) /\ Past(c)' = Past(c)  BY <1>1, <1>2, SameContext
<1>4. sent[c] \in Seq(Seq(Event)) /\ Delivered(c) \in Seq(Seq(Event))
  BY TypesAt, DeliveredType
<1>5. \A k \in DOMAIN sent[c] : k \in DOMAIN sent'[c] /\ sent'[c][k] = sent[c][k]
  BY <1>4, OneMoreSent
<1>6. InOrderOnce(c)'
  <2>1. Ordered(Delivered(c), sent[c])  BY DEF Tidy, InOrderOnce
  <2>2. Ordered(Delivered(c), sent'[c])  BY <1>4, <2>1, OrderedLonger
  <2> QED  BY <1>1, <2>2 DEF InOrderOnce
<1>7. spc'[c] = "collect" => Begun(c)'
  <2>1. spc[c] = "collect" => Begun(c)  BY DEF Tidy
  <2> QED  BY <1>1, <1>5, <2>1 DEF Begun, SameHandler
<1>8. spc'[c] = "dispatch" => Whole(c)'
  <2>1. spc[c] = "dispatch" => Whole(c)  BY DEF Tidy
  <2> QED  BY <1>1, <1>5, <2>1 DEF Whole, SameHandler
<1>9. CanRead(c)' => Expects(c)'  BY <1>3 DEF Expects
<1> QED  BY <1>6, <1>7, <1>8, <1>9 DEF Tidy

(* The handler returns, and reads no more.                                 *)
LEMMA FinishTidy ==
    ASSUME NEW c \in Conns, Tidy(c), NEW r, Finish(c, r), spc[c] \in ConnPcs,
           c \in DOMAIN spc, sent'[c] = sent[c], Delivered(c)' = Delivered(c)
    PROVE  Tidy(c)'
<1>1. spc'[c] = "ending"  BY DEF Finish
<1>2. ~CanRead(c)'  BY <1>1 DEF CanRead
<1>3. InOrderOnce(c)'  BY DEF Tidy, InOrderOnce
<1> QED  BY <1>1, <1>2, <1>3 DEF Tidy

(* The end of a row is cut off, and perhaps a frame torn.                  *)
LEMMA ShorterTidy ==
    ASSUME LumberjackInv, NEW c \in Conns, Tidy(c), SameHandler(c), SameBooks(c),
           sent'[c] = sent[c], CanRead(c)' => CanRead(c),
           NEW a \in Seq(FrameSet), NEW b \in Seq(FrameSet),
           CanRead(c)' => /\ Row(c) = a \o b
                          /\ Row(c)' = a \/ Row(c)' = a \o <<Bad("Io")>>
    PROVE  Tidy(c)'
<1>1. Keeps(c) /\ Delivered(c)' = Delivered(c)  BY SameDelivered DEF Keeps, SameHandler
<1>2. ASSUME CanRead(c)'  PROVE Fits(Context(c), Past(c), Row(c)', sent[c])
  <2>1. Fits(Context(c), Past(c), a \o b, sent[c])  BY <1>2 DEF Tidy, Expects
  <2>2. Fits(Context(c), Past(c), a, sent[c])  BY <2>1, FitsStart
  <2>3. Fits(Context(c), Past(c), a \o <<Bad("Io")>>, sent[c])  BY <2>2, FitsTorn
  <2> QED  BY <1>2, <2>2, <2>3
<1> QED  BY <1>1, <1>2, MovesTidy

(* Nothing of a row moves.                                                 *)
LEMMA UnmovedTidy ==
    ASSUME NEW c \in Conns, Tidy(c), SameHandler(c), SameBooks(c), sent'[c] = sent[c],
           link'[c] # "reset" => link[c] # "reset",
           wbuf'[c] = wbuf[c], tofeed'[c] = tofeed[c], c2s'[c] = c2s[c]
    PROVE  Tidy(c)'
<1>1. Keeps(c) /\ Delivered(c)' = Delivered(c)  BY SameDelivered DEF Keeps, SameHandler
<1>2. CanRead(c)' => CanRead(c)  BY DEF CanRead, SameHandler
<1>3. Row(c)' = Row(c)  BY DEF Row
<1> QED  BY <1>1, <1>2, <1>3, StillTidy

(* A call that returns forgets the frames it has not fed.                  *)
LEMMA ReturnsTidy ==
    ASSUME LumberjackInv, NEW c \in Conns, Tidy(c), SameHandler(c), SameBooks(c),
           sent'[c] = sent[c], link'[c] = link[c],
           wbuf'[c] = wbuf[c], tofeed'[c] = <<>>, c2s'[c] = c2s[c]
    PROVE  Tidy(c)'
<1>1. PICK a \in Seq(FrameSet) : a = c2s[c] \o wbuf[c]  BY TypesAt, ConcatProperties
<1>2. PICK b \in Seq(FrameSet) : b = tofeed[c]  BY TypesAt
<1>3. Row(c) = a \o b  BY <1>1, <1>2 DEF Row
<1>4. Row(c)' = a
  <2>1. Row(c)' = a \o <<>>  BY <1>1 DEF Row
  <2> QED  BY <2>1, ConcatEmptySeq
<1>5. CanRead(c)' => CanRead(c)  BY DEF CanRead, SameHandler
<1> QED  BY <1>3, <1>4, <1>5, ShorterTidy

(* A frame is fed.                                                         *)
LEMMA FeedTidy ==
    ASSUME LumberjackInv, NEW c \in Conns, Tidy(c), SameHandler(c), SameBooks(c), Feed(c)
    PROVE  Tidy(c)'
<1>1. ClientTypeOK  BY DEF LumberjackInv
<1>2. /\ cpc[c] = "feed" /\ sent'[c] = sent[c] /\ link'[c] = link[c] /\ c2s'[c] = c2s[c]
      /\ wbuf'[c] = Append(wbuf[c], Head(tofeed[c]))
      /\ tofeed'[c] \in {<<>>, Tail(tofeed[c])}
  BY <1>1 DEF Feed, FeedOn, Return, transportVars, ClientTypeOK
<1>3. tofeed[c] # <<>>  BY <1>2 DEF LumberjackInv, ClientShape
<1>4. /\ c2s[c] \in Seq(FrameSet) /\ wbuf[c] \in Seq(FrameSet) /\ tofeed[c] \in Seq(FrameSet)
  BY TypesAt
<1>5. PICK w \in Seq(FrameSet) : w = Append(wbuf[c], Head(tofeed[c]))
  <2>1. Head(tofeed[c]) \in FrameSet  BY <1>3, <1>4, HeadTailProperties
  <2> QED  BY <1>4, <2>1, AppendProperties
<1>6. PICK a \in Seq(FrameSet) : a = c2s[c] \o w  BY <1>4, ConcatProperties
<1>7. PICK b \in Seq(FrameSet) : b = Tail(tofeed[c])  BY <1>3, <1>4, HeadTailProperties
<1>8. Row(c) = a \o b
  <2>1. (c2s[c] \o Append(wbuf[c], Head(tofeed[c]))) \o Tail(tofeed[c])
            = (c2s[c] \o wbuf[c]) \o tofeed[c]
    <3>1. PICK p \in Seq(FrameSet) : p = c2s[c]  BY <1>4
    <3>2. PICK q \in Seq(FrameSet) : q = wbuf[c]  BY <1>4
    <3>3. PICK t \in Seq(FrameSet) : t = tofeed[c]  BY <1>4
    <3>4. t # <<>>  BY <1>3, <3>3
    <3>5. (p \o Append(q, Head(t))) \o Tail(t) = (p \o q) \o t  BY <3>4, RowFeed, ZenonT(30)
    <3> QED  BY <3>1, <3>2, <3>3, <3>5, Zenon
  <2> QED  BY <1>5, <1>6, <1>7, <2>1 DEF Row
<1>9. CanRead(c)' => CanRead(c)  BY <1>2 DEF CanRead, SameHandler
<1>10. CASE tofeed'[c] = <<>>
  <2>1. Row(c)' = a
    <3>1. Row(c)' = a \o <<>>  BY <1>2, <1>5, <1>6, <1>10 DEF Row
    <3> QED  BY <3>1, ConcatEmptySeq
  <2> QED  BY <1>2, <1>8, <1>9, <2>1, ShorterTidy
<1>11. CASE tofeed'[c] = Tail(tofeed[c])
  <2>1. Row(c)' = Row(c)  BY <1>2, <1>5, <1>6, <1>7, <1>8, <1>11 DEF Row
  <2>2. Keeps(c) /\ Delivered(c)' = Delivered(c)  BY SameDelivered DEF Keeps, SameHandler
  <2> QED  BY <1>2, <1>9, <2>1, <2>2, StillTidy
<1> QED  BY <1>2, <1>10, <1>11

(* A frame is written out; to a handler that is gone, nowhere.             *)
LEMMA WriteOutTidy ==
    ASSUME LumberjackInv, NEW c \in Conns, ConnOk(c), Tidy(c), SameHandler(c), SameBooks(c),
           WriteOut(c)
    PROVE  Tidy(c)'
<1>1. ClientTypeOK /\ TransportTypeOK  BY DEF LumberjackInv, ServerInv, ServerTypes
<1>2. /\ wbuf[c] # <<>> /\ link'[c] = link[c] /\ sent'[c] = sent[c]
      /\ tofeed'[c] = tofeed[c] /\ wbuf'[c] = Tail(wbuf[c])
  BY <1>1 DEF WriteOut, ClientTypeOK
<1>3. c2s'[c] = IF sEnd[c] = "closed" THEN c2s[c] ELSE Append(c2s[c], Head(wbuf[c]))
  BY <1>1 DEF WriteOut, Written, TransportTypeOK
<1>4. CanRead(c)' => CanRead(c) /\ sEnd[c] # "closed"
  BY <1>2 DEF CanRead, SameHandler, ConnOk, Streams
<1>5. CanRead(c)' => Row(c)' = Row(c)
  <2>1. /\ c2s[c] \in Seq(FrameSet) /\ wbuf[c] \in Seq(FrameSet)
        /\ tofeed[c] \in Seq(FrameSet)
    BY TypesAt
  <2>2. (Append(c2s[c], Head(wbuf[c])) \o Tail(wbuf[c])) \o tofeed[c]
            = (c2s[c] \o wbuf[c]) \o tofeed[c]
    BY <1>2, <2>1, RowWrite, Zenon
  <2> QED  BY <1>2, <1>3, <1>4, <2>2 DEF Row
<1>6. Keeps(c) /\ Delivered(c)' = Delivered(c)  BY SameDelivered DEF Keeps, SameHandler
<1> QED  BY <1>2, <1>4, <1>5, <1>6, StillTidy

(* The client is dropped.                                                  *)
LEMMA DropTidy ==
    ASSUME LumberjackInv, NEW c \in Conns, ConnOk(c), Tidy(c), SameHandler(c), SameBooks(c),
           Drop(c)
    PROVE  Tidy(c)'
<1>1. ClientTypeOK /\ TransportTypeOK  BY DEF LumberjackInv, ServerInv, ServerTypes
<1>2. link'[c] = link[c] /\ sent'[c] = sent[c] /\ tofeed'[c] = <<>> /\ wbuf'[c] = <<>>
  BY <1>1 DEF Drop, ClientTypeOK
<1>3. c2s'[c] = c2s[c] \/ c2s'[c] = Append(c2s[c], Bad("Io"))
  BY <1>1 DEF Drop, Written, TransportTypeOK
<1>4. PICK a \in Seq(FrameSet) : a = c2s[c]  BY TypesAt
<1>5. PICK w \in Seq(FrameSet) : w = wbuf[c]  BY TypesAt
<1>6. PICK t \in Seq(FrameSet) : t = tofeed[c]  BY TypesAt
<1>7. \E b \in Seq(FrameSet) : Row(c) = a \o b
  <2>1. (a \o w) \o t = a \o (w \o t)
    <3>1. a \in Seq(FrameSet) /\ w \in Seq(FrameSet) /\ t \in Seq(FrameSet)
      BY <1>4, <1>5, <1>6
    <3> QED  BY <3>1, ConcatAssociative
  <2>2. w \o t \in Seq(FrameSet)  BY <1>5, <1>6, ConcatProperties
  <2>3. Row(c) = (a \o w) \o t  BY <1>4, <1>5, <1>6 DEF Row
  <2> QED  BY <2>1, <2>2, <2>3
<1>8. Row(c)' = a \/ Row(c)' = a \o <<Bad("Io")>>
  <2>1. Bad("Io") \in FrameSet  BY DEF Bad, FrameSet, InnerFrames, BadFrames, Errors
  <2>2. PICK q \in Seq(FrameSet) : q = c2s'[c]
    BY <1>3, <1>4, <2>1, AppendProperties
  <2>3. Row(c)' = q
    <3>1. Row(c)' = (q \o <<>>) \o <<>>  BY <1>2, <2>2 DEF Row
    <3> QED  BY <2>2, <3>1, ConcatEmptySeq
  <2>4. Append(a, Bad("Io")) = a \o <<Bad("Io")>>  BY <2>1, AppendIsConcat
  <2> QED  BY <1>3, <1>4, <2>2, <2>3, <2>4
<1>9. CanRead(c)' => CanRead(c)  BY <1>2 DEF CanRead, SameHandler
<1>10. PICK b \in Seq(FrameSet) : Row(c) = a \o b  BY <1>7
<1> QED  BY <1>2, <1>4, <1>10, <1>8, <1>9, ShorterTidy

(* A call of send that returns at once: nothing to send, or an event that  *)
(* cannot be serialized.                                                   *)
LEMMA AtOnceTidy ==
    ASSUME LumberjackInv, NEW c \in Conns, Tidy(c), SameHandler(c), SameBooks(c),
           NEW e \in Seq(Event), sent'[c] = Append(sent[c], e), link'[c] = link[c],
           wbuf'[c] = wbuf[c], tofeed'[c] = <<>>, c2s'[c] = c2s[c]
    PROVE  Tidy(c)'
<1>1. PICK a \in Seq(FrameSet) : a = c2s[c] \o wbuf[c]  BY TypesAt, ConcatProperties
<1>2. tofeed[c] \in Seq(FrameSet) /\ sent[c] \in Seq(Seq(Event))  BY TypesAt
<1>3. Row(c)' = a
  <2>1. Row(c)' = a \o <<>>  BY <1>1 DEF Row
  <2> QED  BY <2>1, ConcatEmptySeq
<1>4. ASSUME CanRead(c)'
      PROVE  CanRead(c) /\ Fits(Context(c), Past(c), Row(c)', sent'[c])
  <2>1. CanRead(c)  BY <1>4 DEF CanRead, SameHandler
  <2>2. Fits(Context(c), Past(c), a \o tofeed[c], sent[c])
    BY <1>1, <2>1 DEF Tidy, Expects, Row
  <2>3. Fits(Context(c), Past(c), a, sent[c])  BY <1>2, <2>2, FitsStart
  <2>4. Fits(Context(c), Past(c), a, sent'[c])  BY <1>2, <2>3, FitsGrows
  <2> QED  BY <1>3, <2>1, <2>4
<1> QED  BY <1>4, GrowsTidy

(* A call of send puts its frames behind what is there.                    *)
LEMMA BeginSendTidy ==
    ASSUME LumberjackInv, NEW c \in Conns, ConnOk(c), Tidy(c), SameHandler(c), SameBooks(c),
           NEW e \in Seq(Event), e # <<>>, Len(e) < U32,
           \A i \in DOMAIN e : e[i].send = Len(sent[c]) + 1,
           sent'[c] = Append(sent[c], e), link'[c] = link[c],
           wbuf'[c] = wbuf[c], tofeed'[c] = BatchFrames(c, e), c2s'[c] = c2s[c]
    PROVE  Tidy(c)'
<1>1. PICK a \in Seq(FrameSet) : a = c2s[c] \o wbuf[c]  BY TypesAt, ConcatProperties
<1>2. tofeed[c] \in Seq(FrameSet) /\ sent[c] \in Seq(Seq(Event))  BY TypesAt
<1>3. Row(c)' = a \o BatchFrames(c, e)  BY <1>1 DEF Row
<1>4. ASSUME CanRead(c)'
      PROVE  CanRead(c) /\ Fits(Context(c), Past(c), Row(c)', sent'[c])
  <2>1. CanRead(c)  BY <1>4 DEF CanRead, SameHandler
  <2>2. Fits(Context(c), Past(c), a \o tofeed[c], sent[c])
    BY <1>1, <2>1 DEF Tidy, Expects, Row
  <2>3. Fits(Context(c), Past(c), a, sent[c])  BY <1>2, <2>2, FitsStart
  <2>4. Fits(Context(c), Past(c), a \o BatchFrames(c, e), sent'[c])
    BY <1>2, <2>3, PastCalls, FitsNext
  <2> QED  BY <1>3, <2>1, <2>4
<1> QED  BY <1>4, GrowsTidy

(* Every step of a client.                                                 *)
LEMMA ClientTidy ==
    ASSUME LumberjackInv, NEW c \in Conns, ConnOk(c), Tidy(c), ClientSide(c)
    PROVE  Tidy(c)'
<1>1. Connect(c, loop # "stopped") \/ ClientRuntime(c) \/ ClientChoice(c)  BY DEF ClientSide
<1>2. SameHandler(c) /\ SameBooks(c)  BY ClientElsewhere
<1>3. ClientTypeOK /\ TransportTypeOK  BY DEF LumberjackInv, ServerInv, ServerTypes
<1>4. CASE Connect(c, loop # "stopped") \/ ClientHandshake(c)
  <2>1. link'[c] # "reset" => link[c] # "reset"
    <3>1. cpc[c] = "new" => link[c] # "reset"  BY DEF LumberjackInv, ClientShape
    <3> QED  BY <1>3, <1>4, <3>1 DEF Connect, ClientHandshake, TransportTypeOK
  <2>2. /\ c2s'[c] = c2s[c] /\ wbuf'[c] = wbuf[c]
        /\ tofeed'[c] = tofeed[c] /\ sent'[c] = sent[c]
    BY <1>4 DEF Connect, ClientHandshake
  <2> QED  BY <1>2, <2>1, <2>2, UnmovedTidy
<1>5. CASE Feed(c)  BY <1>2, <1>5, FeedTidy
<1>6. CASE WriteOut(c)  BY <1>2, <1>6, WriteOutTidy
<1>7. CASE WriteError(c) \/ WriteTimeout(c) \/ ReceiveEnd(c) \/ AckTimeout(c) \/ Cancel(c)
  <2>1. /\ c2s'[c] = c2s[c] /\ link'[c] = link[c] /\ wbuf'[c] = wbuf[c] /\ sent'[c] = sent[c]
        /\ tofeed'[c] = <<>>
    BY <1>3, <1>7 DEF WriteError, WriteTimeout, ReceiveEnd, AckTimeout, Cancel, Return,
                      transportVars, ClientTypeOK
  <2> QED  BY <1>2, <2>1, ReturnsTidy
<1>8. CASE Receive(c)
  <2>1. /\ c2s'[c] = c2s[c] /\ link'[c] = link[c] /\ wbuf'[c] = wbuf[c] /\ sent'[c] = sent[c]
        /\ tofeed'[c] \in {<<>>, tofeed[c]}
    BY <1>3, <1>8 DEF Receive, Return, ClientTypeOK
  <2> QED  BY <1>2, <2>1, ReturnsTidy, UnmovedTidy
<1>9. CASE Close(c) \/ CloseFails(c)
  <2>1. /\ c2s'[c] = c2s[c] /\ link'[c] = link[c] /\ wbuf'[c] = wbuf[c] /\ sent'[c] = sent[c]
        /\ tofeed'[c] = tofeed[c]
    BY <1>9 DEF Close, CloseFails
  <2> QED  BY <1>2, <2>1, UnmovedTidy
<1>10. CASE Drop(c)  BY <1>2, <1>10, DropTidy
<1>11. ASSUME NEW sizes \in Batches, Send(c, sizes) \/ SerializeFails(c, sizes)
       PROVE  Tidy(c)'
  <2>1. PICK k \in Nat : k = Len(sent[c]) + 1  BY TypesAt
  <2>2. PICK e : e = EventsOf(k, sizes)  OBVIOUS
  <2>3. /\ e \in Seq(Event) /\ Len(e) < U32 /\ \A i \in DOMAIN e : e[i].send = k
        /\ e = <<>> <=> sizes = <<>>
    BY <2>2, EventsNumbered
  <2>4. sent'[c] = Append(sent[c], e) /\ link'[c] = link[c] /\ c2s'[c] = c2s[c]
    BY <1>3, <1>11, <2>1, <2>2 DEF Send, SerializeFails, transportVars, ClientTypeOK
  <2>5. CASE SerializeFails(c, sizes) \/ sizes = <<>>
    <3>1. wbuf'[c] = wbuf[c] /\ tofeed'[c] = <<>>
      BY <1>3, <1>11, <2>5 DEF Send, SerializeFails, Return, ClientTypeOK
    <3> QED  BY <1>2, <2>3, <2>4, <3>1, AtOnceTidy
  <2>6. CASE Send(c, sizes) /\ sizes # <<>>
    <3> DEFINE fs == BatchFrames(c, e)
    <3>1. FeedOn(c, wbuf[c], fs)  BY <2>1, <2>2, <2>6 DEF Send
    <3>2. fs \in Seq(FrameSet) /\ fs[1] = Window(Len(e))  BY <2>3, FramesOfBatch
    <3>3. fs # <<>>  BY <2>3, BatchFramesType
    <3> HIDE DEF fs
    <3>4. Head(fs).type = "W"  BY <3>2, <3>3 DEF Window
    <3>5. tofeed'[c] = fs /\ wbuf'[c] = wbuf[c]
      BY <1>3, <3>1, <3>3, <3>4 DEF FeedOn, ClientTypeOK
    <3>6. e # <<>> /\ \A i \in DOMAIN e : e[i].send = Len(sent[c]) + 1  BY <2>1, <2>3, <2>6
    <3> QED  BY <1>2, <2>3, <2>4, <3>5, <3>6, BeginSendTidy DEF fs
  <2> QED  BY <1>11, <2>5, <2>6
<1> QED  BY <1>1, <1>4, <1>5, <1>6, <1>7, <1>8, <1>9, <1>10, <1>11
         DEF ClientRuntime, ClientChoice

(* The frame the handler reads next, and what is behind it.                *)
LEMMA ReadRow ==
    ASSUME LumberjackInv, NEW c \in Conns, Tidy(c), CanRead(c), c2s[c] # <<>>,
           NEW f, f = Head(c2s[c])
    PROVE  /\ f \in FrameSet /\ Genuine(f, sent[c]) /\ Follows(Context(c), f, sent[c])
           /\ Fits(f, Past(c), (Tail(c2s[c]) \o wbuf[c]) \o tofeed[c], sent[c])
           /\ Carries(f) => \A k \in Past(c) : k < Origin(f)
           /\ (Tail(c2s[c]) \o wbuf[c]) \o tofeed[c] \in Seq(FrameSet)
<1>1. c2s[c] \in Seq(FrameSet) /\ wbuf[c] \in Seq(FrameSet) /\ tofeed[c] \in Seq(FrameSet)
  BY TypesAt
<1>2. f \in FrameSet /\ Tail(c2s[c]) \in Seq(FrameSet)  BY <1>1, HeadTailProperties
<1>3. PICK q \in Seq(FrameSet) : q = Tail(c2s[c]) \o wbuf[c]  BY <1>1, <1>2, ConcatProperties
<1>4. PICK r \in Seq(FrameSet) : r = q \o tofeed[c]  BY <1>1, <1>3, ConcatProperties
<1>5. Row(c) = <<f>> \o r
  <2>1. (c2s[c] \o wbuf[c]) \o tofeed[c]
            = <<Head(c2s[c])>> \o ((Tail(c2s[c]) \o wbuf[c]) \o tofeed[c])
    <3>1. PICK p \in Seq(FrameSet) : p = c2s[c]  BY <1>1
    <3>2. PICK w \in Seq(FrameSet) : w = wbuf[c]  BY <1>1
    <3>3. PICK t \in Seq(FrameSet) : t = tofeed[c]  BY <1>1
    <3>4. p # <<>>  BY <3>1
    <3>5. (p \o w) \o t = <<Head(p)>> \o ((Tail(p) \o w) \o t)  BY <3>4, RowRead, SMTT(30)
    <3> QED  BY <3>1, <3>2, <3>3, <3>5, Zenon
  <2> QED  BY <1>3, <1>4, <2>1 DEF Row
<1>6. Fits(Context(c), Past(c), <<f>> \o r, sent[c])  BY <1>5 DEF Tidy, Expects
<1>7. /\ Genuine(f, sent[c]) /\ Follows(Context(c), f, sent[c])
      /\ Fits(f, Past(c), r, sent[c])
      /\ Carries(f) => \A k \in Past(c) : k < Origin(f)
  BY <1>2, <1>4, <1>6, FitsRead
<1> QED  BY <1>2, <1>3, <1>4, <1>7

(* A batch starts.                                                         *)
LEMMA ReadWindowTidy ==
    ASSUME LumberjackInv, NEW c \in Conns, Tidy(c),
           spc[c] = "window", link[c] # "reset", c2s[c] # <<>>, NextFrame(c).type = "W",
           spc'[c] = IF NextFrame(c).n = 0 THEN "dispatch" ELSE "collect",
           window'[c] = NextFrame(c).n, events'[c] = <<>>, c2s'[c] = Tail(c2s[c]),
           SameClient(c), SameBooks(c), SameLink(c)
    PROVE  Tidy(c)'
<1>1. PICK f : f = Head(c2s[c])  OBVIOUS
<1>2. CanRead(c)  BY DEF CanRead
<1>3. /\ f \in FrameSet /\ Genuine(f, sent[c])
      /\ Fits(f, Past(c), (Tail(c2s[c]) \o wbuf[c]) \o tofeed[c], sent[c])
  BY <1>1, <1>2, ReadRow
<1>4. NextFrame(c) = f /\ f.type = "W"  BY <1>1 DEF NextFrame, DecodeWithLimit, Bad
<1>5. f.n # 0  BY <1>3, <1>4 DEF Genuine
<1>6. f = Window(f.n)
  BY <1>3, <1>4 DEF FrameSet, InnerFrames, WindowFrames, JsonFrames, AckFrames, BadFrames,
                    CompressedFrames, Window
<1>7. spc'[c] = "collect" /\ window'[c] = f.n  BY <1>4, <1>5
<1>8. Delivered(c)' = Delivered(c) /\ sent'[c] = sent[c]  BY SameDelivered DEF SameClient
<1>9. Context(c)' = f  BY <1>6, <1>7 DEF Context
<1>10. Past(c)' = Past(c)  BY <1>7, <1>8 DEF Past
<1>11. Row(c)' = (Tail(c2s[c]) \o wbuf[c]) \o tofeed[c]  BY DEF Row, SameClient
<1>12. Expects(c)'  BY <1>3, <1>8, <1>9, <1>10, <1>11 DEF Expects
<1>13. InOrderOnce(c)' /\ Begun(c)'  BY <1>8 DEF Tidy, InOrderOnce, Begun
<1> QED  BY <1>7, <1>12, <1>13 DEF Tidy

(* The next frame of the batch: whose it is, and which.                    *)
LEMMA NextEvents ==
    ASSUME LumberjackInv, NEW c \in Conns, ConnOk(c), Tidy(c),
           spc[c] = "collect", link[c] # "reset", c2s[c] # <<>>,
           InOrder(Taken(c), last_seq[c]),
           NEW f, f = Head(c2s[c]), NEW k, k = Origin(f), NEW n, n = Len(events[c])
    PROVE  /\ Carries(f) /\ NextFrame(c) = f
           /\ k \in DOMAIN sent[c] /\ window[c] = Len(sent[c][k])
           /\ AllBefore(Delivered(c), k)
           /\ \A i \in DOMAIN events[c] : events[c][i] = sent[c][k][i]
           /\ f.type = "J" => f.seq = n + 1 /\ f.data = sent[c][k][n + 1]
           /\ f.type = "C" => n = 0 /\ f.inner = EncodedEvents(sent[c][k])
<1>1. CanRead(c)  BY DEF CanRead
<1>2. /\ f \in FrameSet /\ Genuine(f, sent[c]) /\ Follows(Context(c), f, sent[c])
      /\ Carries(f) => \A d \in Past(c) : d < Origin(f)
  BY <1>1, ReadRow
<1>3. NextFrame(c).type \in {"J", "C"}
  <2>1. ASSUME NextFrame(c).type # "C"  PROVE NextFrame(c).type = "J"
    <3>1. Taken(c) = <<NextFrame(c)>>  BY <2>1 DEF Taken, Contents
    <3>2. 1 \in DOMAIN Taken(c) /\ Taken(c)[1] = NextFrame(c)  BY <3>1
    <3> QED  BY <3>2 DEF InOrder, FrameOk
  <2> QED  BY <2>1
<1>4. NextFrame(c) = f /\ Carries(f)
  BY <1>3 DEF NextFrame, DecodeWithLimit, Bad, Carries
<1>5. ~Separates(f)  BY <1>4 DEF Carries, Separates
<1>6. k \in DOMAIN sent[c]  BY <1>2, <1>4 DEF Genuine, Carries
<1>7. AllBefore(Delivered(c), k)
  <2>1. \A i \in DOMAIN Delivered(c) : SendOf(Delivered(c)[i]) \in Past(c)
    BY DEF Past, CallsOf
  <2> QED  BY <1>2, <1>4, <2>1 DEF AllBefore
<1>8. events[c] \in Seq(Event) /\ n \in Nat  BY TypesAt
<1>9. CASE events[c] = <<>>
  <2>1. Context(c).type = "W" /\ Context(c).n = window[c]  BY <1>9 DEF Context, Window
  <2>2. window[c] = Len(sent[c][k]) /\ (f.type = "J" => f.seq = 1)
    BY <1>2, <1>5, <2>1 DEF Follows
  <2>3. n = 0 /\ 0 + 1 = 1  BY <1>9
  <2>4. f.type = "J" => f.data = sent[c][k][1]  BY <1>2, <2>2 DEF Genuine
  <2>5. f.type = "C" => f.inner = EncodedEvents(sent[c][k])  BY <1>2 DEF Genuine
  <2> QED  BY <1>4, <1>6, <1>7, <1>9, <2>2, <2>3, <2>4, <2>5
<1>10. CASE events[c] # <<>>
  <2>1. PICK e : e = events[c][n]  OBVIOUS
  <2>2. Context(c) = Json(n, e)  BY <1>10, <2>1 DEF Context
  <2>3. /\ Context(c).type = "J" /\ Context(c).seq = n /\ Origin(Context(c)) = e.send
    BY <2>2 DEF Json, Origin
  <2>4. f.type = "J" /\ k = e.send /\ f.seq = n + 1  BY <1>2, <1>5, <2>3 DEF Follows
  <2>5. f.data = sent[c][k][n + 1]  BY <1>2, <2>4 DEF Genuine
  <2>6. PICK m : m = SendOf(events[c])  OBVIOUS
  <2>7. /\ m \in DOMAIN sent[c] /\ window[c] = Len(sent[c][m])
        /\ \A i \in DOMAIN events[c] : i \in DOMAIN sent[c][m] /\ events[c][i] = sent[c][m][i]
    BY <1>10, <2>6 DEF Tidy, Begun
  <2>8. n \in DOMAIN events[c]  BY <1>8, <1>10
  <2>9. e.send = m  BY <2>1, <2>7, <2>8 DEF ConnOk, Calls, Numbered
  <2> QED  BY <1>4, <1>6, <1>7, <2>4, <2>5, <2>7, <2>9
<1> QED  BY <1>9, <1>10

(* What the handler takes of it.                                           *)
LEMMA FramesTaken ==
    ASSUME NEW f \in FrameSet, Carries(f), NEW c \in Conns,
           NEW cur \in Seq(Event), Len(cur) < U32, NEW n \in Nat, n < Len(cur),
           f.type = "J" => f.seq = n + 1 /\ f.data = cur[n + 1],
           f.type = "C" => n = 0 /\ f.inner = EncodedEvents(cur),
           NEW p, NEW fs, fs = Contents(f, Len(cur) - n), InOrder(fs, p)
    PROVE  /\ fs \in Seq(FrameSet) /\ Len(fs) > 0 /\ n + Len(fs) <= Len(cur)
           /\ \A i \in 1..Len(fs) : fs[i] = Json(n + i, cur[n + i])
           /\ f.type = "J" => Len(fs) = 1 /\ f = Json(n + 1, cur[n + 1])
           /\ f.type = "C" => n = 0 /\ Len(fs) = Len(cur)
<1>1. PICK m \in Nat : m = Len(cur)  OBVIOUS
<1>2. CASE f.type = "J"
  <2>1. f = Json(n + 1, cur[n + 1])
    BY <1>2 DEF FrameSet, InnerFrames, WindowFrames, JsonFrames, AckFrames, BadFrames,
                CompressedFrames, Json
  <2>2. fs = <<f>>  BY <1>2 DEF Contents
  <2>3. fs \in Seq(FrameSet) /\ Len(fs) = 1 /\ fs[1] = f
    <3>1. <<f>> \in Seq(FrameSet) /\ Len(<<f>>) = 1 /\ <<f>>[1] = f  OBVIOUS
    <3> QED  BY <2>2, <3>1, Zenon
  <2>4. \A i \in 1..Len(fs) : fs[i] = Json(n + i, cur[n + i])
    <3>1. ASSUME NEW i \in 1..1  PROVE i = 1  OBVIOUS
    <3>2. ASSUME NEW i \in 1..1  PROVE fs[i] = Json(n + i, cur[n + i])
      BY <2>1, <2>3, <3>1, Zenon
    <3> QED  BY <2>3, <3>2, Zenon
  <2>5. 1 > 0 /\ n + 1 <= m
    <3>1. n < m  BY <1>1
    <3> QED  BY <1>1, <3>1
  <2>6. Len(fs) > 0 /\ n + Len(fs) <= Len(cur)  BY <1>1, <2>3, <2>5, Zenon
  <2> QED  BY <1>2, <2>1, <2>3, <2>4, <2>6
<1>3. CASE f.type = "C"
  <2> DEFINE ee == EncodedEvents(cur)
  <2>1. /\ ee \in Seq(InnerFrames) /\ Len(ee) = Len(cur)
        /\ \A k \in 1..Len(cur) : ee[k] = Json(k, cur[k])
    BY FramesOfBatch
  <2>2. n = 0 /\ f.inner = ee /\ Len(cur) - n = m  BY <1>1, <1>3
  <2>3. f = Compressed(ee)
    BY <1>3, <2>2 DEF FrameSet, InnerFrames, WindowFrames, JsonFrames, AckFrames, BadFrames,
                      CompressedFrames, Compressed
  <2> HIDE DEF ee
  <2>4. fs = [i \in 1..Min({Len(ee), m}) |-> DecodeWithLimit(ee[i], ServerMax)]
    <3>1. fs = Contents(Compressed(ee), m)
      <4>1. fs = Contents(f, Len(cur) - n)  OBVIOUS
      <4> QED  BY <2>2, <2>3, <4>1, Zenon
    <3>2. Contents(Compressed(ee), m)
              = [i \in 1..Min({Len(ee), m}) |-> DecodeWithLimit(ee[i], ServerMax)]
      BY DEF Contents, Compressed
    <3> QED  BY <3>1, <3>2, Zenon
  <2>5. Min({Len(ee), m}) = m  BY <1>1, <2>1, MinOfTwo
  <2>6. fs = [i \in 1..m |-> DecodeWithLimit(ee[i], ServerMax)]  BY <2>4, <2>5
  <2>7. ASSUME NEW i \in 1..m  PROVE fs[i] = Json(i, cur[i]) /\ fs[i] \in FrameSet
    <3>1. i \in DOMAIN fs /\ fs[i] = DecodeWithLimit(ee[i], ServerMax)  BY <2>6
    <3>2. fs[i].type = "J"  BY <3>1 DEF InOrder, FrameOk
    <3>3. fs[i] = ee[i]  BY <3>1, <3>2 DEF DecodeWithLimit, Bad
    <3>4. ee[i] = Json(i, cur[i])  BY <1>1, <2>1
    <3>5. Json(i, cur[i]) \in FrameSet
      BY <1>1 DEF Json, FrameSet, InnerFrames, JsonFrames
    <3> QED  BY <3>3, <3>4, <3>5
  <2>8. fs \in Seq(FrameSet) /\ Len(fs) = m
    <3>1. DOMAIN fs = 1..m /\ \A i \in 1..m : fs[i] \in FrameSet  BY <2>6, <2>7
    <3>2. fs = [i \in 1..m |-> fs[i]]  BY <2>6
    <3> QED  BY <1>1, <3>1, <3>2
  <2>9. ASSUME NEW i \in 1..m  PROVE fs[i] = Json(n + i, cur[n + i])
    <3>1. n + i = i  BY <2>2
    <3> QED  BY <2>7, <3>1
  <2>10. m > 0 /\ n + m <= m  BY <1>1, <2>2
  <2> QED  BY <1>1, <1>3, <2>2, <2>8, <2>9, <2>10, Zenon
<1> QED  BY <1>2, <1>3 DEF Carries

(* Once the last frame of a batch is read, only a new batch can follow.    *)
LEMMA FitsAfter ==
    ASSUME NEW f, Carries(f), NEW D, NEW R \in Seq(FrameSet), NEW s \in Seq(Seq(Event)),
           Fits(f, D, R, s), Origin(f) \in DOMAIN s,
           f.type = "J" => f.seq = Len(s[Origin(f)])
    PROVE  Fits(Bad("Io"), D \cup {Origin(f)}, R, s)
<1>1. Consecutive(R, s)  BY DEF Fits, Behind
<1>2. ~Carries(Bad("Io")) /\ ~Separates(f) /\ f.type # "W"
  BY DEF Carries, Separates, Bad
<1>3. ASSUME R # <<>>  PROVE Separates(R[1])
  <2>1. 1 \in DOMAIN R  BY <1>3
  <2>2. Follows(f, R[1], s) /\ Genuine(R[1], s)
    BY <1>1, <1>3, <2>1 DEF Fits, Behind, Consecutive
  <2>3. ASSUME R[1].type = "J", f.type = "J", Origin(R[1]) = Origin(f), R[1].seq = f.seq + 1
        PROVE  FALSE
    <3>1. R[1].seq \in DOMAIN s[Origin(f)]  BY <2>2, <2>3 DEF Genuine
    <3>2. s[Origin(f)] \in Seq(Event)  OBVIOUS
    <3>3. PICK m \in Nat : m = Len(s[Origin(f)])  BY <3>2
    <3>4. R[1].seq = m + 1 /\ R[1].seq \in 1..m  BY <2>3, <3>1, <3>2, <3>3
    <3> QED  BY <3>4
  <2> QED  BY <1>2, <2>2, <2>3 DEF Follows
<1>4. Later(R, Origin(f))
  <2>1. ASSUME NEW j \in DOMAIN R, Carries(R[j])  PROVE Origin(f) < Origin(R[j])
    <3>1. R # <<>> /\ 1 \in DOMAIN R /\ Separates(R[1])  BY <1>3
    <3>2. j # 1  BY <2>1, <3>1 DEF Carries, Separates
    <3>3. 1 < j  BY <3>2
    <3> QED  BY <2>1, <3>1, <3>3 DEF Fits, Behind
  <2> QED  BY <2>1 DEF Later
<1>5. Behind(Bad("Io"), R, s)  BY <1>1, <1>2, <1>3 DEF Behind, Follows
<1> QED  BY <1>4, <1>5 DEF Fits

(* The next events of a batch; with the last one, the batch is whole.      *)
LEMMA CollectTidy ==
    ASSUME LumberjackInv, NEW c \in Conns, ConnOk(c), Tidy(c), CollectsAt(c),
           SameClient(c), SameBooks(c), SameLink(c)
    PROVE  Tidy(c)'
<1>1. /\ spc[c] = "collect" /\ link[c] # "reset" /\ c2s[c] # <<>>
      /\ InOrder(Taken(c), last_seq[c]) /\ events'[c] = More(c) /\ window'[c] = window[c]
      /\ spc'[c] = (IF Complete(window[c], Len(More(c))) THEN "dispatch" ELSE "collect")
      /\ c2s'[c] = Tail(c2s[c])
  BY DEF CollectsAt
<1>2. PICK f : f = Head(c2s[c])  OBVIOUS
<1>3. PICK k : k = Origin(f)  OBVIOUS
<1>4. PICK n \in Nat : n = Len(events[c])  BY TypesAt
<1>5. /\ Carries(f) /\ NextFrame(c) = f
      /\ k \in DOMAIN sent[c] /\ window[c] = Len(sent[c][k])
      /\ AllBefore(Delivered(c), k)
      /\ \A i \in DOMAIN events[c] : events[c][i] = sent[c][k][i]
      /\ f.type = "J" => f.seq = n + 1 /\ f.data = sent[c][k][n + 1]
      /\ f.type = "C" => n = 0 /\ f.inner = EncodedEvents(sent[c][k])
  <2>1. /\ spc[c] = "collect" /\ link[c] # "reset" /\ c2s[c] # <<>>
        /\ InOrder(Taken(c), last_seq[c])
    BY <1>1
  <2>2. f = Head(c2s[c]) /\ k = Origin(f) /\ n = Len(events[c])  BY <1>2, <1>3, <1>4
  <2> QED  BY <2>1, <2>2, NextEvents, SMTT(30)
<1>6. PICK R : R = (Tail(c2s[c]) \o wbuf[c]) \o tofeed[c]  OBVIOUS
<1>7. f \in FrameSet /\ Fits(f, Past(c), R, sent[c]) /\ R \in Seq(FrameSet)
  <2>1. CanRead(c)  BY <1>1 DEF CanRead
  <2> QED  BY <1>1, <1>2, <1>6, <2>1, ReadRow
<1>8. PICK s \in Seq(Seq(Event)) : s = sent[c]  BY TypesAt
<1>9. PICK cur \in Seq(Event) : cur = s[k]  BY <1>5, <1>8
<1>10. Len(cur) < U32 /\ \A i \in DOMAIN cur : cur[i].send = k
  BY <1>5, <1>8, <1>9 DEF ConnOk, Calls, Numbered
<1>11. window[c] = Len(cur) /\ n < Len(cur)
  BY <1>1, <1>4, <1>5, <1>8, <1>9 DEF LumberjackInv, ServerInv, CollectRoom
<1>12. PICK fs : fs = Taken(c)  OBVIOUS
<1>13. /\ fs \in Seq(FrameSet) /\ Len(fs) > 0 /\ n + Len(fs) <= Len(cur)
       /\ \A i \in 1..Len(fs) : fs[i] = Json(n + i, cur[n + i])
       /\ f.type = "J" => Len(fs) = 1 /\ f = Json(n + 1, cur[n + 1])
       /\ f.type = "C" => n = 0 /\ Len(fs) = Len(cur)
  <2>1. fs = Contents(f, Len(cur) - n) /\ InOrder(fs, last_seq[c])
    BY <1>1, <1>4, <1>5, <1>11, <1>12 DEF Taken
  <2>2. /\ f.type = "J" => f.seq = n + 1 /\ f.data = cur[n + 1]
        /\ f.type = "C" => n = 0 /\ f.inner = EncodedEvents(cur)
    BY <1>5, <1>8, <1>9
  <2> QED  BY <1>5, <1>7, <1>10, <1>11, <2>1, <2>2, FramesTaken
<1>14. PICK data : data = [i \in DOMAIN fs |-> fs[i].data]  OBVIOUS
<1>15. /\ data \in Seq(Event) /\ Len(data) = Len(fs)
       /\ \A i \in 1..Len(fs) : data[i] = cur[n + i]
  BY <1>13, <1>14, CarriedData
<1>16. PICK old \in Seq(Event) : old = events[c]  BY TypesAt
<1>17. PICK e : e = old \o data  OBVIOUS
<1>18. PICK m \in Nat : m = Len(fs)  BY <1>13
<1>19. e \in Seq(Event) /\ Len(e) = n + m /\ \A i \in 1..(n + m) : e[i] = cur[i]
  <2>1. \A i \in DOMAIN old : old[i] = cur[i]  BY <1>5, <1>8, <1>9, <1>16
  <2>2. Len(old) = n /\ Len(data) = m  BY <1>4, <1>15, <1>16, <1>18
  <2>3. \A i \in DOMAIN data : data[i] = cur[Len(old) + i]  BY <1>15, <2>2
  <2>4. /\ old \o data \in Seq(Event) /\ Len(old \o data) = Len(old) + Len(data)
        /\ \A i \in 1..(Len(old) + Len(data)) : (old \o data)[i] = cur[i]
    <3>1. old \in Seq(Event) /\ data \in Seq(Event) /\ cur \in Seq(Event)
      BY <1>9, <1>15, <1>16
    <3> QED  BY <3>1, <2>1, <2>3, Continued
  <2> QED  BY <1>17, <2>2, <2>4
<1>20. events'[c] = e  BY <1>1, <1>12, <1>14, <1>16, <1>17 DEF More
<1>21. m > 0 /\ n + m <= Len(cur) /\ Len(cur) \in Nat  BY <1>13, <1>18
<1>22. e # <<>> /\ SendOf(e) = k
  <2>1. 1 \in 1..(n + m) /\ 1 \in DOMAIN cur  BY <1>21
  <2>2. e[1] = cur[1] /\ Len(e) # 0  BY <1>19, <1>21, <2>1
  <2> QED  BY <1>10, <2>1, <2>2 DEF SendOf
<1>23. Delivered(c)' = Delivered(c) /\ sent'[c] = s  BY <1>8, SameDelivered DEF SameClient
<1>24. Row(c)' = R  BY <1>1, <1>6 DEF Row, SameClient
<1>25. InOrderOnce(c)'  BY <1>8, <1>23 DEF Tidy, InOrderOnce
<1>26. CASE n + m < Len(cur)
  <2>1. spc'[c] = "collect"
    <3>1. ~(n + m >= Len(cur))  BY <1>21, <1>26
    <3> QED  BY <1>1, <1>11, <1>19, <1>20, <3>1 DEF Complete
  <2>2. f.type = "J"
    <3>1. f.type = "C" => n + m = Len(cur)  BY <1>13, <1>18, <1>21
    <3> QED  BY <1>5, <1>21, <1>26, <3>1 DEF Carries
  <2>3. m = 1 /\ f = Json(n + 1, cur[n + 1])  BY <1>13, <1>18, <2>2
  <2>4. Context(c)' = f
    <3>1. Len(e) = n + 1 /\ e[n + 1] = cur[n + 1]  BY <1>19, <2>3
    <3>2. Context(c)' = Json(Len(e), e[Len(e)])  BY <1>20, <1>22, <2>1 DEF Context
    <3> QED  BY <2>3, <3>1, <3>2
  <2>5. Past(c)' = Past(c)  BY <1>1, <1>23, <2>1 DEF Past
  <2>6. Begun(c)'
    <3>1. ASSUME NEW i \in DOMAIN e  PROVE i \in DOMAIN cur /\ e[i] = cur[i]
      <4>1. i \in 1..(n + m)  BY <1>19
      <4> QED  BY <1>19, <1>21, <4>1
    <3>2. window'[c] = Len(cur)  BY <1>1, <1>11
    <3> QED  BY <1>5, <1>8, <1>9, <1>20, <1>22, <1>23, <3>1, <3>2 DEF Begun
  <2>7. Expects(c)'  BY <1>7, <1>8, <1>23, <1>24, <2>4, <2>5 DEF Expects
  <2> QED  BY <1>25, <2>1, <2>6, <2>7 DEF Tidy
<1>27. CASE n + m = Len(cur)
  <2>1. spc'[c] = "dispatch"
    <3>1. n + m >= Len(cur)  BY <1>21, <1>27
    <3> QED  BY <1>1, <1>11, <1>19, <1>20, <3>1 DEF Complete
  <2>2. e = cur
    <3>1. \A i \in DOMAIN e : e[i] = cur[i]  BY <1>19
    <3> QED  BY <1>19, <1>27, <3>1, SeqEqual
  <2>3. Whole(c)'  BY <1>5, <1>8, <1>9, <1>20, <1>22, <1>23, <2>2 DEF Whole
  <2>4. Context(c)' = Bad("Io")  BY <2>1 DEF Context
  <2>5. Past(c)' = Past(c) \cup {k}  BY <1>1, <1>20, <1>22, <1>23, <2>1 DEF Past
  <2>6. f.type = "J" => f.seq = Len(s[k])
    <3>1. f.type = "J" => m = 1 /\ f.seq = n + 1  BY <1>5, <1>13, <1>18
    <3> QED  BY <1>9, <1>27, <3>1
  <2>7. Fits(Bad("Io"), Past(c) \cup {k}, R, s)
    BY <1>3, <1>5, <1>7, <1>8, <2>6, FitsAfter
  <2>8. Expects(c)'  BY <1>23, <1>24, <2>4, <2>5, <2>7 DEF Expects
  <2> QED  BY <1>25, <2>1, <2>3, <2>8 DEF Tidy
<1> QED  BY <1>21, <1>26, <1>27

(* A sequence with one more element.                                       *)
Extended(a, d, e) ==
    \E z : /\ z \in DOMAIN a /\ z \notin DOMAIN d /\ a[z] = e
           /\ \A i \in DOMAIN d : i \in DOMAIN a /\ i < z /\ a[i] = d[i]
           /\ \A i \in DOMAIN a : i \in DOMAIN d \/ i = z
           /\ \A i, j \in DOMAIN a : i < j => i \in DOMAIN d

LEMMA OneMore ==
    ASSUME NEW d \in Seq(Seq(Event)), NEW e \in Seq(Event), NEW a, a = Append(d, e)
    PROVE  Extended(a, d, e)
<1>1. PICK n \in Nat : n = Len(d) /\ DOMAIN d = 1..n  OBVIOUS
<1>2. DOMAIN a = 1..(n + 1) /\ a[n + 1] = e /\ \A i \in 1..n : a[i] = d[i]
  BY <1>1, AppendProperties
<1>3. ASSUME NEW N \in Nat
      PROVE  /\ N + 1 \in 1..(N + 1) /\ N + 1 \notin 1..N
             /\ \A i \in 1..N : i \in 1..(N + 1) /\ i < N + 1
             /\ \A i \in 1..(N + 1) : i \in 1..N \/ i = N + 1
             /\ \A i, j \in 1..(N + 1) : i < j => i \in 1..N
  OBVIOUS
<1> QED  BY <1>1, <1>2, <1>3 DEF Extended

(* The batch of a later call is the newest that was delivered.             *)
LEMMA AppendLater ==
    ASSUME NEW d, NEW s, Ordered(d, s),
           NEW k \in DOMAIN s, AllBefore(d, k),
           NEW e, e = s[k], e # <<>>, SendOf(e) = k,
           NEW a, Extended(a, d, e)
    PROVE  /\ Ordered(a, s)
           /\ CallsOf(a) = CallsOf(d) \cup {k}
<1>1. PICK z : /\ z \in DOMAIN a /\ z \notin DOMAIN d /\ a[z] = e
               /\ \A i \in DOMAIN d : i \in DOMAIN a /\ i < z /\ a[i] = d[i]
               /\ \A i \in DOMAIN a : i \in DOMAIN d \/ i = z
               /\ \A i, j \in DOMAIN a : i < j => i \in DOMAIN d
  BY DEF Extended
<1>2. ASSUME NEW i \in DOMAIN a
      PROVE  a[i] # <<>> /\ SendOf(a[i]) \in DOMAIN s /\ a[i] = s[SendOf(a[i])]
  BY <1>1 DEF Ordered
<1>3. ASSUME NEW i \in DOMAIN a, NEW j \in DOMAIN a, i < j
      PROVE  SendOf(a[i]) < SendOf(a[j])
  <2>1. i \in DOMAIN d /\ a[i] = d[i]  BY <1>1, <1>3
  <2>2. CASE j = z  BY <1>1, <2>1, <2>2 DEF AllBefore
  <2>3. CASE j \in DOMAIN d /\ a[j] = d[j]  BY <1>3, <2>1, <2>3 DEF Ordered
  <2> QED  BY <1>1, <2>2, <2>3
<1>4. \A x : x \in CallsOf(a) <=> x \in CallsOf(d) \cup {k}
  BY <1>1, Zenon DEF CallsOf
<1>5. CallsOf(a) = CallsOf(d) \cup {k}  BY <1>4, Zenon
<1> QED  BY <1>2, <1>3, <1>5 DEF Ordered

(* The whole batch is handed over.                                         *)
LEMMA DispatchTidy ==
    ASSUME LumberjackInv, NEW c \in Conns, Tidy(c), DispatchesAt(c),
           SameClient(c), SameLink(c), SamePipes(c)
    PROVE  Tidy(c)'
<1>1. /\ spc[c] = "dispatch" /\ spc'[c] = "await"
      /\ Queued(c)' = Queued(c) \cup {NewBatch(c)} /\ got'[c] = got[c] /\ lost'[c] = lost[c]
  BY DEF DispatchesAt
<1>2. Queued(c) = {}
  <2>1. ServerInv  BY DEF LumberjackInv
  <2>2. ~InChannel(c)  BY <1>1, <2>1 DEF ServerInv, NoLostAck, Awaiting
  <2> QED  BY <2>1, <2>2, QueuedOnce
<1>3. PICK e \in Seq(Event) : e = events[c]  BY TypesAt
<1>4. PICK b \in BatchSet : b = NewBatch(c)  BY TypesAt DEF NewBatch, BatchSet
<1>5. b.events = e  BY <1>3, <1>4 DEF NewBatch
<1>6. PICK d \in Seq(Seq(Event)) : d = Delivered(c)  BY DeliveredType
<1>7. PICK s \in Seq(Seq(Event)) : s = sent[c]  BY TypesAt
<1>8. Delivered(c)' = Append(d, e)
  <2>1. PICK g \in Seq(Seq(Event)) : g = got[c]  BY TypesAt
  <2>2. PICK l \in Seq(Seq(Event)) : l = lost[c]  BY TypesAt
  <2>3. d = Joined(g, l, {})  BY <1>2, <1>6, <2>1, <2>2, DeliveredIsJoined
  <2>4. Delivered(c)' = Joined(g, l, {b})
    BY <1>1, <1>2, <1>4, <2>1, <2>2 DEF Delivered, Joined
  <2>5. Joined(g, l, {}) = g \o l /\ Joined(g, l, {b}) = Append(g \o l, b.events)
    BY JoinedParts
  <2> QED  BY <1>5, <2>3, <2>4, <2>5
<1>9. PICK k : k = SendOf(e)  OBVIOUS
<1>10. e # <<>> /\ k \in DOMAIN s /\ e = s[k] /\ AllBefore(d, k)
  BY <1>1, <1>3, <1>6, <1>7, <1>9 DEF Tidy, Whole
<1>11. PICK a : a = Append(d, e)  OBVIOUS
<1>12. /\ Ordered(a, s)
       /\ CallsOf(a) = CallsOf(d) \cup {k}
  <2>1. /\ d \in Seq(Seq(Event)) /\ s \in Seq(Seq(Event)) /\ e \in Seq(Event)
        /\ Ordered(d, s)
    BY <1>3, <1>6, <1>7 DEF Tidy, InOrderOnce
  <2>2. k \in DOMAIN s /\ AllBefore(d, k) /\ e = s[k] /\ e # <<>> /\ SendOf(e) = k
    BY <1>9, <1>10
  <2>3. Extended(a, d, e)  BY <1>11, <2>1, OneMore
  <2>4. Ordered(d, s)  BY <2>1
  <2> QED  BY <2>2, <2>3, <2>4, AppendLater
<1>13. sent'[c] = s  BY <1>7 DEF SameClient
<1>14. InOrderOnce(c)'  BY <1>8, <1>11, <1>12, <1>13 DEF InOrderOnce
<1>15. Past(c)' = Past(c)
  <2>1. Past(c) = CallsOf(d) \cup {k}
    BY <1>1, <1>3, <1>6, <1>9 DEF Past
  <2>2. Past(c)' = CallsOf(a)  BY <1>1, <1>8, <1>11 DEF Past
  <2> QED  BY <1>12, <2>1, <2>2, Zenon
<1>16. Context(c)' = Context(c)  BY <1>1 DEF Context
<1>17. Row(c)' = Row(c)  BY DEF Row, SameClient, SamePipes
<1>18. CanRead(c)' => CanRead(c)  BY <1>1 DEF CanRead, SameLink
<1>19. CanRead(c)' => Expects(c)'
  BY <1>7, <1>13, <1>15, <1>16, <1>17, <1>18 DEF Tidy, Expects
<1> QED  BY <1>1, <1>14, <1>19 DEF Tidy

(* Every step of a handler.                                                *)
LEMMA HandlerTidy ==
    ASSUME LumberjackInv, NEW c \in Conns, ConnOk(c), Tidy(c), HandlerSide(c)
    PROVE  Tidy(c)'
<1>1. Handler(c) /\ UNCHANGED clientVars /\ UNCHANGED serverVars  BY DEF HandlerSide
<1>2. SameClient(c)  BY <1>1 DEF SameClient, clientVars
<1>3. UNCHANGED queue => SameBooks(c) /\ Delivered(c)' = Delivered(c)
  BY <1>1, NoBatchMoves, SameDelivered DEF serverVars
<1>4. ServerTypes  BY DEF LumberjackInv, ServerInv
<1>5. ASSUME NEW r, Finish(c, r), UNCHANGED queue  PROVE Tidy(c)'
  <2>1. spc[c] \in ConnPcs /\ c \in DOMAIN spc  BY <1>4 DEF ServerTypes, ConnTypeOK
  <2> QED  BY <1>2, <1>3, <1>5, <2>1, FinishTidy DEF SameClient
<1>6. ASSUME UNCHANGED queue, Keeps(c), c2s'[c] = c2s[c], link'[c] = link[c],
             spc[c] \notin {"ending", "done"}
      PROVE  Tidy(c)'
  <2>1. Row(c)' = Row(c)  BY <1>2, <1>6 DEF Row, SameClient
  <2>2. CanRead(c)' => CanRead(c)  BY <1>6 DEF CanRead
  <2> QED  BY <1>2, <1>3, <1>6, <2>1, <2>2, StillTidy DEF SameClient
<1>7. CASE Handshake(c)
  <2>1. CASE Finish(c, "Handshake")  BY <1>5, <1>7, <2>1 DEF Handshake
  <2>2. CASE ~Finish(c, "Handshake")
    <3>1. /\ spc[c] = "handshake" /\ spc'[c] = "window" /\ c2s'[c] = c2s[c]
          /\ link'[c] = link[c] /\ UNCHANGED queue
      BY <1>4, <1>7, <2>2 DEF Handshake, ServerTypes, ConnTypeOK
    <3> QED  BY <1>6, <3>1 DEF Keeps
  <2> QED  BY <2>1, <2>2
<1>8. CASE ReadWindow(c)
  <2>1. spc[c] = "window" /\ link[c] # "reset" /\ c2s[c] # <<>> /\ UNCHANGED queue
    BY <1>8 DEF ReadWindow, Readable
  <2>2. CASE NextFrame(c).type = "W"
    <3>1. /\ spc'[c] = (IF NextFrame(c).n = 0 THEN "dispatch" ELSE "collect")
          /\ window'[c] = NextFrame(c).n /\ events'[c] = <<>> /\ c2s'[c] = Tail(c2s[c])
          /\ SameLink(c)
      BY <1>4, <1>8, <2>2 DEF ReadWindow, SameLink, ServerTypes, ConnTypeOK, TransportTypeOK
    <3> QED  BY <1>2, <1>3, <2>1, <2>2, <3>1, ReadWindowTidy
  <2>3. CASE NextFrame(c).type # "W"
    <3>1. PICK r : Finish(c, r)  BY <1>8, <2>3 DEF ReadWindow
    <3> QED  BY <1>5, <2>1, <3>1
  <2> QED  BY <2>2, <2>3
<1>9. CASE Collect(c)
  <2>1. spc[c] = "collect" /\ link[c] # "reset" /\ c2s[c] # <<>> /\ UNCHANGED queue
    BY <1>9 DEF Collect, Readable
  <2>2. CASE InOrder(Taken(c), last_seq[c])
    <3>1. /\ events'[c] = More(c) /\ window'[c] = window[c]
          /\ last_seq'[c] = PrevSeq(Taken(c), Len(Taken(c)) + 1, last_seq[c])
          /\ spc'[c] = (IF Complete(window[c], Len(More(c))) THEN "dispatch" ELSE "collect")
          /\ ack_rx'[c] = ack_rx[c] /\ c2s'[c] = Tail(c2s[c]) /\ s2c'[c] = s2c[c]
          /\ SameLink(c)
      BY <1>4, <1>9, <2>1, <2>2
      DEF Collect, Taken, More, SameLink, ServerTypes, ConnTypeOK, TransportTypeOK
    <3>2. CollectsAt(c)  BY <2>1, <2>2, <3>1 DEF CollectsAt
    <3> QED  BY <1>2, <1>3, <2>1, <3>1, <3>2, CollectTidy
  <2>3. CASE ~InOrder(Taken(c), last_seq[c])
    <3>1. PICK r : Finish(c, r)  BY <1>9, <2>3 DEF Collect, Taken
    <3> QED  BY <1>5, <2>1, <3>1
  <2> QED  BY <2>2, <2>3
<1>10. CASE ReadEnd(c) \/ DispatchClosed(c) \/ WriteAckFails(c)
  <2>1. PICK r : Finish(c, r)
    BY <1>10 DEF ReadEnd, DispatchClosed, WriteAckFails
  <2>2. UNCHANGED queue  BY <1>10 DEF ReadEnd, DispatchClosed, WriteAckFails
  <2> QED  BY <1>5, <2>1, <2>2
<1>11. CASE Dispatch(c)
  <2>1. NewBatch(c) \in BatchSet /\ NewBatch(c).conn = c
    BY TypesAt DEF NewBatch, BatchSet
  <2> HIDE DEF NewBatch
  <2>2. queue' = Append(queue, NewBatch(c))  BY <1>11 DEF Dispatch
  <2>3. Queued(c)' = Queued(c) \cup {NewBatch(c)}
    BY <2>1, <2>2, QueueAppend DEF LumberjackInv
  <2>4. DispatchesAt(c)
    BY <1>1, <1>4, <1>11, <2>3 DEF Dispatch, DispatchesAt, locals, serverVars, Held,
                                   ServerTypes, ConnTypeOK
  <2>5. SameLink(c) /\ SamePipes(c)
    BY <1>11 DEF Dispatch, SameLink, SamePipes, transportVars
  <2> QED  BY <1>2, <2>4, <2>5, DispatchTidy
<1>12. CASE AckReceived(c) \/ KeepaliveDue(c) \/ WriteAck(c)
  <2>1. /\ spc[c] \in {"await", "keepalive", "ack"}
        /\ spc'[c] \in {"await", "keepalive", "ack", "window"}
        /\ UNCHANGED queue /\ c2s'[c] = c2s[c] /\ link'[c] = link[c]
    BY <1>4, <1>12 DEF AckReceived, KeepaliveDue, WriteAck, transportVars, ServerTypes,
                       ConnTypeOK
  <2> QED  BY <1>6, <2>1 DEF Keeps
<1> QED  BY <1>1, <1>7, <1>8, <1>9, <1>10, <1>11, <1>12 DEF Handler

-----------------------------------------------------------------------------
(* Steps of the accept loop, of the application and of the link *)

(* What is delivered moves from the channel to the application, or is lost *)
(* there, and stays what it is.                                            *)
LEMMA DeliveredMoves ==
    ASSUME LumberjackInv, LostLate, Recv \/ DropQueued, NEW d \in Conns
    PROVE  Delivered(d)' = Delivered(d)
<1>1. PICK b \in BatchSet : b = Head(queue)
  BY PopQueue DEF LumberjackInv, Recv, DropQueued
<1>2. PICK c \in Conns : c = b.conn  BY DEF BatchSet
<1>3. /\ Delivered(c)' = Delivered(c)
      /\ \A x \in Conns : x # c => SameBooks(x)
  <2>1. CASE Recv  BY <1>1, <1>2, <2>1, RecvBooks
  <2>2. CASE DropQueued  BY <1>1, <1>2, <2>2, DropBooks
  <2> QED  BY <2>1, <2>2
<1> QED  BY <1>3, SameDelivered

(* Every step of the accept loop and of the application.                   *)
LEMMA ServerTidy ==
    ASSUME LumberjackInv, LostLate, ServerSide, NEW d \in Conns, Tidy(d)
    PROVE  Tidy(d)'
<1>1. ServerStep /\ UNCHANGED clientVars  BY DEF ServerSide
<1>2. ServerTypes  BY DEF LumberjackInv, ServerInv
<1>3. ASSUME Keeps(d), Delivered(d)' = Delivered(d),
             CanRead(d)' => CanRead(d) /\ c2s'[d] = c2s[d]
      PROVE  Tidy(d)'
  <2>1. sent'[d] = sent[d] /\ wbuf'[d] = wbuf[d] /\ tofeed'[d] = tofeed[d]
    BY <1>1 DEF clientVars
  <2>2. CanRead(d)' => CanRead(d) /\ Row(d)' = Row(d)  BY <1>3, <2>1 DEF Row
  <2> QED  BY <1>3, <2>1, <2>2, StillTidy
<1>4. UNCHANGED <<queue, got, lost>> => Delivered(d)' = Delivered(d)
  BY DEF Delivered, Queued
<1>5. ASSUME NEW c \in Conns, Accept(c)  PROVE Tidy(d)'
  <2>1. Delivered(d)' = Delivered(d)  BY <1>4, <1>5 DEF Accept
  <2>2. spc[c] = "none"  BY <1>5 DEF Accept, InBacklog, LumberjackInv, ServerInv, LinkPhase
  <2>3. Keeps(d)
    BY <1>2, <1>5, <2>2 DEF Accept, Keeps, locals, ServerTypes, ConnTypeOK
  <2>4. CanRead(d)' => CanRead(d) /\ c2s'[d] = c2s[d]
    BY <1>2, <1>5, <2>2 DEF Accept, CanRead, ServerTypes, ConnTypeOK, TransportTypeOK
  <2> QED  BY <1>3, <2>1, <2>3, <2>4
<1>6. ASSUME NEW c \in Conns, TaskEnd(c)  PROVE Tidy(d)'
  <2>1. Delivered(d)' = Delivered(d)  BY <1>4, <1>6 DEF TaskEnd
  <2>2. Keeps(d)  BY <1>2, <1>6 DEF TaskEnd, Keeps, locals, ServerTypes, ConnTypeOK
  <2>3. CanRead(d)' => CanRead(d) /\ c2s'[d] = c2s[d]
    BY <1>2, <1>6 DEF TaskEnd, CanRead, transportVars, ServerTypes, ConnTypeOK
  <2> QED  BY <1>3, <2>1, <2>2, <2>3
<1>7. CASE ShutdownSeen \/ AcceptFails
  <2>1. StopLoop  BY <1>7 DEF ShutdownSeen, AcceptFails
  <2>2. Delivered(d)' = Delivered(d)  BY <1>4, <2>1 DEF StopLoop, connVars
  <2>3. Keeps(d)  BY <2>1 DEF StopLoop, Keeps, connVars
  <2>4. CanRead(d)' => CanRead(d) /\ c2s'[d] = c2s[d]
    BY <2>1 DEF StopLoop, CanRead, connVars
  <2> QED  BY <1>3, <2>2, <2>3, <2>4
<1>8. ASSUME UNCHANGED transportVars, UNCHANGED <<spc, locals>>, Delivered(d)' = Delivered(d)
      PROVE  Tidy(d)'
  <2>1. Keeps(d)  BY <1>8 DEF Keeps, locals
  <2>2. CanRead(d)' => CanRead(d) /\ c2s'[d] = c2s[d]  BY <1>8 DEF CanRead, transportVars
  <2> QED  BY <1>3, <1>8, <2>1, <2>2
<1>9. CASE Recv \/ DropQueued
  <2>1. UNCHANGED transportVars /\ UNCHANGED <<spc, locals>>  BY <1>9 DEF Recv, DropQueued
  <2> QED  BY <1>8, <1>9, <2>1, DeliveredMoves
<1>10. CASE RecvNone \/ Shutdown \/ CloseReceiver \/ \E b \in held : Resolve(b)
  <2>1. /\ UNCHANGED transportVars /\ UNCHANGED <<spc, locals>>
        /\ UNCHANGED <<queue, got, lost>>
    BY <1>10 DEF RecvNone, Shutdown, CloseReceiver, Resolve, connVars, serverVars, locals
  <2> QED  BY <1>4, <1>8, <2>1
<1> QED  BY <1>1, <1>5, <1>6, <1>7, <1>9, <1>10 DEF ServerStep

(* A connection no part of which moves, or whose link fails.               *)
LEMMA SameTidy ==
    ASSUME NEW d \in Conns, Tidy(d), SameClient(d), SameHandler(d), SameBooks(d),
           link'[d] = "reset" \/ (link'[d] = link[d] /\ c2s'[d] = c2s[d])
    PROVE  Tidy(d)'
<1>1. Keeps(d) /\ Delivered(d)' = Delivered(d)  BY SameDelivered DEF Keeps, SameHandler
<1>2. CanRead(d)' => CanRead(d) /\ Row(d)' = Row(d)
  BY DEF CanRead, Row, SameClient, SameHandler
<1> QED  BY <1>1, <1>2, StillTidy DEF SameClient

-----------------------------------------------------------------------------
(* The invariant *)

OrderInv == WireInv /\ \A c \in Conns : Tidy(c)

(* Before the first connection nothing is delivered or written.            *)
LEMMA OrderStarts ==
    ASSUME Init
    PROVE  OrderInv
<1>1. WireInv  BY WireStarts
<1>2. ASSUME NEW c \in Conns  PROVE Tidy(c)
  <2>1. /\ wbuf[c] = <<>> /\ tofeed[c] = <<>> /\ sent[c] = <<>> /\ c2s[c] = <<>>
        /\ spc[c] = "none" /\ got[c] = <<>> /\ lost[c] = <<>> /\ queue = <<>>
    BY DEF Init, ClientInit, TransportInit, ConnInit, ServerInit
  <2>2. Queued(c) = {}  BY <2>1 DEF Queued, Range
  <2>3. Delivered(c) = <<>>  BY <2>1, <2>2 DEF Delivered
  <2>4. Row(c) = <<>>  BY <2>1 DEF Row
  <2>5. Past(c) = {}  BY <2>1, <2>3 DEF Past, CallsOf
  <2>6. Expects(c)
    BY <2>4, <2>5 DEF Expects, Fits, Behind, Consecutive
  <2>7. InOrderOnce(c)  BY <2>3 DEF InOrderOnce, Ordered
  <2> QED  BY <2>1, <2>6, <2>7 DEF Tidy
<1> QED  BY <1>1, <1>2 DEF OrderInv

(* Every step of the system keeps every connection tidy.                   *)
LEMMA OrderKept ==
    ASSUME OrderInv, [Next]_vars
    PROVE  OrderInv'
<1>1. /\ WireInv /\ LumberjackInv /\ LostLate /\ \A d \in Conns : ConnOk(d)
      /\ \A d \in Conns : Tidy(d)
  BY DEF OrderInv, WireInv
<1>2. WireInv'  BY <1>1, WireKept
<1>3. ASSUME NEW d \in Conns, Same(d)  PROVE Tidy(d)'
  BY <1>1, <1>3, SameTidy DEF Same, SameLink, SamePipes
<1>4. ASSUME NEW c \in Conns, ClientSide(c), NEW d \in Conns  PROVE Tidy(d)'
  BY <1>1, <1>3, <1>4, ClientTidy, ClientElsewhere
<1>5. ASSUME NEW c \in Conns, HandlerSide(c), NEW d \in Conns  PROVE Tidy(d)'
  BY <1>1, <1>3, <1>5, HandlerTidy, HandlerElsewhere
<1>6. ASSUME NEW c \in Conns, LinkSide(c), NEW d \in Conns  PROVE Tidy(d)'
  <2>1. /\ LinkReset(c) /\ UNCHANGED clientVars /\ UNCHANGED connVars
        /\ UNCHANGED serverVars
    BY <1>6 DEF LinkSide
  <2>2. SameBooks(d)  BY <2>1, NoBatchMoves DEF connVars, serverVars
  <2>3. SameClient(d) /\ SameHandler(d)
    BY <2>1 DEF SameClient, SameHandler, clientVars, connVars
  <2>4. link'[d] = "reset" \/ (link'[d] = link[d] /\ c2s'[d] = c2s[d])
    BY <1>1, <2>1 DEF LinkReset, LumberjackInv, ServerInv, ServerTypes, TransportTypeOK
  <2> QED  BY <1>1, <2>2, <2>3, <2>4, SameTidy
<1>7. ASSUME ServerSide, NEW d \in Conns  PROVE Tidy(d)'  BY <1>1, <1>7, ServerTidy
<1>8. ASSUME UNCHANGED vars, NEW d \in Conns  PROVE Tidy(d)'
  <2>1. UNCHANGED connVars /\ UNCHANGED serverVars /\ UNCHANGED clientVars
        /\ UNCHANGED transportVars
    BY <1>8 DEF vars
  <2>2. SameBooks(d)  BY <2>1, NoBatchMoves DEF connVars, serverVars
  <2>3. Same(d)
    BY <2>1, <2>2 DEF Same, SameClient, SameHandler, SameLink, SamePipes, clientVars,
                      connVars, transportVars
  <2> QED  BY <1>3, <2>3
<1>9. \A d \in Conns : Tidy(d)'
  BY <1>4, <1>5, <1>6, <1>7, <1>8 DEF Next, Terminated
<1> QED  BY <1>2, <1>9 DEF OrderInv

(* In every behaviour of the system, also when an application sends on     *)
(* after an error: the handler never joins what is left of a batch with    *)
(* the next one, and expects only frames that the client can still send.   *)
THEOREM OrderHolds == Spec => []OrderInv
<1>1. Init => OrderInv  BY OrderStarts
<1>2. OrderInv /\ [Next]_vars => OrderInv'  BY OrderKept
<1> QED  BY <1>1, <1>2, PTL DEF Spec

(* What a connection delivers is whole batches, each what one call of send *)
(* was given, in the order of the calls and none twice, whatever a send    *)
(* that failed half-way left on the wire.                                  *)
THEOREM WholeInOrderOnce == Spec => []DeliveredInOrderOnce
<1>1. OrderInv => DeliveredInOrderOnce
  BY DEF OrderInv, Tidy, InOrderOnce, Ordered, DeliveredInOrderOnce
<1> QED  BY <1>1, OrderHolds, PTL

-----------------------------------------------------------------------------
(* Keepalives *)

(* A handler that waits for the application sleeps for an interval at      *)
(* most.  A client that waits for it has heard of it since the sleep       *)
(* began, or is about to, unless this is the first sleep of the wait.      *)
Paced(c) ==
    /\ sleep[c] <= Interval
    /\ spc[c] # "await" => sleep[c] = 0
    /\ ~Awaiting(c) => since[c] = 0
    /\ Awaiting(c) /\ cpc[c] = "wait" =>
           \/ since[c] <= sleep[c] \/ gap[c] <= sleep[c]
           \/ spc[c] = "keepalive" \/ s2c[c] # <<>> \/ link[c] = "reset"

PaceInv == /\ gap \in [Conns -> Nat] /\ sleep \in [Conns -> Nat] /\ since \in [Conns -> Nat]
           /\ \A c \in Conns : Paced(c)

(* What a step can do to a client that goes on waiting for a handler that  *)
(* goes on waiting.                                                        *)
Heard(d) ==
    \/ s2c'[d] = s2c[d] /\ spc'[d] = spc[d] /\ link'[d] = link[d]
    \/ Len(s2c'[d]) < Len(s2c[d])
    \/ spc'[d] = "keepalive" \/ s2c'[d] # <<>> \/ link'[d] = "reset"

LEMMA HandlerHeard ==
    ASSUME ServerTypes, NEW c \in Conns, NEW d \in Conns, cEnd[d] = "open", Handler(c),
           Awaiting(d), Awaiting(d)'
    PROVE  Heard(d)
<1> USE DEF ServerTypes, TransportTypeOK, ConnTypeOK
<1>1. CASE Handshake(c) \/ ReadEnd(c) \/ DispatchClosed(c) \/ WriteAckFails(c)
  BY <1>1 DEF Handshake, ReadEnd, DispatchClosed, WriteAckFails, Finish, Heard, Awaiting
<1>2. CASE ReadWindow(c)
  <2>1. spc[c] = "window" /\ link' = link /\ s2c' = s2c  BY <1>2 DEF ReadWindow
  <2>2. \E v \in {"dispatch", "collect", "ending"} : spc' = [spc EXCEPT ![c] = v]
    <3>1. \/ spc' = [spc EXCEPT ![c] = "dispatch"] \/ spc' = [spc EXCEPT ![c] = "collect"]
          \/ spc' = [spc EXCEPT ![c] = "ending"]
      BY <1>2 DEF ReadWindow, Finish
    <3> QED  BY <3>1, Zenon
  <2>3. c # d  BY <2>1 DEF Awaiting
  <2>4. spc'[d] = spc[d]  BY <2>2, <2>3
  <2> QED  BY <2>1, <2>4, Zenon DEF Heard
<1>3. CASE Collect(c)
  <2>1. spc[c] = "collect" /\ link' = link /\ s2c' = s2c  BY <1>3 DEF Collect
  <2>2. \E v \in {"dispatch", "collect", "ending"} : spc' = [spc EXCEPT ![c] = v]
    <3>1. \/ spc' = [spc EXCEPT ![c] = "dispatch"] \/ spc' = [spc EXCEPT ![c] = "collect"]
          \/ spc' = [spc EXCEPT ![c] = "ending"]
      BY <1>3 DEF Collect, Finish
    <3> QED  BY <3>1, Zenon
  <2>3. c # d  BY <2>1 DEF Awaiting
  <2>4. spc'[d] = spc[d]  BY <2>2, <2>3
  <2> QED  BY <2>1, <2>4, Zenon DEF Heard
<1>4. CASE Dispatch(c) \/ AckReceived(c) \/ KeepaliveDue(c)
  BY <1>4 DEF Dispatch, AckReceived, KeepaliveDue, Heard, Awaiting, transportVars
<1>5. CASE WriteAck(c)
  <2>1. CASE c # d  BY <1>5, <2>1 DEF WriteAck, Written, Heard, Awaiting
  <2>2. CASE c = d
    <3>1. spc[d] = "keepalive"  BY <1>5, <2>2 DEF WriteAck, Awaiting
    <3>2. s2c'[d] = Append(s2c[d], Ack(0)) /\ s2c[d] \in Seq(FrameSet)
      BY <1>5, <2>2, <3>1 DEF WriteAck, Written
    <3>3. Ack(0) \in FrameSet  BY DEF Ack, FrameSet, InnerFrames, AckFrames
    <3>4. Len(s2c'[d]) = Len(s2c[d]) + 1 /\ Len(s2c[d]) \in Nat  BY <3>2, <3>3, AppendProperties
    <3>5. s2c'[d] # <<>>  BY <3>4
    <3> QED  BY <3>5 DEF Heard
  <2> QED  BY <2>1, <2>2
<1> QED  BY <1>1, <1>2, <1>3, <1>4, <1>5 DEF Handler

LEMMA ClientHeard ==
    ASSUME ClientInv, NEW c \in Conns, NEW d \in Conns, NEW l \in BOOLEAN,
           Connect(c, l) \/ ClientRuntime(c) \/ ClientChoice(c), spc'[d] = spc[d],
           cpc[d] = "wait", cpc'[d] = "wait"
    PROVE  Heard(d)
<1> USE DEF ClientInv, ClientTypeOK, TransportTypeOK
<1>0. s2c[d] \in Seq(FrameSet)  OBVIOUS
<1>1. CASE Connect(c, l) \/ ClientHandshake(c)
  BY <1>1 DEF Connect, ClientHandshake, Heard
<1>2. CASE Feed(c)  BY <1>2 DEF Feed, Heard, transportVars
<1>3. CASE WriteOut(c) \/ CloseFails(c) \/ Close(c) \/ Drop(c)
  <2>1. CASE c = d
    <3>1. WriteOut(c) => cpc[c] # "wait"  BY DEF WriteOut
    <3> QED  BY <1>3, <2>1, <3>1 DEF CloseFails, Close, Drop
  <2>2. CASE c # d
    <3>1. s2c'[d] = s2c[d] /\ link'[d] = link[d]
      BY <1>3, <2>2 DEF WriteOut, CloseFails, Close, Drop
    <3> QED  BY <3>1 DEF Heard
  <2> QED  BY <2>1, <2>2
<1>4. CASE WriteError(c) \/ ReceiveEnd(c) \/ WriteTimeout(c) \/ AckTimeout(c) \/ Cancel(c)
  BY <1>4 DEF WriteError, ReceiveEnd, WriteTimeout, AckTimeout, Cancel, Heard, transportVars
<1>5. CASE Receive(c)
  <2>1. CASE c = d
    <3>1. s2c'[d] = Tail(s2c[d]) /\ s2c[d] # <<>>  BY <1>5, <2>1 DEF Receive, Readable
    <3>2. Len(s2c'[d]) < Len(s2c[d])  BY <1>0, <3>1
    <3> QED  BY <3>2 DEF Heard
  <2>2. CASE c # d
    <3>1. s2c'[d] = s2c[d] /\ link' = link  BY <1>5, <2>2 DEF Receive
    <3> QED  BY <3>1 DEF Heard
  <2> QED  BY <2>1, <2>2
<1>6. CASE \E sizes \in Batches : Send(c, sizes) \/ SerializeFails(c, sizes)
  BY <1>6 DEF Send, SerializeFails, Heard, transportVars
<1> QED  BY <1>1, <1>2, <1>3, <1>4, <1>5, <1>6 DEF ClientRuntime, ClientChoice

LEMMA ServerHeard ==
    ASSUME ServerTypes, NEW d \in Conns, ServerStep, Awaiting(d), Awaiting(d)'
    PROVE  Heard(d)
<1> USE DEF ServerTypes, TransportTypeOK, ConnTypeOK
<1>1. CASE \E c \in Conns : Accept(c) \/ TaskEnd(c)
  <2>1. PICK c \in Conns : Accept(c) \/ TaskEnd(c)  BY <1>1
  <2>2. CASE Accept(c)
    <3>1. CASE c = d  BY <2>2, <3>1 DEF Accept, Awaiting
    <3>2. CASE c # d  BY <2>2, <3>2 DEF Accept, Heard
    <3> QED  BY <3>1, <3>2
  <2>3. CASE TaskEnd(c)  BY <2>3 DEF TaskEnd, Awaiting, Heard, transportVars
  <2> QED  BY <2>1, <2>2, <2>3
<1>2. CASE ShutdownSeen \/ AcceptFails
  BY <1>2 DEF ShutdownSeen, AcceptFails, StopLoop, Heard, connVars
<1>3. CASE Recv \/ RecvNone \/ Shutdown \/ CloseReceiver \/ DropQueued
  BY <1>3 DEF Recv, RecvNone, Shutdown, CloseReceiver, DropQueued, Heard, transportVars, connVars
<1>4. CASE \E b \in held : Resolve(b)  BY <1>4 DEF Resolve, Heard, transportVars
<1> QED  BY <1>1, <1>2, <1>3, <1>4 DEF ServerStep

LEMMA NextHeard ==
    ASSUME WireInv, NEW d \in Conns, Next, cpc[d] = "wait", cpc'[d] = "wait",
           Awaiting(d), Awaiting(d)'
    PROVE  Heard(d)
<1>1. ServerTypes /\ ClientInv /\ cEnd[d] = "open"
  BY InvIsClientInv DEF WireInv, ConnOk, LumberjackInv, ServerInv, ServerTypes, Streams, TransportTypeOK, Ends
<1>2. CASE \E c \in Conns : ClientSide(c)
  <2>1. PICK c \in Conns : ClientSide(c)  BY <1>2
  <2>2. PICK l \in BOOLEAN : l = (loop # "stopped")  OBVIOUS
  <2>3. (Connect(c, l) \/ ClientRuntime(c) \/ ClientChoice(c)) /\ spc' = spc
    BY <2>1, <2>2 DEF ClientSide, connVars
  <2> QED  BY <1>1, <2>3, ClientHeard
<1>3. CASE \E c \in Conns : HandlerSide(c)  BY <1>1, <1>3, HandlerHeard DEF HandlerSide
<1>4. CASE \E c \in Conns : LinkSide(c)
  BY <1>1, <1>4 DEF LinkSide, LinkReset, Heard, connVars, ServerTypes, TransportTypeOK
<1>5. CASE ServerSide  BY <1>1, <1>5, ServerHeard DEF ServerSide
<1>6. CASE Terminated  BY <1>6 DEF Terminated, vars, transportVars, connVars, Heard
<1> QED  BY <1>2, <1>3, <1>4, <1>5, <1>6 DEF Next

(* A step of the system takes no time.                                     *)
LEMMA StepPaced ==
    ASSUME WireInv, PaceInv, Step
    PROVE  PaceInv'
<1>1. Next /\ Interval \in Nat  BY TimedAssumption DEF Step
<1>2. /\ gap \in [Conns -> Nat] /\ sleep \in [Conns -> Nat] /\ since \in [Conns -> Nat]
      /\ gap' \in [Conns -> Nat] /\ sleep' \in [Conns -> Nat] /\ since' \in [Conns -> Nat]
  BY DEF PaceInv, Step
<1>3. ASSUME NEW d \in Conns  PROVE Paced(d)'
  <2>1. /\ gap'[d] = IF Restarts(d) THEN 0 ELSE gap[d]
        /\ sleep'[d] = IF spc'[d] # spc[d] THEN 0 ELSE sleep[d]
        /\ since'[d] = IF Awaiting(d)' THEN since[d] ELSE 0
    BY DEF Step
  <2>2. sleep'[d] <= Interval  BY <1>1, <2>1 DEF PaceInv, Paced
  <2>3. spc'[d] # "await" => sleep'[d] = 0  BY <2>1 DEF PaceInv, Paced
  <2>4. ~Awaiting(d)' => since'[d] = 0  BY <2>1
  <2>5. ASSUME Awaiting(d)', cpc'[d] = "wait"
        PROVE  \/ since'[d] <= sleep'[d] \/ gap'[d] <= sleep'[d]
               \/ spc'[d] = "keepalive" \/ s2c'[d] # <<>> \/ link'[d] = "reset"
    <3>1. 0 <= sleep'[d]  BY <1>2
    <3>2. CASE ~Awaiting(d)
      <4>1. since'[d] = 0  BY <2>1, <2>5, <3>2 DEF PaceInv, Paced
      <4> QED  BY <3>1, <4>1
    <3>3. CASE cpc[d] # "wait"
      <4>1. gap'[d] = 0  BY <2>1, <2>5, <3>3 DEF Restarts
      <4> QED  BY <3>1, <4>1
    <3>4. CASE Awaiting(d) /\ cpc[d] = "wait"
      <4>1. Heard(d)  BY <1>1, <2>5, <3>4, NextHeard
      <4>2. CASE Len(s2c'[d]) < Len(s2c[d])
        <5>1. gap'[d] = 0  BY <2>1, <3>4, <4>2 DEF Restarts
        <5> QED  BY <3>1, <5>1
      <4>3. CASE /\ s2c'[d] = s2c[d] /\ spc'[d] = spc[d] /\ link'[d] = link[d]
                 /\ ~(Len(s2c'[d]) < Len(s2c[d]))
        <5>1. ~Restarts(d)  BY <2>5, <3>4, <4>3, Zenon DEF Restarts
        <5>2. gap'[d] = gap[d] /\ sleep'[d] = sleep[d] /\ since'[d] = since[d]
          BY <2>1, <2>5, <4>3, <5>1
        <5> QED  BY <3>4, <4>3, <5>2 DEF PaceInv, Paced
      <4> QED  BY <4>1, <4>2, <4>3 DEF Heard
    <3> QED  BY <3>2, <3>3, <3>4
  <2> QED  BY <2>2, <2>3, <2>4, <2>5 DEF Paced, Awaiting
<1> QED  BY <1>2, <1>3 DEF PaceInv

(* When the runtime is idle, a client that waits for a handler that waits  *)
(* has read all there is and the handler sleeps.                           *)
LEMMA IdleWait ==
    ASSUME WireInv, PaceInv, NEW d \in Conns, ~Ready, cpc[d] = "wait", Awaiting(d)
    PROVE  /\ spc[d] = "await" /\ ack_rx[d] = <<>>
           /\ since[d] <= sleep[d] \/ gap[d] <= sleep[d]
<1>1. ~ClientReady(d) /\ ~HandlerReady(d)  BY DEF Ready
<1>2. cEnd[d] = "open" /\ s2c[d] \in Seq(FrameSet) /\ PipeCap \in Nat \ {0}
  BY InvIsClientInv, TransportAssumption
  DEF WireInv, ConnOk, LumberjackInv, ServerInv, ServerTypes, Streams, TransportTypeOK, Ends
<1>3. link[d] # "reset" /\ s2c[d] = <<>>  BY <1>1 DEF ClientReady, Readable
<1>4. Writable(s2c, cEnd, d)  BY <1>2, <1>3 DEF Writable
<1>5. spc[d] = "await"  BY <1>1, <1>4 DEF HandlerReady, Awaiting
<1>6. ack_rx[d] = <<>>  BY <1>1, <1>5 DEF HandlerReady
<1> QED  BY <1>3, <1>5, <1>6 DEF PaceInv, Paced

(* The sleep is at least as long as the client's wait while time passes.   *)
LEMMA TickPaced ==
    ASSUME Keepalive, WireInv, PaceInv, Tick
    PROVE  PaceInv'
<1>1. Interval \in Nat /\ ~Ready /\ UNCHANGED vars  BY TimedAssumption DEF Tick
<1>2. /\ gap \in [Conns -> Nat] /\ sleep \in [Conns -> Nat] /\ since \in [Conns -> Nat]
      /\ gap' \in [Conns -> Nat] /\ sleep' \in [Conns -> Nat] /\ since' \in [Conns -> Nat]
  BY DEF PaceInv, Tick
<1>3. /\ spc' = spc /\ cpc' = cpc /\ s2c' = s2c /\ link' = link
  BY <1>1 DEF vars, transportVars, clientVars, connVars
<1>4. ASSUME NEW d \in Conns  PROVE Paced(d)'
  <2>1. /\ gap'[d] \in {gap[d], gap[d] + 1}
        /\ sleep'[d] = IF spc[d] = "await" THEN sleep[d] + 1 ELSE sleep[d]
        /\ since'[d] \in {since[d], since[d] + 1}
        /\ ~Awaiting(d) => since'[d] = since[d]
        /\ ~WakeDue(d)
    BY DEF Tick
  <2>2. gap[d] \in Nat /\ sleep[d] \in Nat /\ since[d] \in Nat  BY <1>2
  <2>3. sleep'[d] <= Interval
    <3>1. CASE spc[d] = "await"
      <4>1. ack_rx[d] = <<>>
        <5>1. ~HandlerReady(d)  BY <1>1 DEF Ready
        <5> QED  BY <3>1, <5>1 DEF HandlerReady
      <4>2. sleep[d] # Interval /\ sleep[d] <= Interval  BY <2>1, <3>1, <4>1 DEF WakeDue, PaceInv, Paced
      <4> QED  BY <1>1, <2>1, <2>2, <3>1, <4>2
    <3>2. CASE spc[d] # "await"  BY <2>1, <3>2 DEF PaceInv, Paced
    <3> QED  BY <3>1, <3>2
  <2>4. spc'[d] # "await" => sleep'[d] = 0  BY <1>3, <2>1 DEF PaceInv, Paced
  <2>5. ~Awaiting(d)' => since'[d] = 0  BY <1>3, <2>1 DEF PaceInv, Paced, Awaiting
  <2>6. ASSUME Awaiting(d), cpc[d] = "wait"
        PROVE  since'[d] <= sleep'[d] \/ gap'[d] <= sleep'[d]
    <3>1. spc[d] = "await" /\ (since[d] <= sleep[d] \/ gap[d] <= sleep[d])
      BY <1>1, <2>6, IdleWait
    <3> QED  BY <2>1, <2>2, <3>1
  <2> QED  BY <1>3, <2>3, <2>4, <2>5, <2>6 DEF Paced, Awaiting
<1> QED  BY <1>2, <1>4 DEF PaceInv

(* A send whose batch has been handed over for more than an interval does  *)
(* not time out: the keepalives of its handler restart the ack_timeout,    *)
(* however long the application takes, for every number of clients and     *)
(* every interval below the ack_timeout.                                   *)
THEOREM KeepaliveIsHeard ==
    ASSUME Keepalive, Interval < AckLen
    PROVE  TimedSpec => KeepaliveProtects
<1>1. TimedSpec => Spec
  <2>1. TimedInit => Init  BY DEF TimedInit
  <2>2. [Step \/ Tick]_timedVars => [Next]_vars  BY DEF Step, Tick, timedVars
  <2> QED  BY <2>1, <2>2, PTL DEF TimedSpec, Spec
<1>2. TimedSpec => []WireInv  BY <1>1, WireHolds, PTL
<1>3. TimedInit => PaceInv
  <2> SUFFICES ASSUME TimedInit PROVE PaceInv  OBVIOUS
  <2>1. gap = Zero /\ sleep = Zero /\ since = Zero /\ Interval \in Nat
    BY TimedAssumption DEF TimedInit
  <2> QED  BY <2>1 DEF PaceInv, Paced, Zero
<1>4. WireInv /\ PaceInv /\ [Step \/ Tick]_timedVars => PaceInv'
  <2> SUFFICES ASSUME WireInv, PaceInv, [Step \/ Tick]_timedVars PROVE PaceInv'  OBVIOUS
  <2>1. CASE UNCHANGED timedVars
    BY <2>1 DEF PaceInv, Paced, Awaiting, timedVars, vars, transportVars, clientVars, connVars
  <2> QED  BY <2>1, StepPaced, TickPaced
<1>5. ASSUME WireInv, PaceInv, [Step \/ Tick]_timedVars, NEW c \in Conns, TimesOut(c)
      PROVE  since[c] <= Interval
  <2>1. /\ sleep[c] \in Nat /\ since[c] \in Nat /\ sleep[c] <= Interval
        /\ Interval \in Nat /\ AckLen \in Nat
    BY <1>5, TimedAssumption DEF PaceInv, Paced
  <2>2. ~Tick /\ ~UNCHANGED timedVars
    <3>1. outcome[c] \in Seq(Results)
      BY <1>5 DEF WireInv, LumberjackInv, ClientTypeOK
    <3>2. UNCHANGED outcome => ~TimesOut(c)  BY <3>1 DEF TimesOut
    <3> QED  BY <1>5, <3>2 DEF Tick, timedVars, vars, clientVars
  <2>3. Step  BY <1>5, <2>2
  <2>4. cpc[c] = "wait" /\ gap[c] = AckLen /\ ~Ready  BY <1>5, <2>3 DEF Step, AckDue
  <2>5. CASE Awaiting(c)
    <3>1. since[c] <= sleep[c] \/ gap[c] <= sleep[c]  BY <1>5, <2>4, <2>5, IdleWait
    <3> QED  BY <2>1, <2>4, <3>1
  <2>6. CASE ~Awaiting(c)  BY <1>5, <2>1, <2>6 DEF PaceInv, Paced
  <2> QED  BY <2>5, <2>6
<1>6. WireInv /\ PaceInv /\ [Step \/ Tick]_timedVars =>
          [\A c \in Conns : TimesOut(c) => since[c] <= Interval]_timedVars
  BY <1>5
<1> QED  BY <1>2, <1>3, <1>4, <1>6, PTL DEF TimedSpec, KeepaliveProtects
=============================================================================
