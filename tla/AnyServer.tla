----------------------------- MODULE AnyServer ------------------------------
(***************************************************************************)
(* The client of this crate with a server that is not: it reads or does    *)
(* not read, answers with any frames (partial acknowledgements, Ack(0),    *)
(* acknowledgements repeated or out of the blue, other frames), or says    *)
(* nothing at all, and closes whenever it likes.                           *)
(***************************************************************************)
EXTENDS Client, SequencesExt

CONSTANTS Answers,      \* the frames this server may write
          MaxAnswers    \* bound: frames it writes on one connection

(* What reading a frame can fail with.                                     *)
DecodeErrors == {"Io", "InvalidFrame", "FrameTooLarge", "Compression"}

ASSUME AnswersAssumption ==
    /\ Answers \subseteq FrameSet /\ MaxAnswers \in Nat
    /\ \A f \in Answers : f.type = "X" => f.err \in DecodeErrors

VARIABLES taken,    \* taken[c]: the frames the server has read
          answers,  \* answers[c]: how many frames it has written
          seen      \* seen[c]: the frames the client read, each with the number
                    \* of the send that read it

vars == <<transportVars, clientVars, taken, answers, seen>>

Init ==
    /\ TransportInit /\ ClientInit
    /\ taken = [c \in Conns |-> <<>>]
    /\ answers = [c \in Conns |-> 0]
    /\ seen = [c \in Conns |-> <<>>]

ServerAccepts(c) ==
    /\ link[c] = "backlog"
    /\ link' = [link EXCEPT ![c] = "up"]
    /\ UNCHANGED <<cEnd, sEnd, c2s, s2c, taken, answers>>

ServerReads(c) ==
    /\ link[c] = "up" /\ sEnd[c] = "open" /\ c2s[c] # <<>>
    /\ c2s' = [c2s EXCEPT ![c] = Tail(@)]
    /\ taken' = [taken EXCEPT ![c] = Append(@, Head(c2s[c]))]
    /\ UNCHANGED <<link, cEnd, sEnd, s2c, answers>>

ServerAnswers(c, f) ==
    /\ link[c] = "up" /\ sEnd[c] = "open"
    /\ answers[c] < MaxAnswers
    /\ Writable(s2c, cEnd, c)
    /\ s2c' = Written(s2c, cEnd, c, f)
    /\ answers' = [answers EXCEPT ![c] = @ + 1]
    /\ UNCHANGED <<link, cEnd, sEnd, c2s, taken>>

ServerCloses(c) ==
    /\ link[c] = "up" /\ sEnd[c] = "open"
    /\ sEnd' = [sEnd EXCEPT ![c] = "closed"]
    /\ c2s' = [c2s EXCEPT ![c] = <<>>]
    /\ UNCHANGED <<link, cEnd, s2c, taken, answers>>

AnyServerStep(c) ==
    /\ \/ ServerAccepts(c) \/ ServerReads(c) \/ ServerCloses(c)
       \/ \E f \in Answers : ServerAnswers(c, f)
    /\ UNCHANGED <<clientVars, seen>>

ClientStep(c) ==
    /\ Connect(c, TRUE) \/ ClientRuntime(c) \/ ClientChoice(c)
    /\ seen' = IF s2c'[c] # s2c[c] /\ cpc[c] = "wait" /\ cEnd'[c] = "open"
               THEN [seen EXCEPT ![c] = Append(@, <<Len(sent[c]), Head(s2c[c])>>)]
               ELSE seen
    /\ UNCHANGED <<taken, answers>>

Next == \E c \in Conns : ClientStep(c) \/ AnyServerStep(c)

Spec == Init /\ [][Next]_vars

-----------------------------------------------------------------------------
(* A send returns Ok for the first acknowledgement it reads that covers    *)
(* the batch, the last frame it reads: everything it read before was an    *)
(* Ack below n, and any other frame, a decoding error or the end of the    *)
(* stream made it fail.                                                    *)
CoveringAck(f, n) == f.type = "A" /\ f.seq >= n
PartialAck(f, n)  == f.type = "A" /\ f.seq < n

ReadBy(s, k) == {i \in DOMAIN s : s[i][1] = k}

CoveredFirst(s, k, n) ==
    \E i \in ReadBy(s, k) :
        /\ CoveringAck(s[i][2], n)
        /\ \A j \in ReadBy(s, k) \ {i} : j < i /\ PartialAck(s[j][2], n)

OkAtFirstCoveringAck ==
    \A c \in Conns : \A k \in DOMAIN outcome[c] :
        outcome[c][k].ok /\ sent[c][k] # <<>> =>
            CoveredFirst(seen[c], k, Len(sent[c][k]))

(* A client that gives up after an error writes whole batches one after    *)
(* the other and nothing else: what the server has read, what is under way *)
(* and what is in the write buffer can be cut into the batches of its      *)
(* calls, nothing for a call that got no further than serialization; only  *)
(* a call that failed may have left its batch unfinished, and it was the   *)
(* last.                                                                   *)
Row(c) == ((taken[c] \o c2s[c]) \o wbuf[c]) \o tofeed[c]

BatchOf(c, k) ==
    IF sent[c][k] = <<>> \/ (k \in DOMAIN outcome[c] /\ outcome[c][k].err = "Serialization")
    THEN <<>> ELSE BatchFrames(c, sent[c][k])

BatchesOf(c) == [k \in 1..Len(sent[c]) |-> BatchOf(c, k)]

CutInto(w, bs, torn) ==
    \E cut \in [0..Len(bs) -> 0..Len(w)] :
        /\ cut[0] = 0 /\ cut[Len(bs)] = Len(w)
        /\ \A j, k \in 0..Len(bs) : j <= k => cut[j] <= cut[k]
        /\ \A k \in 1..Len(bs) :
            LET part == SubSeq(w, cut[k - 1] + 1, cut[k]) IN
            part = bs[k] \/ (torn /\ k = Len(bs) /\ IsPrefix(part, bs[k]))

WritesBatches ==
    \A c \in Conns \ Reusing :
        cEnd[c] = "open" /\ sEnd[c] = "open" => CutInto(Row(c), BatchesOf(c), Broken(c))

(* With both timeouts configured no send waits forever on a server that    *)
(* has stopped reading or answering (an endless stream of Ack(0), each of  *)
(* which restarts the ack timeout, is beyond the bound MaxAnswers).        *)
TimeoutsBoundSend ==
    \A c \in WriteTimeouts \cap AckTimeouts :
        InSend(c) ~> cpc[c] \in {"idle", "closed"}
=============================================================================
