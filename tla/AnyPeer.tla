------------------------------ MODULE AnyPeer -------------------------------
(***************************************************************************)
(* The server of this crate with peers that are not its client: they write *)
(* any frames, in any order, read or do not read the acknowledgements, and *)
(* close whenever they like.                                               *)
(***************************************************************************)
EXTENDS Server

CONSTANTS PeerFrames,   \* what a peer may write
          MaxFrames     \* bound: frames one peer writes

ASSUME PeerAssumption == PeerFrames \subseteq FrameSet /\ MaxFrames \in Nat

VARIABLE wire           \* wire[c]: the frames the peer has written

vars == <<transportVars, connVars, serverVars, wire>>

Init ==
    /\ TransportInit /\ ConnInit /\ ServerInit
    /\ wire = [c \in Conns |-> <<>>]

PeerConnects(c) ==
    /\ link[c] = "none" /\ loop # "stopped"
    /\ link' = [link EXCEPT ![c] = "backlog"]
    /\ UNCHANGED <<cEnd, sEnd, c2s, s2c, wire>>

PeerWrites(c, f) ==
    /\ link[c] = "up" /\ cEnd[c] = "open" /\ sEnd[c] = "open"
    /\ Len(wire[c]) < MaxFrames
    /\ Writable(c2s, sEnd, c)
    /\ c2s' = Written(c2s, sEnd, c, f)
    /\ wire' = [wire EXCEPT ![c] = Append(@, f)]
    /\ UNCHANGED <<link, cEnd, sEnd, s2c>>

PeerReads(c) ==
    /\ cEnd[c] = "open" /\ Readable(s2c, c)
    /\ s2c' = [s2c EXCEPT ![c] = Tail(@)]
    /\ UNCHANGED <<link, cEnd, sEnd, c2s, wire>>

PeerCloses(c) ==
    /\ link[c] \in {"backlog", "up"} /\ cEnd[c] = "open"
    /\ cEnd' = [cEnd EXCEPT ![c] = "closed"]
    /\ s2c' = [s2c EXCEPT ![c] = <<>>]
    /\ UNCHANGED <<link, sEnd, c2s, wire>>

PeerSide(c) ==
    /\ \/ PeerConnects(c) \/ PeerReads(c) \/ PeerCloses(c)
       \/ \E f \in PeerFrames : PeerWrites(c, f)
    /\ UNCHANGED <<connVars, serverVars>>

(* Peers may stop for good; the server then waits.                         *)
Quiet ==
    /\ \A c \in Conns : cEnd[c] = "closed" \/ link[c] \in {"none", "reset"}
    /\ \A c \in Conns : ~Live(c)
    /\ loop = "stopped" /\ rx = "dropped" /\ queue = <<>> /\ held = {}
    /\ UNCHANGED vars

Next ==
    \/ \E c \in Conns : \/ PeerSide(c)
                        \/ Handler(c) /\ UNCHANGED <<serverVars, wire>>
    \/ ServerStep /\ UNCHANGED wire
    \/ Quiet

Spec == Init /\ [][Next]_vars

-----------------------------------------------------------------------------
(* A batch tells a client of this crate that all its events arrived: its   *)
(* last_seq is at least the number of its events, which is the number the  *)
(* window announced, so the final Ack passes the client's `seq >= n`.      *)
AckCoversWindow ==
    /\ \A b \in Range(queue) \cup held : b.last_seq >= Len(b.events)
    /\ \A c \in Conns : Awaiting(c) \/ spc[c] = "ack" =>
            /\ Len(events[c]) = window[c]
            /\ InOneshot(c) => Head(ack_rx[c]) >= window[c]

(* What a frame of a batch holds: a J frame itself, a compressed one the   *)
(* frames inside it.                                                       *)
Inside(f) == CASE f.type = "J" -> <<f>>
               [] f.type = "C" -> f.inner
               [] OTHER        -> <<>>

Enclosed(fs) == UNION {Range(Inside(fs[i])) : i \in DOMAIN fs}

(* The frames fs hold the events evs, in this order: frame i holds what    *)
(* follows from[i] others, and event k came in the J frame items[k], with  *)
(* sequence numbers that increase.  What is beyond evs is left out.        *)
Holds(fs, evs, items, from) ==
    /\ from[1] = 0
    /\ \A i \in 1..(Len(fs) - 1) : from[i + 1] = from[i] + Len(Inside(fs[i]))
    /\ \A i \in DOMAIN fs : \A j \in DOMAIN Inside(fs[i]) :
            from[i] + j \in DOMAIN evs => items[from[i] + j] = Inside(fs[i])[j]
    /\ \A k \in DOMAIN evs : items[k].type = "J" /\ items[k].data = evs[k]
    /\ \A k, l \in DOMAIN evs : k < l => items[k].seq < items[l].seq

(* How many frames with events there are up to the end of fs.              *)
Filled(fs, from) == from[Len(fs)] + Len(Inside(fs[Len(fs)]))

(* What the frames of one batch must look like: a Window, whose number is  *)
(* the number of events, and then frames that hold them; the last one, and *)
(* none before it, fills the window.                                       *)
IsBatch(fs, evs) ==
    /\ fs # <<>> /\ fs[1].type = "W" /\ fs[1].n = Len(evs)
    /\ \A i \in 2..Len(fs) : fs[i].type \in {"J", "C"}
    /\ \E items \in [DOMAIN evs -> Enclosed(fs)], from \in [DOMAIN fs -> 0..Len(evs)] :
        /\ Holds(fs, evs, items, from)
        /\ \A i \in 2..Len(fs) : from[i] < Len(evs)
        /\ Filled(fs, from) >= Len(evs)

(* What recv returned for a connection is a reading of what its peer       *)
(* wrote: the stream of frames, cut into consecutive batches.              *)
DeliversTheWire ==
    \A c \in Conns :
        \E cut \in [0..Len(got[c]) -> 0..Len(wire[c])] :
            /\ cut[0] = 0
            /\ \A k \in 1..Len(got[c]) :
                /\ cut[k - 1] < cut[k]
                /\ IsBatch(SubSeq(wire[c], cut[k - 1] + 1, cut[k]), got[c][k])
=============================================================================
