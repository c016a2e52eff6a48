----------------------------- MODULE Connection -----------------------------
(***************************************************************************)
(* `run_connection` of src/src/server.rs, the task that serves one         *)
(* connection, with the `Batch` it hands to the application and the        *)
(* oneshot channel the acknowledgement comes back through.                 *)
(*                                                                         *)
(* The points where the task can be suspended are the values of spc:       *)
(*   "handshake"  TLS accept           "window"   next(): a batch starts   *)
(*   "collect"    next(): the batch    "dispatch" out.send(batch)          *)
(*   "await"      ack_rx / keepalive   "keepalive" send(Ack(0))            *)
(*   "ack"        send(Ack(acked))     "ending"   stream and out dropped,  *)
(*                                                the ActiveGuard not yet  *)
(***************************************************************************)
EXTENDS Transport, FiniteSetsExt

CONSTANTS
    ServerMax,      \* ServerBuilder::max_frame_size
    ChannelCap,     \* ServerBuilder::channel_capacity
    Keepalive       \* is a keepalive interval configured

ASSUME ConnectionAssumption ==
    /\ ServerMax \in Nat
    /\ ChannelCap \in Nat \ {0}     \* mpsc::channel(0) panics in bind
    /\ Keepalive \in BOOLEAN

VARIABLES
    spc,        \* spc[c]: where the task is; "none" before accept
    window,     \* window[c]: the local of that name
    events,     \* events[c]: the events collected; their number is `received`
    last_seq,   \* last_seq[c]: `last_seq` and `prev_seq`, assigned together
    ack_rx,     \* ack_rx[c]: what the oneshot holds, <<>> or <<seq>>
    result,     \* result[c]: what run_connection returned; "Handshake" is the Io
                \* error of a failed TLS handshake, kept apart from the others
    rx,         \* the Server's half of the mpsc channel: "open"; "closing" once
                \* Drop for Server has fired the shutdown oneshot; "dropped"
    queue       \* the batches in the mpsc channel

connVars == <<spc, window, events, last_seq, ack_rx, result, rx, queue>>
locals   == <<window, events, last_seq>>

ConnPcs == {"none", "handshake", "window", "collect", "dispatch", "await",
            "keepalive", "ack", "ending", "done"}

BatchSet == [conn : Conns, events : Seq(Event), last_seq : Nat]

ConnTypeOK ==
    /\ spc \in [Conns -> ConnPcs]
    /\ window \in [Conns -> Nat]
    /\ events \in [Conns -> Seq(Event)]
    /\ last_seq \in [Conns -> Nat]
    /\ ack_rx \in [Conns -> Seq(Nat)]
    /\ result \in [Conns -> Errors \cup {"none", "Ok", "Handshake"}]
    /\ rx \in {"open", "closing", "dropped"}
    /\ queue \in Seq(BatchSet)

ConnInit ==
    /\ spc = [c \in Conns |-> "none"]
    /\ window = [c \in Conns |-> 0]
    /\ events = [c \in Conns |-> <<>>]
    /\ last_seq = [c \in Conns |-> 0]
    /\ ack_rx = [c \in Conns |-> <<>>]
    /\ result = [c \in Conns |-> "none"]
    /\ rx = "open"
    /\ queue = <<>>

(* The accept loop spawned the task and it has not ended.                  *)
Live(c) == spc[c] \notin {"none", "done"}

(* The task holds a clone of the sender until run_connection returns.      *)
HoldsSender(c) == spc[c] \notin {"none", "ending", "done"}

(* run_connection returns r: its stream, its sender and its locals go.     *)
Finish(c, r) ==
    /\ spc' = [spc EXCEPT ![c] = "ending"]
    /\ result' = [result EXCEPT ![c] = r]
    /\ sEnd' = [sEnd EXCEPT ![c] = "closed"]
    /\ c2s' = [c2s EXCEPT ![c] = <<>>]
    /\ window' = [window EXCEPT ![c] = 0]
    /\ events' = [events EXCEPT ![c] = <<>>]
    /\ last_seq' = [last_seq EXCEPT ![c] = 0]
    /\ ack_rx' = [ack_rx EXCEPT ![c] = <<>>]

-----------------------------------------------------------------------------
(* acceptor.accept(stream) *)
Handshake(c) ==
    /\ spc[c] = "handshake"
    /\ \/ /\ link[c] = "up" /\ cEnd[c] = "open"
          /\ spc' = [spc EXCEPT ![c] = "window"]
          /\ UNCHANGED <<sEnd, c2s, locals, ack_rx, result>>
       \/ Finish(c, "Handshake")
    /\ UNCHANGED <<link, cEnd, s2c, rx, queue>>

-----------------------------------------------------------------------------
(* framed.next(): the codec applies the server's frame limit *)
NextFrame(c) == DecodeWithLimit(Head(c2s[c]), ServerMax)

(* A Window frame starts a batch; Window(0) is a complete batch at once.   *)
ReadWindow(c) ==
    LET f == NextFrame(c) IN
    /\ spc[c] = "window"
    /\ Readable(c2s, c)
    /\ IF f.type = "W"
       THEN /\ spc' = [spc EXCEPT ![c] = IF f.n = 0 THEN "dispatch" ELSE "collect"]
            /\ window' = [window EXCEPT ![c] = f.n]
            /\ events' = [events EXCEPT ![c] = <<>>]
            /\ last_seq' = [last_seq EXCEPT ![c] = 0]
            /\ c2s' = [c2s EXCEPT ![c] = Tail(@)]
            /\ UNCHANGED <<sEnd, ack_rx, result>>
       ELSE Finish(c, IF f.type = "X" THEN f.err ELSE "UnexpectedFrame")
    /\ UNCHANGED <<link, cEnd, s2c, rx, queue>>

(* Mutant of Contents: the inner loop ignores the window.                  *)
ContentsAll(f, room) ==
    IF f.type = "C"
    THEN [i \in 1..Len(f.inner) |-> DecodeWithLimit(f.inner[i], ServerMax)]
    ELSE <<f>>

(* What a frame contributes to the batch: itself, or the frames inside a   *)
(* compressed one, of which the loop takes no more than the window needs   *)
(* and leaves the rest unread.                                             *)
Contents(f, room) ==
    IF f.type = "C"
    THEN [i \in 1..Min({Len(f.inner), room}) |-> DecodeWithLimit(f.inner[i], ServerMax)]
    ELSE <<f>>

(* Mutant of SeqOk: equal sequence numbers pass.                           *)
SeqNotBelow(seq, prev) == seq >= prev

SeqOk(seq, prev) == seq > prev

PrevSeq(fs, i, prev) == IF i = 1 THEN prev ELSE fs[i - 1].seq

FrameOk(fs, i, prev) == /\ fs[i].type = "J"
                        /\ SeqOk(fs[i].seq, PrevSeq(fs, i, prev))

InOrder(fs, prev) == \A i \in DOMAIN fs : FrameOk(fs, i, prev)

(* The error for the first frame that is no J frame or not in order.       *)
IsFirstBad(k, fs, prev) == /\ \A j \in 1..(k - 1) : FrameOk(fs, j, prev)
                           /\ ~FrameOk(fs, k, prev)

Fault(fs, prev) ==
    LET f == fs[CHOOSE k \in DOMAIN fs : IsFirstBad(k, fs, prev)]
    IN  CASE f.type = "J" -> "SeqOutOfOrder"
          [] f.type = "X" -> f.err
          [] OTHER        -> "UnexpectedFrame"

(* Mutants of Complete: one event short; any event will do.                *)
CompleteButLast(n, received) == received + 1 >= n
CompleteAtFirst(n, received) == received >= 1

Complete(n, received) == received >= n

Collect(c) ==
    LET fs  == Contents(NextFrame(c), window[c] - Len(events[c]))
        evs == events[c] \o [i \in DOMAIN fs |-> fs[i].data]
    IN
    /\ spc[c] = "collect"
    /\ Readable(c2s, c)
    /\ IF InOrder(fs, last_seq[c])
       THEN /\ events' = [events EXCEPT ![c] = evs]
            /\ last_seq' = [last_seq EXCEPT ![c] = PrevSeq(fs, Len(fs) + 1, @)]
            /\ spc' = [spc EXCEPT ![c] = IF Complete(window[c], Len(evs))
                                         THEN "dispatch" ELSE @]
            /\ c2s' = [c2s EXCEPT ![c] = Tail(@)]
            /\ UNCHANGED <<sEnd, window, ack_rx, result>>
       ELSE Finish(c, Fault(fs, last_seq[c]))
    /\ UNCHANGED <<link, cEnd, s2c, rx, queue>>

(* Mutant of ReadEnd: the end of the stream inside a batch goes unnoticed. *)
ReadEndBetween(c) ==
    /\ \/ spc[c] = "window" /\ AtEof(c2s, cEnd, c) /\ Finish(c, "Ok")
       \/ spc[c] \in {"window", "collect"} /\ link[c] = "reset" /\ Finish(c, "Io")
    /\ UNCHANGED <<link, cEnd, s2c, rx, queue>>

(* The stream ends between two batches, or inside one, or breaks.          *)
ReadEnd(c) ==
    /\ \/ spc[c] = "window"  /\ AtEof(c2s, cEnd, c) /\ Finish(c, "Ok")
       \/ spc[c] = "collect" /\ AtEof(c2s, cEnd, c) /\ Finish(c, "ConnectionClosed")
       \/ spc[c] \in {"window", "collect"} /\ link[c] = "reset" /\ Finish(c, "Io")
    /\ UNCHANGED <<link, cEnd, s2c, rx, queue>>

-----------------------------------------------------------------------------
(* out.send(batch): waits for room in the channel *)
NewBatch(c) == [conn |-> c, events |-> events[c], last_seq |-> last_seq[c]]

Dispatch(c) ==
    /\ spc[c] = "dispatch"
    /\ rx # "dropped"
    /\ Len(queue) < ChannelCap
    /\ queue' = Append(queue, NewBatch(c))
    /\ spc' = [spc EXCEPT ![c] = "await"]
    /\ UNCHANGED <<transportVars, locals, ack_rx, result, rx>>

(* The Server is gone: the batch is dropped and nothing is acknowledged.   *)
DispatchClosed(c) ==
    /\ spc[c] = "dispatch"
    /\ rx = "dropped"
    /\ Finish(c, "Ok")
    /\ UNCHANGED <<link, cEnd, s2c, rx, queue>>

(* The ack loop: `biased` takes an acknowledgement that is there before    *)
(* the interval; while Ack(0) is written the oneshot is not polled.        *)
Awaiting(c) == spc[c] \in {"await", "keepalive"}

AckReceived(c) ==
    /\ spc[c] = "await"
    /\ ack_rx[c] # <<>>
    /\ spc' = [spc EXCEPT ![c] = "ack"]
    /\ UNCHANGED <<transportVars, locals, ack_rx, result, rx, queue>>

(* Mutant of KeepaliveDue: the interval ends the wait, and the handler     *)
(* reads on.                                                               *)
KeepaliveAbandons(c) ==
    /\ Keepalive
    /\ spc[c] = "await"
    /\ ack_rx[c] = <<>>
    /\ spc' = [spc EXCEPT ![c] = "window"]
    /\ UNCHANGED <<transportVars, locals, ack_rx, result, rx, queue>>

KeepaliveDue(c) ==
    /\ Keepalive
    /\ spc[c] = "await"
    /\ ack_rx[c] = <<>>
    /\ spc' = [spc EXCEPT ![c] = "keepalive"]
    /\ UNCHANGED <<transportVars, locals, ack_rx, result, rx, queue>>

WriteAck(c) ==
    /\ spc[c] \in {"keepalive", "ack"}
    /\ Writable(s2c, cEnd, c)
    /\ IF spc[c] = "keepalive"
       THEN /\ s2c' = Written(s2c, cEnd, c, Ack(0))
            /\ spc' = [spc EXCEPT ![c] = "await"]
            /\ UNCHANGED <<locals, ack_rx>>
       ELSE /\ s2c' = Written(s2c, cEnd, c, Ack(Head(ack_rx[c])))
            /\ spc' = [spc EXCEPT ![c] = "window"]
            /\ window' = [window EXCEPT ![c] = 0]
            /\ events' = [events EXCEPT ![c] = <<>>]
            /\ last_seq' = [last_seq EXCEPT ![c] = 0]
            /\ ack_rx' = [ack_rx EXCEPT ![c] = <<>>]
    /\ UNCHANGED <<link, cEnd, sEnd, c2s, result, rx, queue>>

WriteAckFails(c) ==
    /\ spc[c] \in {"keepalive", "ack"}
    /\ WriteFails(cEnd, c)
    /\ Finish(c, "Io")
    /\ UNCHANGED <<link, cEnd, s2c, rx, queue>>

Handler(c) ==
    \/ Handshake(c) \/ ReadWindow(c) \/ Collect(c) \/ ReadEnd(c)
    \/ Dispatch(c) \/ DispatchClosed(c)
    \/ AckReceived(c) \/ KeepaliveDue(c) \/ WriteAck(c) \/ WriteAckFails(c)

(* The await can return: the handler's task has something to do, but for   *)
(* the keepalive interval.                                                 *)
HandlerReady(c) ==
    \/ spc[c] = "handshake"
    \/ /\ spc[c] \in {"window", "collect"}
       /\ Readable(c2s, c) \/ AtEof(c2s, cEnd, c) \/ link[c] = "reset"
    \/ spc[c] = "dispatch" /\ (rx = "dropped" \/ Len(queue) < ChannelCap)
    \/ spc[c] = "await" /\ ack_rx[c] # <<>>
    \/ /\ spc[c] \in {"keepalive", "ack"}
       /\ Writable(s2c, cEnd, c) \/ WriteFails(cEnd, c)

-----------------------------------------------------------------------------
(* Mutant of Acked: the Batch is taken apart with mem::forget, so that the *)
(* sender in it neither sends nor is dropped, and the oneshot stays open.  *)
AckForgotten(rxs, b) == rxs

(* Batch::ack and Drop for Batch: tx.send(last_seq), once per batch; a     *)
(* task that is gone does not hear it.                                     *)
Acked(rxs, b) == IF Awaiting(b.conn) THEN [rxs EXCEPT ![b.conn] = Append(@, b.last_seq)]
                                     ELSE rxs
=============================================================================
