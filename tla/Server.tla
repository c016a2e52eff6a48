------------------------------- MODULE Server -------------------------------
(***************************************************************************)
(* `Server` and `ServerBuilder::bind` of src/src/server.rs: the accept     *)
(* loop, the gauge of live connections, and the handle through which the   *)
(* application receives batches, acknowledges them and shuts down.         *)
(***************************************************************************)
EXTENDS Connection

CONSTANT AcceptErrors   \* may listener.accept() fail

ASSUME ServerAssumption == AcceptErrors \in BOOLEAN

VARIABLES
    loop,     \* the accept loop: "select"; "stopping" after an accept that
              \* raced the shutdown; "stopped"
    active,   \* the AtomicUsize gauge
    held,     \* the batches the application has received and not resolved
    got,      \* got[c]: the batches recv returned, in order, by their events
    lost,     \* lost[c]: the batches dropped in the channel with the Server
    ended     \* has recv returned None: "no", "yes"

serverVars == <<loop, active, held, got, lost, ended>>

ServerTypeOK ==
    /\ loop \in {"select", "stopping", "stopped"}
    /\ active \in Nat
    /\ held \in SUBSET BatchSet
    /\ got \in [Conns -> Seq(Seq(Event))]
    /\ lost \in [Conns -> Seq(Seq(Event))]
    /\ ended \in {"no", "yes"}

ServerInit ==
    /\ loop = "select"
    /\ active = 0
    /\ held = {}
    /\ got = [c \in Conns |-> <<>>]
    /\ lost = [c \in Conns |-> <<>>]
    /\ ended = "no"

-----------------------------------------------------------------------------
(* The accept loop *)

(* `biased` polls the shutdown oneshot first, so once it has fired at most *)
(* the one accept that was already being polled can still win.             *)
AfterAccept == IF rx = "open" THEN "select" ELSE "stopping"

(* A connection that failed before it was accepted is handed out as well;  *)
(* where accept() reports the failure instead, that is AcceptFails.        *)
InBacklog(c) == link[c] = "backlog" \/ (link[c] = "reset" /\ spc[c] = "none")

Accept(c) ==
    /\ loop = "select"
    /\ InBacklog(c)
    /\ link' = [link EXCEPT ![c] = IF @ = "backlog" THEN "up" ELSE @]
    /\ active' = active + 1
    /\ spc' = [spc EXCEPT ![c] = IF Tls THEN "handshake" ELSE "window"]
    /\ loop' = AfterAccept
    /\ UNCHANGED <<cEnd, sEnd, c2s, s2c, locals, ack_rx, result, rx, queue,
                   held, got, lost, ended>>

(* The listener goes with the loop, and what was in its backlog is reset.  *)
StopLoop ==
    /\ loop' = "stopped"
    /\ link' = [c \in Conns |-> IF link[c] = "backlog" THEN "reset" ELSE link[c]]
    /\ c2s' = [c \in Conns |-> IF link[c] = "backlog" THEN <<>> ELSE c2s[c]]
    /\ UNCHANGED <<cEnd, sEnd, s2c, connVars, active, held, got, lost, ended>>

(* Mutant of ShutdownSeen: the oneshot is looked at after an accept only.  *)
ShutdownAfterAccept == loop = "stopping" /\ rx # "open" /\ StopLoop

ShutdownSeen == loop # "stopped" /\ rx # "open" /\ StopLoop

AcceptFails == AcceptErrors /\ loop = "select" /\ StopLoop

(* Mutants of GaugeAfter: the gauge goes down only when run_connection     *)
(* succeeded; it goes down in the task and again in the guard.             *)
GaugeOnSuccess(c) == IF result[c] = "Ok" THEN active - 1 ELSE active
GaugeTwice(c) == active - 2

(* Drop for ActiveGuard: fetch_sub(1), however the task ended.             *)
GaugeAfter(c) == active - 1

(* The task of connection c ends.                                          *)
TaskEnd(c) ==
    /\ spc[c] = "ending"
    /\ spc' = [spc EXCEPT ![c] = "done"]
    /\ active' = GaugeAfter(c)
    /\ UNCHANGED <<transportVars, locals, ack_rx, result, rx, queue,
                   loop, held, got, lost, ended>>

-----------------------------------------------------------------------------
(* The application's side *)

(* Server::recv *)
Recv ==
    LET b == Head(queue) IN
    /\ rx = "open"
    /\ queue # <<>>
    /\ queue' = Tail(queue)
    /\ held' = held \cup {b}
    /\ got' = [got EXCEPT ![b.conn] = Append(@, b.events)]
    /\ UNCHANGED <<transportVars, spc, locals, ack_rx, result, rx,
                   loop, active, lost, ended>>

(* Mutant of RecvNone: the sender in the handler tasks is forgotten.       *)
RecvNoneEarly ==
    /\ rx = "open"
    /\ queue = <<>>
    /\ loop = "stopped"
    /\ ended' = "yes"
    /\ UNCHANGED <<transportVars, connVars, loop, active, held, got, lost>>

(* None: the channel is empty and every sender is gone, the loop's too.    *)
RecvNone ==
    /\ rx = "open"
    /\ queue = <<>>
    /\ loop = "stopped"
    /\ \A c \in Conns : ~HoldsSender(c)
    /\ ended' = "yes"
    /\ UNCHANGED <<transportVars, connVars, loop, active, held, got, lost>>

(* Batch::ack, or the Batch is dropped (into_events drops it at once).     *)
Resolve(b) ==
    /\ b \in held
    /\ held' = held \ {b}
    /\ ack_rx' = Acked(ack_rx, b)
    /\ UNCHANGED <<transportVars, spc, locals, result, rx, queue,
                   loop, active, got, lost, ended>>

(* Drop for Server fires the shutdown oneshot, then the fields go: the     *)
(* receiver is closed, and drops the batches still in the channel one by   *)
(* one, which acknowledges them.                                           *)
Shutdown ==
    /\ rx = "open"
    /\ rx' = "closing"
    /\ UNCHANGED <<transportVars, spc, locals, ack_rx, result, queue, serverVars>>

CloseReceiver ==
    /\ rx = "closing"
    /\ rx' = "dropped"
    /\ UNCHANGED <<transportVars, spc, locals, ack_rx, result, queue, serverVars>>

DropQueued ==
    LET b == Head(queue) IN
    /\ rx = "dropped"
    /\ queue # <<>>
    /\ queue' = Tail(queue)
    /\ ack_rx' = Acked(ack_rx, b)
    /\ lost' = [lost EXCEPT ![b.conn] = Append(@, b.events)]
    /\ UNCHANGED <<transportVars, spc, locals, result, rx,
                   loop, active, held, got, ended>>

ServerStep ==
    \/ \E c \in Conns : Accept(c) \/ TaskEnd(c)
    \/ ShutdownSeen \/ AcceptFails
    \/ Recv \/ RecvNone
    \/ \E b \in held : Resolve(b)
    \/ Shutdown \/ CloseReceiver \/ DropQueued

(* What the server's own tasks, and the drop of a Server, can do at once.  *)
ServerReady ==
    \/ \E c \in Conns : (loop = "select" /\ InBacklog(c)) \/ spc[c] = "ending"
    \/ loop # "stopped" /\ rx # "open"
    \/ rx = "closing"
    \/ rx = "dropped" /\ queue # <<>>

-----------------------------------------------------------------------------
(* Where the batch of connection c is that was dispatched and whose        *)
(* acknowledgement has not been written: in the channel, with the          *)
(* application, or resolved, its acknowledgement waiting in the oneshot.   *)
InChannel(c) == \E i \in DOMAIN queue : queue[i].conn = c
InHand(c)    == \E b \in held : b.conn = c
InOneshot(c) == ack_rx[c] # <<>>

(* A connection never has two batches outstanding, and the one it has is   *)
(* in one place only.                                                      *)
OneOutstanding ==
    /\ \A i, j \in DOMAIN queue : queue[i].conn = queue[j].conn => i = j
    /\ \A a, b \in held : a.conn = b.conn => a = b
    /\ \A c \in Conns : /\ Len(ack_rx[c]) <= 1
                        /\ ~(InChannel(c) /\ InHand(c))
                        /\ ~(InChannel(c) /\ InOneshot(c))
                        /\ ~(InHand(c) /\ InOneshot(c))

(* The handler waits exactly while its batch is somewhere: it never waits  *)
(* for an acknowledgement that nobody can send, never acknowledges on the  *)
(* wire a batch that is still in the channel or with the application, and  *)
(* starts no new batch before the last one is acknowledged.  (Only a       *)
(* handler that gave up leaves a batch behind.)                            *)
NoLostAck ==
    \A c \in Conns :
        /\ Awaiting(c) => InChannel(c) \/ InHand(c) \/ InOneshot(c)
        /\ spc[c] = "ack" => InOneshot(c)
        /\ InOneshot(c) => Awaiting(c) \/ spc[c] = "ack"
        /\ InChannel(c) \/ InHand(c) => Awaiting(c) \/ spc[c] \in {"ending", "done"}

(* active_connections() is the number of handler tasks that have not       *)
(* ended, on every path out of a task.                                     *)
GaugeExact == active = Cardinality({c \in Conns : Live(c)})

(* Once recv has returned None no batch can ever arrive: the channel is    *)
(* empty, the accept loop is gone and no task holds a sender.              *)
NoneIsFinal == ended = "yes" => /\ queue = <<>> /\ loop = "stopped"
                                /\ \A c \in Conns : ~HoldsSender(c)

(* What makes these inductive.  A connection that has not been accepted    *)
(* has no task, and a task that collects still misses an event.            *)
LinkPhase == \A c \in Conns : link[c] \in {"none", "backlog"} => spc[c] = "none"

CollectRoom == \A c \in Conns : spc[c] = "collect" => Len(events[c]) < window[c]

ServerTypes == TransportTypeOK /\ ConnTypeOK /\ ServerTypeOK

ServerInv ==
    /\ ServerTypes
    /\ LinkPhase /\ CollectRoom
    /\ GaugeExact
    /\ OneOutstanding /\ NoLostAck
    /\ NoneIsFinal
=============================================================================
