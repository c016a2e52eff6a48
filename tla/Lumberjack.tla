----------------------------- MODULE Lumberjack -----------------------------
(***************************************************************************)
(* The clients and the server of this crate, connected: every client runs  *)
(* src/src/client.rs, every connection is served by a task of              *)
(* src/src/server.rs, and one application owns the Server.                 *)
(***************************************************************************)
EXTENDS Client, Server

vars == <<transportVars, clientVars, connVars, serverVars>>

Init == TransportInit /\ ClientInit /\ ConnInit /\ ServerInit

(* Nothing is left to run: every client is gone, every task has ended, the *)
(* Server is dropped and no batch is held.                                 *)
Terminated ==
    /\ \A c \in Conns : cpc[c] = "closed" /\ ~Live(c)
    /\ loop = "stopped" /\ rx = "dropped" /\ queue = <<>> /\ held = {}
    /\ UNCHANGED vars

ClientSide(c) ==
    /\ Connect(c, loop # "stopped") \/ ClientRuntime(c) \/ ClientChoice(c)
    /\ UNCHANGED <<connVars, serverVars>>

HandlerSide(c) == Handler(c) /\ UNCHANGED <<clientVars, serverVars>>

ServerSide == ServerStep /\ UNCHANGED clientVars

LinkSide(c) == LinkReset(c) /\ UNCHANGED <<clientVars, connVars, serverVars>>

Next ==
    \/ \E c \in Conns : ClientSide(c) \/ HandlerSide(c) \/ LinkSide(c)
    \/ ServerSide
    \/ Terminated

Spec == Init /\ [][Next]_vars

-----------------------------------------------------------------------------
(* The scheduling the liveness properties assume.  Client calls, handler   *)
(* tasks, the accept loop and the drop of a Server are tokio tasks that    *)
(* run whenever they can; a handler waiting for room in the channel is     *)
(* served in turn (the channel's semaphore is FIFO), hence SF.  The        *)
(* application keeps calling recv until it drops the Server and eventually *)
(* resolves every batch it holds.  Nothing makes an application send or    *)
(* close, a link fail, or a timeout fire.                                  *)
ResolveOf(c) == \E b \in held : b.conn = c /\ Resolve(b)

Fairness ==
    /\ \A c \in Conns :
        /\ WF_vars(ClientRuntime(c) /\ UNCHANGED <<connVars, serverVars>>)
        /\ WF_vars(HandlerSide(c))
        /\ SF_vars(Dispatch(c) /\ UNCHANGED <<clientVars, serverVars>>)
        /\ WF_vars((Accept(c) \/ TaskEnd(c) \/ ResolveOf(c)) /\ UNCHANGED clientVars)
    /\ WF_vars((ShutdownSeen \/ CloseReceiver) /\ UNCHANGED clientVars)
    /\ WF_vars((Recv \/ DropQueued) /\ UNCHANGED clientVars)

FairSpec == Spec /\ Fairness

-----------------------------------------------------------------------------
TypeOK == TransportTypeOK /\ ConnTypeOK /\ ServerTypeOK /\ ClientTypeOK

(* `send` returns Ok(n) only for a batch of n events that the server       *)
(* collected completely, handed over, and whose Batch was acknowledged or  *)
(* dropped: nothing of it is still in the channel or in the application's  *)
(* hands.  (The application's recv saw it, unless the Server was dropped   *)
(* with the batch in the channel.)                                         *)
AckedIsDelivered ==
    \A c \in Conns : \A k \in DOMAIN outcome[c] :
        outcome[c][k].ok /\ sent[c][k] # <<>> =>
            /\ outcome[c][k].n = Len(sent[c][k])
            /\ sent[c][k] \in Range(got[c]) \cup Range(lost[c])
            /\ \A b \in Range(queue) \cup held :
                   ~(b.conn = c /\ b.events = sent[c][k])

(* What a connection delivers (received, dropped with the Server, or still *)
(* in the channel) is a sequence of batches each of which is, event for    *)
(* event, what one call of send was given, in the order of the calls and   *)
(* none twice: the server never joins, splits or repeats batches, whatever *)
(* a send that fails half-way leaves on the wire.  (By OneOutstanding a    *)
(* connection has at most one batch in the channel.)                       *)
Queued(c) == {b \in Range(queue) : b.conn = c}

Delivered(c) ==
    got[c] \o lost[c] \o
        (IF Queued(c) = {} THEN <<>> ELSE <<(CHOOSE b \in Queued(c) : TRUE).events>>)

SendOf(evs) == evs[1].send

DeliveredInOrderOnce ==
    \A c \in Conns : LET d == Delivered(c) IN
        /\ \A i \in DOMAIN d : d[i] # <<>> /\ d[i] = sent[c][SendOf(d[i])]
        /\ \A i, j \in DOMAIN d : i < j => SendOf(d[i]) < SendOf(d[j])

(* `send` returns Ok only for a batch the application received: the server *)
(* waits for the user's ack or drop of it before it writes the Ack.        *)
OkMeansReceived ==
    \A c \in Conns : \A k \in DOMAIN outcome[c] :
        outcome[c][k].ok /\ sent[c][k] # <<>> => sent[c][k] \in Range(got[c])

(* Clients, pipes, handlers, channel and application together do what      *)
(* Delivery says, connection by connection, for clients that are not used  *)
(* after an error: no step of any of them delivers a batch twice, out of   *)
(* order or in part, or lets send return Ok before the batch is released,  *)
(* whatever the other connections do.                                      *)
Released(c) == Len(Delivered(c)) - (IF InChannel(c) \/ InHand(c) THEN 1 ELSE 0)

Promise == INSTANCE Delivery WITH
    Batches   <- {EventsOf(k, sizes) : k \in 1..MaxSends, sizes \in Batches},
    Errs      <- Errors,
    submitted <- sent,
    reported  <- outcome,
    delivered <- [c \in Conns |-> Delivered(c)],
    released  <- [c \in Conns |-> Released(c)]

ImplementsDelivery == Promise!Spec

TooLarge(f) == \/ Oversize(f, ServerMax)
               \/ f.type = "C" /\ \E i \in DOMAIN f.inner : Oversize(f.inner[i], ServerMax)

(* Who or what ended the connection explains the result of its task.       *)
EndsAsExpected(c) ==
    CASE result[c] = "none" -> TRUE
      [] result[c] = "Ok" -> cEnd[c] = "closed" \/ rx = "dropped"
      [] result[c] = "Handshake" -> Tls
      [] result[c] \in {"Io", "ConnectionClosed"} ->
            cEnd[c] = "closed" \/ link[c] = "reset"
      [] result[c] = "FrameTooLarge" ->
            \E k \in DOMAIN sent[c] :
                \E f \in Range(BatchFrames(c, sent[c][k])) : TooLarge(f)
      [] OTHER -> FALSE

(* A client that gives up after an error never makes the server see a      *)
(* protocol violation: run_connection ends cleanly when the client or the  *)
(* Server went away between batches, with an I/O error or ConnectionClosed *)
(* when the client went or the stream broke inside one, with FrameTooLarge *)
(* only when the application sent a frame above the server's limit, or a   *)
(* compressed one with such a frame inside; and before the first frame, by *)
(* a handshake that failed.                                                *)
HandlerEndsAsExpected == \A c \in Conns \ Reusing : EndsAsExpected(c)

(* While a client still has something of its batch to write, the handler   *)
(* is reading: the two sides never wait for each other with full pipes.    *)
NoMutualBlocking ==
    \A c \in Conns \ Reusing :
        cpc[c] \in {"feed", "drain", "flush"} =>
            spc[c] \notin {"dispatch", "await", "keepalive", "ack"}

(* Between two sends of a healthy client nothing is left over: no frame in *)
(* either direction or in the write buffer, no batch outstanding, so that  *)
(* no late Ack can be taken for the next batch.                            *)
QuiescentWhenIdle ==
    \A c \in Conns :
        cpc[c] = "idle" /\ ~Broken(c) =>
            /\ wbuf[c] = <<>> /\ c2s[c] = <<>> /\ s2c[c] = <<>>
            /\ ~InChannel(c) /\ ~InHand(c) /\ ~InOneshot(c)

-----------------------------------------------------------------------------
(* Every call of send returns, with or without configured timeouts.        *)
SendTerminates ==
    \A c \in Conns :
        InSend(c) ~> cpc[c] \in {"idle", "closed"}

(* The task of a connection whose client is gone ends, and leaves the      *)
(* gauge.                                                                  *)
ConnectionReclaimed ==
    \A c \in Conns : (cEnd[c] = "closed" /\ Live(c)) ~> spc[c] = "done"

(* close returns although it has no timeout and may have to write out,     *)
(* behind a full pipe, what a send that failed or was cancelled left in    *)
(* the write buffer: a handler that is inside a batch reads on, or the     *)
(* stream breaks.  (A client that sends again after a timeout can meet a   *)
(* handler that writes and does not read: with both pipes full its close   *)
(* never returns.)                                                         *)
CloseTerminates ==
    \A c \in Conns \ Reusing : cpc[c] = "closing" ~> cpc[c] = "closed"

(* Dropping the Server stops the accept loop and closes the listener.      *)
ListenerStops == rx # "open" ~> loop = "stopped"
=============================================================================
