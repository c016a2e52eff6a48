----------------------------- MODULE Transport ------------------------------
(***************************************************************************)
(* The byte pipes between a Client and the server's connection handler:    *)
(* TCP (or TLS over it) under `Framed`.  Neither is part of the crate; the *)
(* module states what src/src/client.rs and src/src/server.rs rely on and  *)
(* what they must survive.                                                 *)
(*                                                                         *)
(*  - each direction is a FIFO of frames holding at most PipeCap of them,  *)
(*    so a writer waits while the peer does not read;                      *)
(*  - an endpoint that is dropped closes its stream: the peer first reads  *)
(*    what is still in the pipe and then sees the end of the stream, and   *)
(*    what is written towards a closed endpoint is lost or fails;          *)
(*  - the link of a connection in Flaky may fail at any moment, taking all *)
(*    bytes in flight with it; both ends then get I/O errors.              *)
(***************************************************************************)
EXTENDS Frames, FiniteSets

CONSTANTS Conns,      \* connections, one Client value each
          PipeCap,    \* frames one direction of a connection can hold
          Flaky,      \* the connections whose link may fail
          Tls         \* do both sides use TLS

ASSUME TransportAssumption ==
    /\ IsFiniteSet(Conns)
    /\ PipeCap \in Nat \ {0}
    /\ Flaky \subseteq Conns
    /\ Tls \in BOOLEAN

VARIABLES
    link,   \* link[c]: "none", "backlog" (connected, not accepted), "up", "reset"
    cEnd,   \* cEnd[c]: is the client's end of the stream "open" or "closed"
    sEnd,   \* sEnd[c]: the same for the server's end
    c2s,    \* c2s[c]: frames on their way to the server
    s2c     \* s2c[c]: frames on their way to the client

transportVars == <<link, cEnd, sEnd, c2s, s2c>>

Ends == {"open", "closed"}

TransportTypeOK ==
    /\ link \in [Conns -> {"none", "backlog", "up", "reset"}]
    /\ cEnd \in [Conns -> Ends]
    /\ sEnd \in [Conns -> Ends]
    /\ c2s \in [Conns -> Seq(FrameSet)]
    /\ s2c \in [Conns -> Seq(FrameSet)]

TransportInit ==
    /\ link = [c \in Conns |-> "none"]
    /\ cEnd = [c \in Conns |-> "open"]
    /\ sEnd = [c \in Conns |-> "open"]
    /\ c2s = [c \in Conns |-> <<>>]
    /\ s2c = [c \in Conns |-> <<>>]

(* A pipe accepts a frame when it has room; towards a closed endpoint the  *)
(* kernel accepts it too, and it goes nowhere.                             *)
Writable(pipe, peer, c) ==
    /\ link[c] # "reset"
    /\ peer[c] = "closed" \/ Len(pipe[c]) < PipeCap

Written(pipe, peer, c, f) ==
    IF peer[c] = "closed" THEN pipe ELSE [pipe EXCEPT ![c] = Append(@, f)]

WriteFails(peer, c) == link[c] = "reset" \/ peer[c] = "closed"

(* A reader takes the oldest frame; once the pipe is empty a closed peer   *)
(* means end of stream.                                                    *)
Readable(pipe, c)  == link[c] # "reset" /\ pipe[c] # <<>>
AtEof(pipe, peer, c) == link[c] # "reset" /\ pipe[c] = <<>> /\ peer[c] = "closed"

(* The link fails: bytes in flight are gone in both directions.            *)
LinkReset(c) ==
    /\ c \in Flaky
    /\ link[c] \in {"backlog", "up"}
    /\ cEnd[c] = "open" \/ sEnd[c] = "open"
    /\ link' = [link EXCEPT ![c] = "reset"]
    /\ c2s' = [c2s EXCEPT ![c] = <<>>]
    /\ s2c' = [s2c EXCEPT ![c] = <<>>]
    /\ UNCHANGED <<cEnd, sEnd>>
=============================================================================
