---------------------------- MODULE TimedClient -----------------------------
(***************************************************************************)
(* The client's two timeouts on a clock, against any server.  A            *)
(* `tokio::time::timeout` is wrapped around each feed, around the flush,   *)
(* and around each `framed.next()` of the ack loop; it polls what it wraps *)
(* before its own deadline.  Time passes while the client has nothing to   *)
(* do: computing takes none.                                               *)
(***************************************************************************)
EXTENDS AnyServer

CONSTANTS WriteLen, AckLen      \* write_timeout and ack_timeout, in ticks

ASSUME TimedClientAssumption == {WriteLen, AckLen} \subseteq Nat \ {0}

VARIABLES timer,    \* timer[c]: ticks since the current await began
          phase     \* phase[c]: ticks since send began to write, until it is done

timedVars == <<vars, timer, phase>>

TimedInit == Init /\ timer = [c \in Conns |-> 0] /\ phase = [c \in Conns |-> 0]

Writing(c) == cpc[c] \in {"feed", "drain", "flush"}
Limit(c)   == IF cpc[c] = "wait" THEN AckLen ELSE WriteLen

Due(c) == timer[c] = Limit(c) /\ ~ClientReady(c) /\ (WriteTimed(c) \/ AckTimed(c))

TimesOut(c) == /\ outcome'[c] # outcome[c]
               /\ Last(outcome'[c]).err \in {"WriteTimeout", "AckTimeout"}

(* Every await has a timeout of its own: the next feed, the flush and the  *)
(* next frame of the ack loop each start again.                            *)
Restarts(c) == cpc'[c] # cpc[c] \/ seen'[c] # seen[c]

Step ==
    /\ Next
    /\ \A c \in Conns : TimesOut(c) => Due(c)
    /\ timer' = [c \in Conns |-> IF Restarts(c) THEN 0 ELSE timer[c]]
    /\ phase' = [c \in Conns |-> IF Writing(c)' THEN phase[c] ELSE 0]

(* A send writes its frames one feed at a time and flushes: as many        *)
(* timeouts may pass.                                                      *)
Timeouts(c) == Len(BatchFrames(c, Last(sent[c]))) + 1
PhaseCap    == WriteLen * (2 + Max({Len(b) : b \in Batches})) + 1

Tick ==
    /\ \A c \in Conns : ~ClientReady(c) /\ ~Due(c)
    /\ timer' = [c \in Conns |->
                    IF cpc[c] \in {"drain", "flush", "wait"} /\ timer[c] < Limit(c)
                    THEN timer[c] + 1 ELSE timer[c]]
    /\ phase' = [c \in Conns |->
                    IF Writing(c) /\ phase[c] < PhaseCap THEN phase[c] + 1 ELSE phase[c]]
    /\ UNCHANGED vars

TimedNext == Step \/ Tick

(* The client's task runs, and time goes on.  Nothing is assumed of the    *)
(* server.                                                                 *)
TimedSpec ==
    /\ TimedInit /\ [][TimedNext]_timedVars
    /\ \A c \in Conns : WF_timedVars(Step /\ ClientStep(c) /\ (ClientReady(c) \/ Due(c)) /\ cpc[c] # "idle")
    /\ WF_timedVars(Tick)

-----------------------------------------------------------------------------
(* However slowly a server reads, send leaves its writing phase after at   *)
(* most one write_timeout for each frame and one for the flush.            *)
WritePhaseBounded ==
    \A c \in WriteTimeouts : Writing(c) => phase[c] <= WriteLen * Timeouts(c)
=============================================================================
