--------------------------- MODULE TimedKeepalive ---------------------------
(***************************************************************************)
(* Clients and server on one clock: the client's ack_timeout against the   *)
(* server's keepalive interval.  The applications take all the time they   *)
(* like; tasks, pipes and the accept loop take none, so that time passes   *)
(* only when the runtime has nothing to do.                                *)
(***************************************************************************)
EXTENDS Lumberjack

CONSTANTS AckLen, Interval      \* ack_timeout and keepalive, in ticks

ASSUME TimedAssumption == {AckLen, Interval} \subseteq Nat \ {0}

VARIABLES gap,      \* gap[c]: ticks since the client began to wait for a frame
          sleep,    \* sleep[c]: ticks since the handler began to wait for the ack
          since     \* since[c]: ticks since the handler's batch entered the channel,
                    \* counted to one beyond Interval

timedVars == <<vars, gap, sleep, since>>

Zero == [c \in Conns |-> 0]

TimedInit == Init /\ gap = Zero /\ sleep = Zero /\ since = Zero

(* What the runtime can do at once.                                        *)
Ready == (\E c \in Conns : ClientReady(c) \/ HandlerReady(c)) \/ ServerReady

AckDue(c)  == c \in AckTimeouts /\ cpc[c] = "wait" /\ gap[c] = AckLen
WakeDue(c) == Keepalive /\ spc[c] = "await" /\ ack_rx[c] = <<>> /\ sleep[c] = Interval

TimesOut(c) == /\ Len(outcome'[c]) > Len(outcome[c])
               /\ outcome'[c][Len(outcome'[c])].err = "AckTimeout"
Wakes(c)    == spc[c] = "await" /\ spc'[c] = "keepalive"

(* Mutant of Restarts: one ack_timeout for the whole wait.                 *)
RestartsPerSend(c) == cpc'[c] # cpc[c]

(* The ack loop wraps every next() anew: any Ack restarts the timeout.     *)
Restarts(c) == cpc'[c] # cpc[c] \/ (cpc[c] = "wait" /\ Len(s2c'[c]) < Len(s2c[c]))

Step ==
    /\ Next
    /\ \A c \in Conns : /\ TimesOut(c) => AckDue(c) /\ ~Ready
                        /\ Wakes(c) => WakeDue(c)
    /\ gap' = [c \in Conns |-> IF Restarts(c) THEN 0 ELSE gap[c]]
    /\ sleep' = [c \in Conns |-> IF spc'[c] # spc[c] THEN 0 ELSE sleep[c]]
    /\ since' = [c \in Conns |-> IF Awaiting(c)' THEN since[c] ELSE 0]

Tick ==
    /\ ~Ready
    /\ \A c \in Conns : ~AckDue(c) /\ ~WakeDue(c)
    /\ gap' = [c \in Conns |-> IF c \in AckTimeouts /\ cpc[c] = "wait" THEN gap[c] + 1 ELSE gap[c]]
    /\ sleep' = [c \in Conns |-> IF Keepalive /\ spc[c] = "await" THEN sleep[c] + 1 ELSE sleep[c]]
    /\ since' = [c \in Conns |->
                    IF Awaiting(c) /\ since[c] <= Interval THEN since[c] + 1 ELSE since[c]]
    /\ UNCHANGED vars

TimedSpec == TimedInit /\ [][Step \/ Tick]_timedVars

-----------------------------------------------------------------------------
(* With a keepalive interval below the ack_timeout, a send whose batch has *)
(* been in the channel or with the application for more than an interval   *)
(* never times out, however long it stays there.  (Only one that spent the *)
(* time before waiting for room in the channel, where the handler sends no *)
(* keepalive, does.)                                                       *)
KeepaliveProtects ==
    [][\A c \in Conns : TimesOut(c) => since[c] <= Interval]_timedVars
=============================================================================
