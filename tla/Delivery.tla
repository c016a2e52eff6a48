------------------------------ MODULE Delivery ------------------------------
(***************************************************************************)
(* What the crate promises an application that gives up a Client after an  *)
(* error, with everything in between left out: a batch that is submitted   *)
(* reaches the server's application side at most once, whole and in order; *)
(* it is released there (acked or dropped) before `send` may say Ok; and   *)
(* `send` may fail at any time, whatever became of the batch.              *)
(***************************************************************************)
EXTENDS Naturals, Sequences, Functions

CONSTANTS Conns, Batches, Errs

VARIABLES
    submitted,   \* submitted[c]: the batches given to send, oldest first
    reported,    \* reported[c]: what those calls returned, as far as they did
    delivered,   \* delivered[c]: the batches the server handed over
    released     \* released[c]: how many of these were acked or dropped

vars == <<submitted, reported, delivered, released>>

Init ==
    /\ submitted = [c \in Conns |-> <<>>]
    /\ reported = [c \in Conns |-> <<>>]
    /\ delivered = [c \in Conns |-> <<>>]
    /\ released = [c \in Conns |-> 0]

Current(c) == submitted[c][Len(submitted[c])]

Success(n) == [ok |-> TRUE, n |-> n, err |-> "none"]
Failures   == {[ok |-> FALSE, n |-> 0, err |-> e] : e \in Errs}

(* One call at a time; it may return at once, with Ok only for no events.  *)
Submit(c, b) ==
    /\ Len(reported[c]) = Len(submitted[c])
    /\ submitted' = [submitted EXCEPT ![c] = Append(@, b)]
    /\ \/ UNCHANGED reported
       \/ \E r \in Failures \cup (IF b = <<>> THEN {Success(0)} ELSE {}) :
             reported' = [reported EXCEPT ![c] = Append(@, r)]
    /\ UNCHANGED <<delivered, released>>

(* Possibly after the call has failed.                                     *)
Deliver(c) ==
    /\ submitted[c] # <<>> /\ Current(c) # <<>>
    /\ Current(c) \notin Range(delivered[c])
    /\ released[c] = Len(delivered[c])
    /\ delivered' = [delivered EXCEPT ![c] = Append(@, Current(c))]
    /\ UNCHANGED <<submitted, reported, released>>

Release(c) ==
    /\ released[c] < Len(delivered[c])
    /\ released' = [released EXCEPT ![c] = @ + 1]
    /\ UNCHANGED <<submitted, reported, delivered>>

Succeed(c) ==
    /\ Len(reported[c]) < Len(submitted[c])
    /\ Current(c) \in Range(delivered[c]) /\ released[c] = Len(delivered[c])
    /\ reported' = [reported EXCEPT ![c] = Append(@, Success(Len(Current(c))))]
    /\ UNCHANGED <<submitted, delivered, released>>

Fail(c) ==
    /\ Len(reported[c]) < Len(submitted[c])
    /\ \E r \in Failures : reported' = [reported EXCEPT ![c] = Append(@, r)]
    /\ UNCHANGED <<submitted, delivered, released>>

Next ==
    \E c \in Conns :
        \/ \E b \in Batches : Submit(c, b)
        \/ Deliver(c) \/ Release(c) \/ Succeed(c) \/ Fail(c)

Spec == Init /\ [][Next]_vars
=============================================================================
