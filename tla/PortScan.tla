------------------------------ MODULE PortScan ------------------------------
(***************************************************************************)
(* `connect_with_port_range` of src/src/client.rs: the scan for a local    *)
(* port in the configured range, from a random start and around its end.   *)
(***************************************************************************)
EXTENDS Naturals, Sequences, Functions

CONSTANT U16            \* how many values a u16 has (65536 in the code)

ASSUME PortAssumption == U16 \in Nat \ {0}

Ports == 0..(U16 - 1)

VARIABLES
    range,    \* [start, end]: local_port_range
    busy,     \* the ports that bind refuses
    taken,    \* the ports that bind accepts and connect reports in use
    target,   \* the address: "up", "down" (connect fails), "none" (the lookup
              \* gives no address), "unknown" (the lookup fails)
    sockets,  \* "enough", or "scarce": TcpSocket::new may fail
    offset,   \* the random start of the scan
    i,        \* the loop counter
    tried,    \* the ports tried, in order
    local,    \* the local port of the connected socket
    result    \* "scanning", or what connect returned

vars == <<range, busy, taken, target, sockets, offset, i, tried, local, result>>

(* (end - start) as u32 + 1: widened before the addition, so that the      *)
(* whole range of ports does not wrap to 0.                                *)
Count(r) == (r.end - r.start) + 1

Init ==
    /\ range \in [start : Ports, end : Ports]
    /\ busy \in SUBSET (Ports \ {0})
    /\ taken \in SUBSET (Ports \ (busy \cup {0}))
    /\ target \in {"up", "down", "none", "unknown"}
    /\ sockets \in {"enough", "scarce"}
    /\ offset = 0 /\ i = 0
    /\ tried = <<>>
    /\ local = 0
    /\ result = "start"

(* ClientBuilder::connect checks the range and looks up the address;       *)
(* gen_range picks the offset.                                             *)
Begin ==
    /\ result = "start"
    /\ \/ /\ range.start > range.end \/ target = "none"
          /\ result' = "InvalidConfig" /\ UNCHANGED offset
       \/ /\ range.start <= range.end /\ target = "unknown"
          /\ result' = "Io" /\ UNCHANGED offset
       \/ /\ range.start <= range.end /\ target \in {"up", "down"}
          /\ result' = "scanning"
          /\ offset' \in 0..(Count(range) - 1)
    /\ UNCHANGED <<range, busy, taken, target, sockets, i, tried, local>>

(* Mutants of PortAt: the counter is not used; the scan does not wrap.     *)
PortAtOffset(k)    == range.start + ((offset % Count(range)) % U16)
PortAtUnwrapped(k) == (range.start + offset + k) % U16

(* start + ((offset + i) % count) as u16                                   *)
PortAt(k) == range.start + (((offset + k) % Count(range)) % U16)

(* The local ports a socket bound to p may have: 0 lets the kernel choose. *)
BoundTo(p) == IF p = 0 THEN Ports \ (busy \cup {0}) ELSE {p} \ busy

(* bind fails, or connect does with AddrInUse or AddrNotAvailable: for     *)
(* port 0 if the kernel's choice is such a port.                           *)
Refused(p) == BoundTo(p) = {} \/ BoundTo(p) \cap taken # {}

Try ==
    LET p == PortAt(i) IN
    /\ result = "scanning"
    /\ i < Count(range)
    /\ tried' = Append(tried, p)
    /\ \/ sockets = "scarce" /\ result' = "Io" /\ UNCHANGED <<i, local>>
       \/ Refused(p) /\ i' = i + 1 /\ UNCHANGED <<local, result>>
       \/ \E q \in BoundTo(p) \ taken :
             /\ IF target = "up" THEN result' = "Ok" /\ local' = q
                                 ELSE result' = "Io" /\ UNCHANGED local
             /\ UNCHANGED i
    /\ UNCHANGED <<range, busy, taken, target, sockets, offset>>

Exhausted ==
    /\ result = "scanning"
    /\ i = Count(range)
    /\ result' = "NoLocalPortAvailable"
    /\ UNCHANGED <<range, busy, taken, target, sockets, offset, i, tried, local>>

Returned == result \notin {"start", "scanning"} /\ UNCHANGED vars

Next == Begin \/ Try \/ Exhausted \/ Returned

Spec == Init /\ [][Next]_vars

-----------------------------------------------------------------------------
(* The scan gives up only when every port of the range was refused, the   *)
(* whole range of ports included, and it has tried each exactly once; and  *)
(* it ends with an I/O error only for another reason than a port in use.   *)
GivesUpOnlyWhenExhausted ==
    /\ result = "NoLocalPortAvailable" =>
        /\ \A p \in range.start..range.end : Refused(p)
        /\ Range(tried) = range.start..range.end
        /\ Len(tried) = Count(range)
    /\ result = "Io" => target \in {"down", "unknown"} \/ sockets = "scarce"

(* A connection made under local_port_range leaves from a port in it.      *)
LocalPortInRange == result = "Ok" => local \in range.start..range.end

(* The same for the ranges that do not contain port 0.                     *)
LocalPortInPositiveRange == range.start > 0 => LocalPortInRange
=============================================================================
