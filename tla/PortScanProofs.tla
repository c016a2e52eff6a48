--------------------------- MODULE PortScanProofs ---------------------------
(***************************************************************************)
(* The scan of PortScan, for every number of ports: it gives up only when  *)
(* it has tried every port of the range once and none could be used.       *)
(***************************************************************************)
EXTENDS PortScan, SequenceTheorems, TLAPS

(* What the scan has established when its counter is i: the ports tried    *)
(* are the first i of the walk around the range, and none could be used.   *)
ScanTypes ==
    /\ range \in [start : Ports, end : Ports]
    /\ offset \in Nat /\ i \in Nat /\ local \in Ports
    /\ tried \in Seq(Nat)
    /\ result \in {"start", "scanning", "InvalidConfig", "Ok", "Io",
                   "NoLocalPortAvailable"}

Fresh == result = "start" => i = 0 /\ tried = <<>>

Walking ==
    result \in {"scanning", "NoLocalPortAvailable"} =>
        /\ range.start <= range.end
        /\ offset \in 0..(Count(range) - 1)
        /\ i \in 0..Count(range)
        /\ Len(tried) = i
        /\ \A k \in 1..i : tried[k] = PortAt(k - 1) /\ Refused(PortAt(k - 1))

GaveUp == result = "NoLocalPortAvailable" => i = Count(range)

(* Where a scan is under way the address was found, and what an I/O error  *)
(* can be.                                                                 *)
Caused ==
    /\ target \in {"up", "down", "none", "unknown"}
    /\ result \in {"scanning", "NoLocalPortAvailable"} => target \in {"up", "down"}
    /\ result = "Io" => target \in {"down", "unknown"} \/ sockets = "scarce"

ScanInv == /\ ScanTypes /\ Fresh /\ Walking /\ GaveUp /\ Caused
           /\ LocalPortInPositiveRange

-----------------------------------------------------------------------------
(* A number below the modulus is its own remainder.                        *)
LEMMA SmallRemainder ==
    ASSUME NEW m \in Nat, NEW x \in 0..(m - 1)
    PROVE  x % m = x
BY SMT

(* (offset + k) % count, for an offset and a step below count, is one      *)
(* subtraction at most.                                                    *)
LEMMA WrapAround ==
    ASSUME NEW n \in Nat, n > 0, NEW a \in 0..(n - 1), NEW b \in 0..(n - 1)
    PROVE  (a + b) % n = IF a + b < n THEN a + b ELSE (a + b) - n
<1>1. CASE a + b < n
  BY <1>1, SMT
<1>2. CASE a + b >= n
  <2>1. (a + b) - n \in 0..(n - 1)
    BY <1>2, SMT
  <2>2. ((a + b) - n) % n = (a + b) - n
    BY <2>1, SMT
  <2>3. (((a + b) - n) + n) % n = ((a + b) - n) % n
    BY <2>1, SMT
  <2> QED
    BY <1>2, <2>2, <2>3, SMT
<1> QED
  BY <1>1, <1>2, SMT

(* The cast of the remainder to u16 loses nothing: the port of step k is   *)
(* the start plus the wrapped sum, inside the range.                       *)
LEMMA PortOfStep ==
    ASSUME range \in [start : Ports, end : Ports], range.start <= range.end,
           offset \in 0..(Count(range) - 1),
           NEW k \in 0..(Count(range) - 1)
    PROVE  /\ PortAt(k) = range.start + (IF offset + k < Count(range)
                                         THEN offset + k
                                         ELSE (offset + k) - Count(range))
           /\ PortAt(k) \in range.start..range.end
           /\ PortAt(k) \in Nat
<1> DEFINE n == Count(range)
           w == IF offset + k < n THEN offset + k ELSE (offset + k) - n
<1>1. /\ range.start \in Nat /\ range.end \in Nat
      /\ range.start < U16 /\ range.end < U16 /\ U16 \in Nat
  BY PortAssumption DEF Ports
<1>2. n \in Nat /\ n > 0 /\ n <= U16 /\ range.end = range.start + n - 1
  BY <1>1 DEF Count
<1> HIDE DEF n
<1>3. offset \in 0..(n - 1) /\ k \in 0..(n - 1)
  BY DEF n
<1>4. (offset + k) % n = w
  BY <1>2, <1>3, WrapAround
<1>5. w \in 0..(n - 1)
  BY <1>2, <1>3
<1>6. w % U16 = w
  <2>1. w \in 0..(U16 - 1)
    BY <1>1, <1>2, <1>5
  <2> QED
    BY <1>1, <2>1, SmallRemainder
<1>7. PortAt(k) = range.start + w
  BY <1>4, <1>6 DEF PortAt, n
<1> HIDE DEF w
<1>8. PortAt(k) \in range.start..range.end /\ PortAt(k) \in Nat
  BY <1>1, <1>2, <1>5, <1>7
<1> QED
  BY <1>7, <1>8 DEF w, n

(* The walk reaches every port of the range within count steps.            *)
LEMMA EveryPortHasAStep ==
    ASSUME range \in [start : Ports, end : Ports], range.start <= range.end,
           offset \in 0..(Count(range) - 1),
           NEW p \in range.start..range.end
    PROVE  \E k \in 1..Count(range) : PortAt(k - 1) = p
<1> DEFINE n == Count(range)
           d == p - range.start
           j == IF d >= offset THEN d - offset ELSE (d - offset) + n
<1>1. range.start \in Nat /\ range.end \in Nat /\ p \in Nat
  BY PortAssumption DEF Ports
<1>2. n \in Nat /\ n > 0 /\ d \in 0..(n - 1) /\ offset \in 0..(n - 1)
  BY <1>1 DEF Count
<1> HIDE DEF n, d
<1>3. /\ j \in 0..(n - 1)
      /\ (IF offset + j < n THEN offset + j ELSE (offset + j) - n) = d
  BY <1>2, SMT
<1> HIDE DEF j
<1>4. PortAt(j) = range.start + d
  BY <1>3, PortOfStep DEF n
<1>5. PortAt(j) = p
  BY <1>1, <1>4 DEF d
<1>6. j + 1 \in 1..n /\ (j + 1) - 1 = j
  BY <1>2, <1>3
<1> QED
  BY <1>5, <1>6 DEF n

-----------------------------------------------------------------------------
(* The invariant holds when connect_with_port_range is called.             *)
LEMMA ScanStarts == Init => ScanInv
BY PortAssumption DEF Init, ScanInv, ScanTypes, Fresh, Walking, GaveUp, Caused, Ports,
   LocalPortInPositiveRange, LocalPortInRange

(* connect's check of the range and the choice of the offset.              *)
LEMMA BeginKeeps == ScanInv /\ Begin => ScanInv'
<1> SUFFICES ASSUME ScanInv, Begin PROVE ScanInv'
  OBVIOUS
<1>1. i = 0 /\ tried = <<>> /\ i' = i /\ tried' = tried /\ range' = range
  BY DEF ScanInv, Fresh, Begin
<1>2. range.start \in Nat /\ range.end \in Nat
  BY PortAssumption DEF ScanInv, ScanTypes, Ports
<1>3. CASE result' # "scanning"
  BY <1>1, <1>3 DEF ScanInv, ScanTypes, Fresh, Walking, GaveUp, Caused, Begin,
     LocalPortInPositiveRange, LocalPortInRange
<1>4. CASE result' = "scanning"
  <2>1. /\ result' = "scanning" /\ offset' \in 0..(Count(range) - 1)
        /\ range.start <= range.end /\ target \in {"up", "down"} /\ target' = target
    BY <1>4 DEF Begin
  <2>2. Count(range) \in Nat /\ Count(range) > 0
    BY <1>2, <2>1 DEF Count
  <2>3. ScanTypes'
    BY <2>1, <2>2, <1>1 DEF ScanInv, ScanTypes, Begin
  <2>4. Walking'
    BY <1>1, <1>2, <2>1, <2>2 DEF Walking, Count
  <2> QED
    BY <2>1, <2>3, <2>4 DEF ScanInv, Fresh, GaveUp, Caused,
       LocalPortInPositiveRange, LocalPortInRange
<1> QED
  BY <1>3, <1>4

(* One port is tried: it is refused and the counter moves on, or connect   *)
(* returns.                                                                *)
LEMMA TryKeeps == ScanInv /\ Try => ScanInv'
<1> SUFFICES ASSUME ScanInv, Try PROVE ScanInv'
  OBVIOUS
<1> DEFINE p == PortAt(i)
           n == Count(range)
<1>1. /\ range' = range /\ busy' = busy /\ taken' = taken /\ offset' = offset
      /\ tried' = Append(tried, p) /\ target' = target /\ sockets' = sockets
  BY DEF Try
<1>2. /\ range.start \in Nat /\ range.end \in Nat /\ range.start <= range.end
      /\ range \in [start : Ports, end : Ports]
      /\ offset \in 0..(n - 1) /\ i \in 0..n /\ Len(tried) = i
      /\ result = "scanning" /\ i < n
  BY PortAssumption DEF ScanInv, ScanTypes, Walking, Ports, Try
<1>3. n \in Nat /\ n > 0 /\ i \in Nat /\ i \in 0..(n - 1)
  BY <1>2 DEF Count
<1>4. p \in range.start..range.end /\ p \in Nat
  BY <1>2, <1>3, PortOfStep
<1>5. /\ tried \in Seq(Nat) /\ tried' \in Seq(Nat) /\ Len(tried') = i + 1
      /\ tried'[i + 1] = p
      /\ \A k \in 1..i : tried'[k] = tried[k]
  <2>1. tried \in Seq(Nat)
    BY DEF ScanInv, ScanTypes
  <2> QED
    BY <1>1, <1>2, <1>4, <2>1, AppendProperties
<1>6. CASE Refused(p) /\ i' = i + 1 /\ UNCHANGED <<local, result>>
  <2>1. ScanTypes'
    BY <1>1, <1>3, <1>5, <1>6 DEF ScanInv, ScanTypes
  <2>2. ASSUME NEW k \in 1..(i + 1)
        PROVE  tried'[k] = PortAt(k - 1) /\ Refused(PortAt(k - 1))
    <3>1. CASE k = i + 1
      <4>1. k - 1 = i
        BY <3>1, <1>3
      <4> QED
        BY <3>1, <4>1, <1>5, <1>6
    <3>2. CASE k # i + 1
      <4>1. k \in 1..i
        BY <3>2, <1>3
      <4> QED
        BY <4>1, <1>2, <1>5 DEF ScanInv, Walking
    <3> QED
      BY <3>1, <3>2
  <2>3. Walking'
    <3>1. Count(range)' = n
      BY <1>1 DEF Count
    <3>2. i' \in 0..n
      BY <1>3, <1>6
    <3>3. \A k \in 1..i' : tried'[k] = PortAt(k - 1)' /\ Refused(PortAt(k - 1))'
      <4> TAKE k \in 1..i'
      <4>1. tried'[k] = PortAt(k - 1) /\ Refused(PortAt(k - 1))
        BY <2>2, <1>6
      <4>2. PortAt(k - 1)' = PortAt(k - 1)
        BY <1>1 DEF PortAt, Count
      <4>3. Refused(PortAt(k - 1))' = Refused(PortAt(k - 1))
        BY <1>1 DEF Refused, BoundTo, PortAt, Count
      <4> QED
        BY <4>1, <4>2, <4>3
    <3> QED
      BY <1>1, <1>2, <1>5, <1>6, <3>1, <3>2, <3>3 DEF Walking
  <2> QED
    BY <1>1, <1>2, <1>6, <2>1, <2>3 DEF ScanInv, Fresh, GaveUp, Caused,
       LocalPortInPositiveRange, LocalPortInRange
<1>7. CASE /\ \E q \in BoundTo(p) \ taken :
                IF target = "up" THEN result' = "Ok" /\ local' = q
                                 ELSE result' = "Io" /\ UNCHANGED local
           /\ UNCHANGED i
  <2>1. BoundTo(p) \subseteq Ports
    BY <1>2, <1>4, PortAssumption DEF BoundTo, Ports
  <2>2. ScanTypes'
    BY <1>1, <1>5, <1>7, <2>1 DEF ScanInv, ScanTypes
  <2>3. LocalPortInPositiveRange'
    BY <1>1, <1>2, <1>4, <1>7
    DEF LocalPortInPositiveRange, LocalPortInRange, BoundTo
  <2>4. result' \notin {"start", "scanning", "NoLocalPortAvailable"} /\ Caused'
    BY <1>1, <1>2, <1>7 DEF ScanInv, Caused
  <2> QED
    BY <2>2, <2>3, <2>4 DEF ScanInv, Fresh, Walking, GaveUp
<1>8. CASE sockets = "scarce" /\ result' = "Io" /\ UNCHANGED <<i, local>>
  BY <1>1, <1>5, <1>8 DEF ScanInv, ScanTypes, Fresh, Walking, GaveUp, Caused,
     LocalPortInPositiveRange, LocalPortInRange
<1> QED
  BY <1>6, <1>7, <1>8 DEF Try

(* The loop ends.                                                          *)
LEMMA ExhaustedKeeps == ScanInv /\ Exhausted => ScanInv'
BY DEF ScanInv, ScanTypes, Fresh, Walking, GaveUp, Caused, Exhausted, Count, PortAt,
   Refused, BoundTo, LocalPortInPositiveRange, LocalPortInRange

(* The invariant is inductive.                                             *)
LEMMA ScanInvHolds == Spec => []ScanInv
<1>1. ASSUME ScanInv, UNCHANGED vars PROVE ScanInv'
  BY <1>1 DEF ScanInv, ScanTypes, Fresh, Walking, GaveUp, Caused, vars, Count, PortAt,
     Refused, BoundTo, LocalPortInPositiveRange, LocalPortInRange
<1>2. ScanInv /\ [Next]_vars => ScanInv'
  BY <1>1, BeginKeeps, TryKeeps, ExhaustedKeeps DEF Next, Returned
<1> QED
  BY <1>2, ScanStarts, PTL DEF Spec

-----------------------------------------------------------------------------
(* For every number of ports, every range, every offset and every set of   *)
(* occupied ports: connect returns NoLocalPortAvailable only after trying  *)
(* each port of the range exactly once, all of them refused, and an I/O    *)
(* error only when the address or a socket is the cause.  The walk         *)
(* `start + ((offset + i) % count)` is onto the range, and neither the u32 *)
(* count nor the cast back to u16 wraps, up to the whole range of ports.   *)
THEOREM ScanIsExhaustive == Spec => []GivesUpOnlyWhenExhausted
<1>1. ASSUME ScanInv, result = "NoLocalPortAvailable"
      PROVE  /\ \A p \in range.start..range.end : Refused(p)
             /\ Range(tried) = range.start..range.end
             /\ Len(tried) = Count(range)
  <2> DEFINE n == Count(range)
  <2>1. /\ range \in [start : Ports, end : Ports] /\ range.start <= range.end
        /\ offset \in 0..(n - 1) /\ i = n /\ Len(tried) = n
        /\ \A k \in 1..n : tried[k] = PortAt(k - 1) /\ Refused(PortAt(k - 1))
        /\ tried \in Seq(Nat)
    BY <1>1 DEF ScanInv, ScanTypes, Walking, GaveUp
  <2>2. n \in Nat
    BY <2>1, PortAssumption DEF Count, Ports
  <2>3. DOMAIN tried = 1..n
    BY <2>1
  <2>4. ASSUME NEW p \in range.start..range.end
        PROVE  \E k \in 1..n : tried[k] = p /\ Refused(p)
    BY <2>1, EveryPortHasAStep
  <2>5. ASSUME NEW k \in 1..n PROVE tried[k] \in range.start..range.end
    <3>1. k - 1 \in 0..(n - 1)
      BY <2>2
    <3> QED
      BY <2>1, <3>1, PortOfStep
  <2>6. Range(tried) = range.start..range.end
    BY <2>3, <2>4, <2>5 DEF Range
  <2> QED
    BY <2>1, <2>4, <2>6
<1>2. ScanInv => GivesUpOnlyWhenExhausted
  BY <1>1 DEF GivesUpOnlyWhenExhausted, ScanInv, Caused
<1> QED
  BY <1>2, ScanInvHolds, PTL

(* A connection made under a local_port_range that does not contain port 0 *)
(* leaves from a port of that range.                                       *)
THEOREM LocalPortIsInRange == Spec => []LocalPortInPositiveRange
BY ScanInvHolds, PTL DEF ScanInv
=============================================================================
