-------------------------- MODULE MCTimedKeepalive --------------------------
(* Instances of TimedKeepalive. *)
EXTENDS TimedKeepalive

CONSTANTS c1, c2

(* Data that does not shrink grows a little under zlib.                    *)
MCDeflated(inner) == IF Len(inner) = 1 THEN InflatedLen(inner) + 2
                                       ELSE InflatedLen(inner) \div 2

PairBatch == {<<1, 1>>}
=============================================================================
