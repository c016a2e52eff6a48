----------------------------- MODULE MCAnyPeer ------------------------------
(* Instances of AnyPeer.  ServerMax is 25: the payload Big and the         *)
(* compressed frame Heavy exceed it.                                       *)
EXTENDS AnyPeer

CONSTANT p1

Payload(i) == [send |-> 1, pos |-> i, size |-> 1]
Big        == [send |-> 1, pos |-> 9, size |-> 26]

(* Data that does not shrink grows a little under zlib.                    *)
MCDeflated(inner) == IF Len(inner) = 1 THEN InflatedLen(inner) + 2
                                       ELSE InflatedLen(inner) \div 2

MCFrames ==
    {Window(0), Window(1), Window(2), Ack(1), Bad("InvalidFrame"),
     Json(0, Payload(0)), Json(1, Payload(1)), Json(3, Payload(3)), Json(1, Big),
     Compressed(<<>>),
     Compressed(<<Json(1, Payload(4)), Json(2, Payload(5))>>),
     Compressed(<<Json(2, Payload(6)), Json(2, Payload(7))>>),
     Compressed(<<Json(2, Payload(8)), Bad("InvalidFrame")>>),
     Compressed(<<Json(2, Payload(9)), Window(1)>>),
     Compressed(<<Json(1, Payload(4)), Json(2, Payload(5)), Json(3, Payload(6))>>)}
=============================================================================
