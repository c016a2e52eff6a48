---------------------------- MODULE MCLumberjack ----------------------------
(* Instances of Lumberjack for TLC.  A batch is a sequence of payload      *)
(* sizes; 1 is within every limit.                                         *)
EXTENDS Lumberjack

CONSTANTS c1, c2

(* Uncompressed, with ServerMax = 1 and ClientMax = 2: a payload of size 2 *)
(* is refused by the server, one of size 3 by the client.  Of three events *)
(* one can be with the handler, one in a pipe of one frame and one in the  *)
(* write buffer.                                                           *)
PlainBatches == {<<>>, <<1>>, <<1, 1, 1>>, <<1, 2>>, <<1, 3>>}

(* Data that does not shrink grows a little under zlib.                    *)
MCDeflated(inner) == IF Len(inner) = 1 THEN InflatedLen(inner) + 2
                                       ELSE InflatedLen(inner) \div 2

(* Compressed, with ServerMax = 23: <<1, 1>> inflates to 22 bytes and      *)
(* <<2, 2>> to 24, <<12>> deflates to 24.                                  *)
PackedBatches == {<<1>>, <<12>>, <<1, 1>>, <<2, 2>>}

SmallBatches == {<<1>>, <<1, 1>>}
SingleBatch  == {<<1>>}
=============================================================================
