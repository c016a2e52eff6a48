--------------------------- MODULE MCTimedClient ----------------------------
(* Instances of TimedClient. *)
EXTENDS TimedClient

CONSTANT c1

(* Data that does not shrink grows a little under zlib.                    *)
MCDeflated(inner) == IF Len(inner) = 1 THEN InflatedLen(inner) + 2
                                       ELSE InflatedLen(inner) \div 2

(* ClientMax is 2: the client refuses a payload of size 3.                 *)
MCBatches == {<<>>, <<1>>, <<1, 1>>, <<1, 3>>}
MCAnswers == {Ack(0), Ack(1), Ack(2), Window(1), Bad("InvalidFrame")}
=============================================================================
