--------------------------- MODULE MCFramedStream ---------------------------
(* Instances of FramedStream for TLC.                                      *)
EXTENDS FramedStream

(* A stand-in for zlib that shrinks runs of one byte, lets other data grow *)
(* by a byte, brings a prefix of a truncated payload, and fails on corrupt *)
(* ones, before or after some output.                                      *)
MCZip(s) ==
    IF Len(s) > 2 /\ \A i \in DOMAIN s : s[i] = s[1] THEN <<120, Len(s), s[1]>>
    ELSE <<121>> \o s

MCUnzip(p) ==
    CASE Len(p) = 3 /\ p[1] = 120 -> [out |-> [i \in 1..p[2] |-> p[3]], ok |-> TRUE]
      [] p # <<>> /\ p[1] = 121   -> [out |-> Tail(p), ok |-> TRUE]
      [] p # <<>> /\ p[1] = 122   -> [out |-> Tail(p), ok |-> FALSE]
      [] OTHER                    -> [out |-> <<>>, ok |-> p = <<>>]

(* With a limit of 3: at the limit and above it, plain, deflated only and  *)
(* inflated only; numbers that use every byte but the sign; and what       *)
(* another implementation may write: a wrong version, an unknown type, a   *)
(* length beyond the limit with no payload behind it, a payload that does  *)
(* not inflate and one that inflates past the limit.                       *)
MCFrames ==
    {Window(2), Ack(65538), Json(16777217, <<7, 7, 7>>), Json(1, <<1, 2, 3, 4>>),
     Compressed(<<9, 9, 9>>), Compressed(<<1, 2, 3>>), Compressed(<<9, 9, 9, 9>>),
     Foreign(<<49, 87, 0, 0, 0, 1>>, "InvalidFrame"),
     Foreign(<<50, 88>>, "InvalidFrame"),
     Foreign(<<50, 74, 0, 0, 0, 1, 0, 1, 0, 0>>, "FrameTooLarge"),
     Foreign(<<50, 67, 0, 0, 0, 3, 122, 1, 2>>, "Compression"),
     Foreign(<<50, 67, 0, 0, 0, 3, 120, 9, 1>>, "FrameTooLarge")}
=============================================================================
