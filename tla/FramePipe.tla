------------------------------ MODULE FramePipe ------------------------------
(***************************************************************************)
(* What Transport, Client and Connection take for granted of one direction *)
(* of a `Framed<S, LumberjackCodec>`: frames go in whole, and come out     *)
(* whole, in order, each once; a frame the reader's limits refuse comes    *)
(* out as an error and is the last; a writer that goes away leaves at most *)
(* one torn frame, which the reader finds as an I/O error before the end.  *)
(***************************************************************************)
EXTENDS Naturals, Sequences

CONSTANTS Frames,       \* the frames the writer may be given
          Decoded(_),   \* what the reader makes of a frame
          Torn          \* what it makes of a frame that is cut off

VARIABLES buf,    \* frames in the write buffer
          pipe,   \* frames on their way
          got,    \* the items the reader was given, oldest first
          wEnd,   \* is the writer "open" or "closed"
          rEnd    \* is the reader "reading", or has its stream "ended" or "failed"

vars == <<buf, pipe, got, wEnd, rEnd>>

Init == buf = <<>> /\ pipe = <<>> /\ got = <<>> /\ wEnd = "open" /\ rEnd = "reading"

Put(f) ==
    /\ wEnd = "open"
    /\ buf' = Append(buf, f)
    /\ UNCHANGED <<pipe, got, wEnd, rEnd>>

Move(n) ==
    /\ pipe' = pipe \o SubSeq(buf, 1, n)
    /\ buf' = SubSeq(buf, n + 1, Len(buf))
    /\ UNCHANGED <<got, wEnd, rEnd>>

Take ==
    /\ rEnd = "reading"
    /\ pipe # <<>>
    /\ got' = Append(got, Decoded(Head(pipe)))
    /\ IF Decoded(Head(pipe)).type = "X" THEN rEnd' = "failed" /\ pipe' = <<>>
                                         ELSE pipe' = Tail(pipe) /\ UNCHANGED rEnd
    /\ UNCHANGED <<buf, wEnd>>

Close ==
    /\ wEnd = "open"
    /\ wEnd' = "closed"
    /\ buf' = <<>>
    /\ \/ UNCHANGED pipe
       \/ buf # <<>> /\ pipe' = Append(pipe, Torn)
    /\ UNCHANGED <<got, rEnd>>

End ==
    /\ rEnd = "reading" /\ pipe = <<>> /\ wEnd = "closed"
    /\ rEnd' = "ended"
    /\ UNCHANGED <<buf, pipe, got, wEnd>>

Next ==
    \/ \E f \in Frames : Put(f)
    \/ \E n \in 1..Len(buf) : Move(n)
    \/ Take \/ Close \/ End

Spec == Init /\ [][Next]_vars
=============================================================================
