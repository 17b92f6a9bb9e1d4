------------------------------ MODULE Channel ------------------------------
(***************************************************************************)
(* The promise of the transport for one direction between two servers:     *)
(* every message arrives at most once, those of one connection in order    *)
(* and without gaps, and nothing arrives that was not sent.  Messages are  *)
(* numbered in the order they are sent.                                    *)
(***************************************************************************)
EXTENDS Pipe

VARIABLES
    pipe,   \* what is under way
    sent,   \* messages sent so far
    got     \* the messages received, in the order of their receipt

chan == <<pipe, sent, got>>

Init == pipe = EmptyPipe /\ sent = 0 /\ got = <<>>

(* A message sent when the connection is already lost is lost as well.     *)
SendOne ==
    /\ sent' = sent + 1
    /\ \/ pipe' = Put(pipe, <<sent + 1>>)
       \/ pipe[Len(pipe)] = <<>> /\ pipe' = pipe
    /\ UNCHANGED got

Deliver ==
    \E k \in DOMAIN pipe :
        /\ pipe[k] # <<>>
        /\ got' = Append(got, Next1(pipe, k))
        /\ pipe' = Taken(pipe, k)
        /\ UNCHANGED sent

(* A stream, or all of them with the receiver's process, loses its end.    *)
Lose ==
    /\ \E k \in DOMAIN pipe : \E n \in 0..Len(pipe[k]) :
          \/ pipe' = Cut(pipe, k, n)
          \/ k = Len(pipe) /\ pipe' \in {Reconnected(pipe, n), <<SubSeq(pipe[k], 1, n)>>}
    /\ UNCHANGED <<sent, got>>

Next == SendOne \/ Deliver \/ Lose

Spec == Init /\ [][Next]_chan
=============================================================================
