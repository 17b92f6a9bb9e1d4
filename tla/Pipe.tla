-------------------------------- MODULE Pipe --------------------------------
(***************************************************************************)
(* What one server's PeerImpl does for the messages to another, seen from  *)
(* its two ends: a sequence of streams, one for each TCP connection, the   *)
(* last of which takes what is sent.  A stream keeps its order and has no  *)
(* gaps, may lose all that follows some message, and is read independently *)
(* of the others.  Module Transport shows that sessions, buffers and       *)
(* writes amount to this.                                                  *)
(***************************************************************************)
EXTENDS Naturals, Sequences, SequencesExt

EmptyPipe == << <<>> >>

(* A stream that has nothing left and takes nothing more is forgotten.     *)
Prune(p, k) == IF k < Len(p) /\ p[k] = <<>> THEN RemoveAt(p, k) ELSE p

Put(p, ms) == [p EXCEPT ![Len(p)] = @ \o ms]

(* The message that stream k delivers next, and the pipe without it.       *)
Next1(p, k) == Head(p[k])

Taken(p, k) == Prune([p EXCEPT ![k] = Tail(@)], k)

(* Stream k loses what follows its first n messages.                       *)
Cut(p, k, n) == Prune([p EXCEPT ![k] = SubSeq(@, 1, n)], k)

(* The same for the last stream, and a new connection takes its place.     *)
Reconnected(p, n) == Prune(Append([p EXCEPT ![Len(p)] = SubSeq(@, 1, n)], <<>>), Len(p))
=============================================================================
