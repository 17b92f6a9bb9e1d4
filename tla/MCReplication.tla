--------------------------- MODULE MCReplication ---------------------------
(* Instances of module Replication: the logs before the election.          *)
EXTENDS Replication

(* The leader holds an entry of term 1; the follower the same, nothing, or *)
(* entries that a leader of term 2 left with it alone.                     *)
OneEntry == <<1>>

PartedLogs == {<<>>, <<1>>, <<2, 2>>, <<1, 2, 2>>}

(* The first election: the follower lacks only what is lost on the way.    *)
NoEntry == <<>>

EmptyLogs == {<<>>}
=============================================================================
