------------------------------- MODULE MCRaft -------------------------------
(***************************************************************************)
(* Three servers for TLC.  Each definition below is the value of one bound *)
(* of module Raft in one or more runs.                                     *)
(***************************************************************************)
EXTENDS Raft

CONSTANTS s1, s2, s3

(* Which server may stand for which term.                                  *)
RivalElections    == {<<s1, 2>>, <<s2, 2>>, <<s2, 3>>}
RepeatElections   == {<<s1, 2>>, <<s2, 2>>, <<s2, 3>>, <<s2, 4>>}
AlternateElections == {<<s1, 2>>, <<s2, 2>>, <<s2, 3>>, <<s1, 4>>, <<s2, 4>>, <<s2, 5>>}
TransferElections == {<<s1, 2>>, <<s2, 3>>, <<s3, 2>>}

(* Which links deliver: all of them; all but s1 to s2, so that s1 and s2   *)
(* lead in turns with the help of s3; or those between s1 and s2, a        *)
(* quorum, and the one from s3 to s1, so that s3 hears nobody.             *)
AllLinks  == Server \X Server
TurnLinks == {<<s1, s3>>, <<s3, s1>>, <<s2, s3>>, <<s3, s2>>, <<s2, s1>>}
DeafLinks == {<<s1, s2>>, <<s2, s1>>, <<s3, s1>>}

(* A link keeps the latest messages of each type, the answers to vote      *)
(* requests excepted.                                                      *)
KeepLatest == MsgTypes \ {"MsgVoteResp"}
=============================================================================
