---------------------------- MODULE MCMembership ---------------------------
(* Instances of module Membership.                                         *)
EXTENDS Membership

CONSTANTS s1, s2, s3

Change(o, s) == [op |-> o, id |-> s]

(* The first leader, s1, may end up alone; s3 may leave and come back as a *)
(* learner, then as a voter.                                               *)
ComeAndGo ==
    (3 :> {Change("remove", s2), Change("remove", s3)}) @@
    (4 :> {Change("remove", s3), Change("learner", s3)}) @@
    (5 :> {Change("add", s3)})

OneCampaign == {<<s3, 3>>}
=============================================================================
