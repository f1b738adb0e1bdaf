-------------------- MODULE MCPublishCycle --------------------
(***************************************************************************)
(* Instances of PublishCycle for TLC.                                      *)
(***************************************************************************)
EXTENDS PublishCycle, TLC

CONSTANTS p1, p2, v1, v2, c0, c1, c2, l0, l1

TwoTargets == v1 :> p1 @@ v2 :> p2
OneTarget  == [v \in Vote |-> p1]
SameLayout == [c \in Config |-> l0]
NewLayout  == [c \in Config |-> IF c = c0 THEN l0 ELSE l1]

\* All files in one bucket; one bucket for each post.
OneBucket  == [p \in Post |-> 1]
BucketEach == [p \in Post |-> p]
========================================
