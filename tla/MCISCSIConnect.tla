---------------------------- MODULE MCISCSIConnect ----------------------------
(* Two connects of the same two targets, in the same order and in the other. *)
EXTENDS ISCSIConnect, TLC

CONSTANTS c1, c2, t1, t2

TwoCalls == {c1, c2}
TwoTargets == {t1, t2}
SameOrOtherOrder == {c1 :> <<t1, t2>> @@ c2 :> x : x \in {<<t1, t2>>, <<t2, t1>>}}
MultipathOnly == {{"multipath"}}
===============================================================================
