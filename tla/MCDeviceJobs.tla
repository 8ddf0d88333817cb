---------------------------- MODULE MCDeviceJobs ----------------------------
(* One job on two replicas of one slot each (Redis) or on one replica of   *)
(* two slots (in-memory).  Of the texts moderation passes one and refuses  *)
(* the other; over Redis the first is enough, as moderation may fail too.  *)
EXTENDS DeviceJobs, TLC

CONSTANTS o1, j1, good, bad, k1, p1, p2, r1, r2, w1, w2

MCTexts == {good, bad}
MCSafe == {good}
TwoReplicas == w1 :> p1 @@ w2 :> p2
NoCrash == [p \in Replicas |-> 0]
OneCrash == [p \in Replicas |-> IF p = p1 THEN 1 ELSE 0]
OneReplica == w1 :> p1 @@ w2 :> p1
=============================================================================
