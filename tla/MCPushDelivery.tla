---------------------------- MODULE MCPushDelivery ----------------------------
(* One candidate, which cites the event that also triggers it, two lanes, a *)
(* user and two keys.  Of the two platforms, one has a reference for the    *)
(* candidate.                                                               *)
EXTENDS PushDelivery, TLC

CONSTANTS c1, e1, w1, w2, u1, k1, k2, feishu, other

MCCandidates == {c1}
MCRank == [c \in Candidates |-> 1]
MCEvents == {e1}
MCCites == [c \in Candidates |-> {e1}]
MCAll == [e \in Events |-> Candidates]
MCLanes == {w1, w2}
MCUsers == {u1}
MCKeys == {k1, k2}
MCPlatforms == {feishu, other}
MCReachable == [p \in MCPlatforms |-> IF p = feishu THEN Candidates ELSE {}]
===============================================================================
