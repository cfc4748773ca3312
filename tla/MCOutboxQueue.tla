---------------------------- MODULE MCOutboxQueue ----------------------------
(* Two processes with one lane each, which poll for the same job type.      *)
EXTENDS OutboxQueue, TLC

CONSTANTS j1, j2, p1, p2, w1, w2, id1, id2

MCJobs == {j1, j2}
MCProcesses == {p1, p2}
MCLanes == {w1, w2}
MCIds == {id1, id2}
MCProcessOf == (w1 :> p1) @@ (w2 :> p2)
MCLaneJobs == [w \in MCLanes |-> MCJobs]
MCOneAggregate == [j \in MCJobs |-> "thread"]
MCOwnIds == (p1 :> id1) @@ (p2 :> id2)
=============================================================================
