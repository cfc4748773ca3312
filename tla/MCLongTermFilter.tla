--------------------------- MODULE MCLongTermFilter ---------------------------
(* Two events, a decision of the first and an item of both, and two passes *)
(* for one job.                                                             *)
EXTENDS LongTermFilter, TLC

CONSTANTS e1, e2, m1, m2, w1, w2, j1

MCEvents == {e1, e2}
MCItems == {m1, m2}
MCCites == (m1 :> {e1}) @@ (m2 :> {e1, e2})
MCAutoItems == {m1, m2}
MCDecisions == {m1}
MCGraphItems == {m1}
MCPasses == {w1, w2}
MCJobs == {j1}
MCStores == {"lite", "postgres"}
MCSymmetry == Permutations(MCPasses)
===============================================================================
