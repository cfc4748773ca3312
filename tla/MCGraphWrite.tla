----------------------------- MODULE MCGraphWrite -----------------------------
(* Two jobs of one project and two workers.                                  *)
EXTENDS GraphWrite, TLC

CONSTANTS j1, j2, w1, w2, i1

MCJobs == {j1, j2}
MCOneKey == [j \in MCJobs |-> 0]
MCMaxAttempts == [j \in MCJobs |-> IF j = j1 THEN 2 ELSE 1]
MCWorkers == {w1, w2}
MCItems == {i1}
===============================================================================
