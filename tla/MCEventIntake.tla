----------------------------- MODULE MCEventIntake -----------------------------
(* Two events of one thread, and a third that repeats the key of the first, *)
(* without a thread.                                                         *)
EXTENDS EventIntake, TLC

CONSTANTS p1, p2, p3, k1, k2, t1, w1, w2

MCPayloads == {p1, p2, p3}
MCKey == (p1 :> k1) @@ (p2 :> k2) @@ (p3 :> k1)
MCThreads == {t1}
MCThread == (p1 :> t1) @@ (p2 :> t1) @@ (p3 :> None)
MCWorkers == {w1, w2}
MCQuestions == {{p1, p2}}
MCStores == {"lite", "postgres"}
===============================================================================
