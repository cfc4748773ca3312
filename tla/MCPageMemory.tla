----------------------------- MODULE MCPageMemory -----------------------------
(* Three source events, of which a rebuild looks at the last two, and two    *)
(* concurrent rebuilds.                                                      *)
EXTENDS PageMemory, TLC

CONSTANTS w1, w2

MCEvents == 1 .. 3
MCTwoEvents == 1 .. 2
MCWorkers == {w1, w2}
MCSymmetry == Permutations(MCWorkers)
===============================================================================
