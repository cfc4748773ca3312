--------------------------- MODULE MCMemoryLifecycle ---------------------------
(* One item that stems from two source events. The items share no state but  *)
(* the purge, which treats each by itself.                                   *)
EXTENDS MemoryLifecycle, TLC

CONSTANTS m1, s1, s2, k1, k2, k3, decay, c1, c2

MCOneItem == {m1}
MCSources == {s1, s2}
MCSourcesOf == [m \in Items |-> {s1, s2}]
MCPrimaryOf == [m \in Items |-> s1]
MCOneKey == {k1}
MCThreeKeys == {k1, k2, k3}
MCClients == {c1, c2}
MCNobody == {}
MCAllKinds == {"transition", "edit", "restore"}
MCTransitions == {"transition"}
==============================================================================
