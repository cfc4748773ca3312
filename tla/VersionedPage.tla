----------------------------- MODULE VersionedPage -----------------------------
(***************************************************************************)
(* What a page promises its readers, with no workers, locks or windows in  *)
(* sight: it shows its last version; versions are added one after the      *)
(* other and never altered or taken away; a user's edit or restore brings  *)
(* back what some version held; the page once flagged for a rebuild stays  *)
(* so until one is published.                                              *)
(***************************************************************************)
EXTENDS Naturals

CONSTANT Contents

VARIABLES last, versions, shown, flagged

vars == <<last, versions, shown, flagged>>

Init == last = 0 /\ versions = [v \in {} |-> {}] /\ shown = {} /\ flagged = FALSE

Add(c) ==
  /\ last' = last + 1
  /\ versions' = [v \in 1 .. last + 1 |-> IF v = last + 1 THEN c ELSE versions[v]]
  /\ shown' = c

Publish(c) == Add(c) /\ flagged' = FALSE

Revise(v) == Add(versions[v]) /\ UNCHANGED flagged

Flag ==
  /\ last # 0
  /\ flagged' = TRUE
  /\ UNCHANGED <<last, versions, shown>>

Next ==
  \/ \E c \in Contents : Publish(c)
  \/ \E v \in 1 .. last : Revise(v)
  \/ Flag

Spec == Init /\ [][Next]_vars

================================================================================
