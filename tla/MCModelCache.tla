----------------------------- MODULE MCModelCache -----------------------------
(* Two events, a memory item that has the text of the first and was made   *)
(* from the second, and a prompt of both, the first of them redacted.      *)
EXTENDS ModelCache, TLC

CONSTANTS e1, e2, t1, t2, i1, i2, i3, c1, c2

MCEvents == {e1, e2}
MCTexts == {t1, t2}
MCInputs == {i1, i2, i3}
MCText == (i1 :> t1) @@ (i2 :> t1) @@ (i3 :> t2)
MCFrom == (i1 :> {e1}) @@ (i2 :> {e2}) @@ (i3 :> {e1, e2})
MCOutlives == (i1 :> {}) @@ (i2 :> {e2}) @@ (i3 :> {e1})
MCCalls == {c1, c2}
===============================================================================
