----------------------------- MODULE KeyedRequest -----------------------------
(***************************************************************************)
(* What an idempotency key promises whoever sends a request under it, as   *)
(* often as they like: the request is granted or refused once and for all. *)
(* Granted, it takes effect once, in the step that records the answer;     *)
(* refused, it never does; and the recorded answer is not altered.         *)
(***************************************************************************)
EXTENDS Naturals

CONSTANTS Grants, Refusals, None

VARIABLES answer, effects

vars == <<answer, effects>>

Init == answer = None /\ effects = 0

Grant ==
  /\ answer = None
  /\ answer' \in Grants
  /\ effects' = effects + 1

Refuse ==
  /\ answer = None
  /\ answer' \in Refusals
  /\ UNCHANGED effects

Next == Grant \/ Refuse

Spec == Init /\ [][Next]_vars

===============================================================================
