------------------------------ MODULE AtLeastOnce ------------------------------
(***************************************************************************)
(* What the outbox promises to whoever enqueues a job, with no workers,    *)
(* locks or attempts in sight: a job that is done was handled at least     *)
(* once before, a job is given up only to be seen by an operator, who may  *)
(* open it again, and nothing else ever happens to it.                     *)
(***************************************************************************)
CONSTANT Jobs

VARIABLES state, handled

vars == <<state, handled>>

Init == state = [j \in Jobs |-> "absent"] /\ handled = {}

Submit(j) ==
  /\ state[j] = "absent"
  /\ state' = [state EXCEPT ![j] = "open"]
  /\ UNCHANGED handled

\* A handler run may cover several jobs, and jobs that were covered before.
Handle(S) ==
  /\ \A j \in S : state[j] # "absent"
  /\ handled' = handled \cup S
  /\ UNCHANGED state

Finish(j) ==
  /\ state[j] = "open"
  /\ j \in handled
  /\ state' = [state EXCEPT ![j] = "done"]
  /\ UNCHANGED handled

GiveUp(j) ==
  /\ state[j] = "open"
  /\ state' = [state EXCEPT ![j] = "parked"]
  /\ UNCHANGED handled

Reopen(j) ==
  /\ state[j] = "parked"
  /\ state' = [state EXCEPT ![j] = "open"]
  /\ UNCHANGED handled

Next ==
  \/ \E S \in SUBSET Jobs : Handle(S)
  \/ \E j \in Jobs : Submit(j) \/ Finish(j) \/ GiveUp(j) \/ Reopen(j)

Spec == Init /\ [][Next]_vars

=============================================================================
