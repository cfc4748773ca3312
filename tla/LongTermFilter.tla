---------------------------- MODULE LongTermFilter ----------------------------
(***************************************************************************)
(* The long-term filter: a pass loads source events, asks a model which    *)
(* memory items they are worth, stores the items as candidates, approves   *)
(* the good ones and makes cards of the decisions among them.  Model and   *)
(* approvals are outside the transaction that stores the items, and users  *)
(* and purges write the same rows.                                         *)
(*                                                                         *)
(* The outbox runs a pass at least once for a job, now and then twice or   *)
(* side by side (OutboxQueue): here a pass may begin at any time.  With    *)
(* the Lite store a transaction is one step; with Postgres the lookups of  *)
(* the storing transaction are steps of their own.                         *)
(***************************************************************************)
EXTENDS Naturals

CONSTANTS
  Events,
  Items,       \* what the model may come up with, by title and source events
  Cites,       \* [Items -> SUBSET Events], its source_event_ids
  AutoItems,   \* those of a route and a score to be approved at once
  Decisions,   \* those of display type decision
  GraphItems,  \* those of route graph
  Passes,      \* handlers that run process_scope
  Jobs,        \* their jobs: trace ids, and so the keys of the approvals
  Stores,      \* the stores in question, of "lite" and "postgres"
  None

ASSUME FilterConstants ==
  /\ Cites \in [Items -> SUBSET Events]
  /\ AutoItems \subseteq Items /\ Decisions \subseteq Items /\ GraphItems \subseteq Items
  /\ Stores \subseteq {"lite", "postgres"}
  /\ None \notin Jobs

VARIABLES
  store,      \* the store in use
  status,     \* of an item; "withdrawn" stands for all but candidate and active
  queued,     \* items with a graph write job
  cards,      \* items with a decision card among the push candidates
  audit,      \* of the approval of an item under the key of a job
  phase,      \* of a pass
  trace,      \* its job
  input,      \* the events it has loaded, until the model has answered
  answer,     \* the items that the model has come up with
  seen,       \* Postgres: those it has looked up,
  fresh,      \* Postgres: and those of them it has not found
  todo,       \* items it will approve
  activated,  \* items it has approved
  raced,      \* history: items that two transactions looked up and did not find
  owed,       \* history: items that a pass has approved, unless that pass ended
              \* before it made the cards
  wasActive   \* history: items that have been active

rows   == <<status, queued, cards, audit>>
locals == <<phase, trace, input, answer, seen, fresh, todo, activated>>
ghosts == <<raced, owed, wasActive>>
vars   == <<store, rows, locals, ghosts>>

Nothing == [w \in Passes |-> {}]

Init ==
  /\ store \in Stores
  /\ status = [m \in Items |-> "none"]
  /\ queued = {} /\ cards = {}
  /\ audit  = [j \in Jobs |-> [m \in Items |-> "none"]]
  /\ phase  = [w \in Passes |-> "idle"]
  /\ trace  = [w \in Passes |-> None]
  /\ input = Nothing /\ answer = Nothing /\ seen = Nothing /\ fresh = Nothing
  /\ todo = Nothing /\ activated = Nothing
  /\ raced = {} /\ owed = {} /\ wasActive = {}

-----------------------------------------------------------------------------
(* Everybody else who writes the rows.                                     *)

\* A row that a pass has found is locked until its transaction ends.
LockedBy(w, m) == phase[w] = "save" /\ m \in seen[w] \ fresh[w]

FreeFor(w, m) == \A v \in Passes \ {w} : ~LockedBy(v, m)
Free(m)       == \A v \in Passes : ~LockedBy(v, m)

\* When the row of an item changes, its revision is not the one an approval left.
\* (That a row which was written over reaches that revision again is left out.)
Outdated(M) ==
  [j \in Jobs |-> [m \in Items |->
     IF m \in M /\ audit[j][m] = "succeeded" THEN "stale" ELSE audit[j][m]]]

\* A lifecycle transition or an edit by a user, or the restore of a version.
UserMove(m, new) ==
  /\ status[m] # "none" /\ Free(m)
  /\ status' = [status EXCEPT ![m] = new]
  /\ audit'  = Outdated({m})
  /\ wasActive' = IF new = "active" THEN wasActive \cup {m} ELSE wasActive
  /\ UNCHANGED <<store, queued, cards, locals, raced, owed>>

\* purge_source withdraws the items that cite the event.
Affected(e) == {m \in Items : e \in Cites[m] /\ status[m] # "none"}

PurgeSource(e) ==
  /\ \A m \in Affected(e) : Free(m)
  /\ status' = [m \in Items |-> IF m \in Affected(e) THEN "withdrawn" ELSE status[m]]
  /\ audit'  = Outdated(Affected(e))
  /\ UNCHANGED <<store, queued, cards, locals, ghosts>>

\* PushService.generate_decision_cards: for active decisions, up to a limit.
GenerateCards ==
  /\ \E some \in SUBSET {m \in Decisions : status[m] = "active"} : cards' = cards \cup some
  /\ UNCHANGED <<store, status, queued, audit, locals, ghosts>>

-----------------------------------------------------------------------------
(* process_scope.                                                          *)

\* The events are loaded, the purged ones with what is left of them.
Begin(w, j, S) ==
  /\ phase[w] = "idle" /\ S # {}
  /\ phase' = [phase EXCEPT ![w] = "filter"]
  /\ trace' = [trace EXCEPT ![w] = j]
  /\ input' = [input EXCEPT ![w] = S]
  /\ UNCHANGED <<store, rows, answer, seen, fresh, todo, activated, ghosts>>

\* An answer that cites other events is refused.
Valid(w, A) == \A m \in A : Cites[m] \subseteq input[w]

Answer(w, A) ==
  /\ phase[w] = "filter" /\ Valid(w, A)
  /\ answer' = [answer EXCEPT ![w] = A]
  /\ input'  = [input EXCEPT ![w] = {}]
  /\ phase'  = [phase EXCEPT ![w] = "save"]
  /\ UNCHANGED <<store, rows, trace, seen, fresh, todo, activated, ghosts>>

\* get_for_update: it waits for a row that is locked, and locks the row it finds.
LookUp(w, m) ==
  /\ store = "postgres" /\ phase[w] = "save"
  /\ m \in answer[w] \ seen[w] /\ FreeFor(w, m)
  /\ seen'  = [seen EXCEPT ![w] = @ \cup {m}]
  /\ fresh' = IF status[m] = "none" THEN [fresh EXCEPT ![w] = @ \cup {m}] ELSE fresh
  /\ raced' = IF \E v \in Passes \ {w} : m \in fresh[v] THEN raced \cup {m} ELSE raced
  /\ UNCHANGED <<store, rows, phase, trace, input, answer, todo, activated, owed, wasActive>>

\* Mutant: what the row is like is not looked at.
Written_All(w) == answer[w]

\* The items to write: those that were not there when they were looked up.
Written(w) == IF store = "lite" THEN {m \in answer[w] : status[m] = "none"} ELSE fresh[w]

\* The storing transaction; with Postgres, its end.  A write takes the place of a row
\* that has come between.
Save(w) ==
  LET saved == [m \in Items |-> IF m \in Written(w) THEN "candidate" ELSE status[m]]
  IN  /\ phase[w] = "save"
      /\ store = "postgres" => seen[w] = answer[w]
      /\ \A m \in Written(w) : FreeFor(w, m)
      /\ status' = saved
      /\ queued' = queued \cup (answer[w] \cap GraphItems)
      /\ audit'  = Outdated(Written(w))
      /\ todo'   = [todo EXCEPT ![w] = {m \in answer[w] \cap AutoItems : saved[m] = "candidate"}]
      /\ seen'   = [seen EXCEPT ![w] = {}]
      /\ fresh'  = [fresh EXCEPT ![w] = {}]
      /\ phase'  = [phase EXCEPT ![w] = "approve"]
      /\ UNCHANGED <<store, cards, trace, input, answer, activated, ghosts>>

\* Mutant: the item is approved again.
Done_Again(w, m) ==
  /\ activated' = [activated EXCEPT ![w] = @ \cup {m}]
  /\ UNCHANGED <<phase, trace, input, answer, seen, fresh, todo>>

Done(w, m) ==
  /\ activated' = [activated EXCEPT ![w] = @ \cup {m}]
  /\ todo' = [todo EXCEPT ![w] = @ \ {m}]
  /\ UNCHANGED <<phase, trace, input, answer, seen, fresh>>

\* One approval, a transition with a transaction of its own,
Approve(w, m) ==
  /\ phase[w] = "approve" /\ m \in todo[w] /\ Free(m)
  /\ audit[trace[w]][m] = "none" /\ status[m] = "candidate"
  /\ status' = [status EXCEPT ![m] = "active"]
  /\ audit'  = [Outdated({m}) EXCEPT ![trace[w]][m] = "succeeded"]
  /\ owed'      = owed \cup {m}
  /\ wasActive' = wasActive \cup {m}
  /\ Done(w, m)
  /\ UNCHANGED <<store, queued, cards, raced>>

\* which another pass of the job may have made already:
Repeat(w, m) ==
  /\ phase[w] = "approve" /\ m \in todo[w] /\ Free(m)
  /\ audit[trace[w]][m] = "succeeded"
  /\ Done(w, m)
  /\ UNCHANGED <<store, rows, ghosts>>

Leave(w) ==
  /\ phase'     = [phase EXCEPT ![w] = "idle"]
  /\ trace'     = [trace EXCEPT ![w] = None]
  /\ input'     = [input EXCEPT ![w] = {}]
  /\ answer'    = [answer EXCEPT ![w] = {}]
  /\ seen'      = [seen EXCEPT ![w] = {}]
  /\ fresh'     = [fresh EXCEPT ![w] = {}]
  /\ todo'      = [todo EXCEPT ![w] = {}]
  /\ activated' = [activated EXCEPT ![w] = {}]

\* otherwise it raises, and the pass ends there.
Refuse(w, m) ==
  /\ phase[w] = "approve" /\ m \in todo[w] /\ Free(m)
  /\ \/ audit[trace[w]][m] = "none" /\ status[m] # "candidate"
     \/ audit[trace[w]][m] \in {"failed", "stale"}
  /\ audit' = [audit EXCEPT ![trace[w]][m] = IF @ = "none" THEN "failed" ELSE @]
  /\ owed'  = owed \ activated[w]
  /\ Leave(w)
  /\ UNCHANGED <<store, status, queued, cards, raced, wasActive>>

\* Mutant: of the decisions that were stored, not of those that were approved.
Carded_Stored(w) == answer[w] \cap Decisions

Carded(w) == activated[w] \cap Decisions

\* The cards, in one transaction, and the end of the pass.
MakeCards(w) ==
  /\ phase[w] = "approve" /\ todo[w] = {}
  /\ cards' = cards \cup Carded(w)
  /\ Leave(w)
  /\ UNCHANGED <<store, status, queued, audit, ghosts>>

\* The model or a transaction fails, or the process crashes.
GiveUp(w) ==
  /\ phase[w] # "idle"
  /\ owed' = owed \ activated[w]
  /\ Leave(w)
  /\ UNCHANGED <<store, rows, raced, wasActive>>

PassStep(w) ==
  \/ \E j \in Jobs, S \in SUBSET Events : Begin(w, j, S)
  \/ \E A \in SUBSET Items : Answer(w, A)
  \/ \E m \in Items : LookUp(w, m) \/ Approve(w, m) \/ Repeat(w, m) \/ Refuse(w, m)
  \/ Save(w) \/ MakeCards(w) \/ GiveUp(w)

Next ==
  \/ \E m \in Items, new \in {"candidate", "active", "withdrawn"} : UserMove(m, new)
  \/ \E e \in Events : PurgeSource(e)
  \/ GenerateCards
  \/ \E w \in Passes : PassStep(w)

Spec == Init /\ [][Next]_vars

-----------------------------------------------------------------------------
(* Properties.                                                             *)

\* Type invariant.  A pass at work has a job; it approves an item once, and only after
\* the items are stored.
TypeOK ==
  /\ store \in Stores
  /\ status \in [Items -> {"none", "candidate", "active", "withdrawn"}]
  /\ queued \in SUBSET Items /\ cards \in SUBSET Items
  /\ audit \in [Jobs -> [Items -> {"none", "succeeded", "failed", "stale"}]]
  /\ phase \in [Passes -> {"idle", "filter", "save", "approve"}]
  /\ trace \in [Passes -> Jobs \cup {None}]
  /\ input \in [Passes -> SUBSET Events]
  /\ answer \in [Passes -> SUBSET Items]
  /\ seen \in [Passes -> SUBSET Items] /\ fresh \in [Passes -> SUBSET Items]
  /\ todo \in [Passes -> SUBSET AutoItems] /\ activated \in [Passes -> SUBSET Items]
  /\ raced \in SUBSET Items /\ owed \in SUBSET Items /\ wasActive \in SUBSET Items
  /\ \A w \in Passes : /\ phase[w] = "idle" <=> trace[w] = None
                       /\ todo[w] \cap activated[w] = {}
                       /\ phase[w] # "approve" => todo[w] \cup activated[w] = {}

\* The filter adds items and activates candidates, and does nothing else to them: what
\* a user or a purge has made of an item stays, whichever pass stored it, read it or
\* is about to approve it meanwhile, and a pass that is repeated takes nothing back.
\* Left out are items that two passes of the Postgres store looked up at the same time
\* and both did not find: the later one writes over what has become of the earlier's.
FilterOnlyAdds ==
  [][\A m \in Items : status[m] \in {"active", "withdrawn"} /\ status'[m] # status[m] =>
       \/ m \in raced
       \/ \E new \in {"candidate", "active", "withdrawn"} : UserMove(m, new)
       \/ \E e \in Events : PurgeSource(e)]_vars

\* A decision that a pass has approved has its card, or its pass is still at work, or
\* that pass did not come to its end (then only generate_decision_cards makes up for
\* it: a repeated pass finds the item active and leaves it alone).  And a card is of
\* an item that has been active.
CardsFollowApprovals ==
  \A m \in Items :
    /\ m \in owed \cap Decisions => m \in cards \/ \E w \in Passes : m \in activated[w]
    /\ m \in cards => m \in wasActive
===============================================================================
