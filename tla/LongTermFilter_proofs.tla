------------------------- MODULE LongTermFilter_proofs -------------------------
(***************************************************************************)
(* Proofs about LongTermFilter.                                            *)
(***************************************************************************)
EXTENDS LongTermFilter, TLAPS

\* One disjunct for each action.
Step ==
  \/ \E m \in Items, new \in {"candidate", "active", "withdrawn"} : UserMove(m, new)
  \/ \E e \in Events : PurgeSource(e)
  \/ GenerateCards
  \/ \E w \in Passes, j \in Jobs, S \in SUBSET Events : Begin(w, j, S)
  \/ \E w \in Passes, M \in SUBSET Items : Answer(w, M)
  \/ \E w \in Passes, m \in Items : LookUp(w, m)
  \/ \E w \in Passes, m \in Items : Approve(w, m)
  \/ \E w \in Passes, m \in Items : Repeat(w, m)
  \/ \E w \in Passes, m \in Items : Refuse(w, m)
  \/ \E w \in Passes : Save(w)
  \/ \E w \in Passes : MakeCards(w)
  \/ \E w \in Passes : GiveUp(w)

LEMMA NextIsStep == Next => Step
BY DEF Next, PassStep, Step

-----------------------------------------------------------------------------
(* Types.                                                                  *)

RowsType ==
  /\ store \in Stores
  /\ status \in [Items -> {"none", "candidate", "active", "withdrawn"}]
  /\ queued \in SUBSET Items /\ cards \in SUBSET Items
  /\ audit \in [Jobs -> [Items -> {"none", "succeeded", "failed", "stale"}]]

GhostsType == raced \in SUBSET Items /\ owed \in SUBSET Items /\ wasActive \in SUBSET Items

LocalsType ==
  /\ phase \in [Passes -> {"idle", "filter", "save", "approve"}]
  /\ trace \in [Passes -> Jobs \cup {None}]
  /\ input \in [Passes -> SUBSET Events]
  /\ answer \in [Passes -> SUBSET Items]
  /\ seen \in [Passes -> SUBSET Items] /\ fresh \in [Passes -> SUBSET Items]
  /\ todo \in [Passes -> SUBSET AutoItems] /\ activated \in [Passes -> SUBSET Items]

WorkOK ==
  \A w \in Passes : /\ phase[w] = "idle" <=> trace[w] = None
                    /\ todo[w] \cap activated[w] = {}
                    /\ phase[w] # "approve" => todo[w] \cup activated[w] = {}

LEMMA TypeParts == TypeOK <=> RowsType /\ GhostsType /\ LocalsType /\ WorkOK
BY DEF TypeOK, RowsType, GhostsType, LocalsType, WorkOK

LEMMA TypeInit == Init => TypeOK
BY FilterConstants DEF Init, TypeOK, Nothing

\* A pass that approves has a job.
LEMMA AtWork ==
  ASSUME TypeOK, NEW w \in Passes, phase[w] # "idle"
  PROVE  trace[w] \in Jobs
BY DEF TypeOK

LEMMA OutdatedType ==
  ASSUME TypeOK, NEW M
  PROVE  Outdated(M) \in [Jobs -> [Items -> {"none", "succeeded", "failed", "stale"}]]
BY DEF TypeOK, Outdated

LEMMA WrittenType ==
  ASSUME TypeOK, NEW w \in Passes
  PROVE  Written(w) \in SUBSET Items
BY DEF TypeOK, Written

LEMMA RowsTypeStep ==
  ASSUME TypeOK, [Next]_vars
  PROVE  RowsType'
<1>1. ASSUME NEW m \in Items, NEW new \in {"candidate", "active", "withdrawn"}, UserMove(m, new) PROVE RowsType'
  BY <1>1, OutdatedType DEF UserMove, rows, locals, ghosts, RowsType, TypeOK
<1>2. ASSUME NEW e \in Events, PurgeSource(e) PROVE RowsType'
  BY <1>2, OutdatedType DEF PurgeSource, rows, locals, ghosts, RowsType, TypeOK
<1>3. ASSUME GenerateCards PROVE RowsType'
  BY <1>3, FilterConstants DEF GenerateCards, rows, locals, ghosts, RowsType, TypeOK
<1>4. ASSUME NEW w \in Passes, NEW j \in Jobs, NEW S \in SUBSET Events, Begin(w, j, S) PROVE RowsType'
  BY <1>4 DEF Begin, rows, locals, ghosts, RowsType, TypeOK
<1>5. ASSUME NEW w \in Passes, NEW M \in SUBSET Items, Answer(w, M) PROVE RowsType'
  BY <1>5 DEF Answer, rows, locals, ghosts, RowsType, TypeOK
<1>6. ASSUME NEW w \in Passes, NEW m \in Items, LookUp(w, m) PROVE RowsType'
  BY <1>6 DEF LookUp, rows, locals, ghosts, RowsType, TypeOK
<1>7. ASSUME NEW w \in Passes, Save(w) PROVE RowsType'
  <2>1. status' = [m \in Items |-> IF m \in Written(w) THEN "candidate" ELSE status[m]]
    BY <1>7 DEF Save
  <2> QED
    BY <1>7, <2>1, OutdatedType, FilterConstants DEF Save, RowsType, TypeOK
<1>8. ASSUME NEW w \in Passes, NEW m \in Items, Approve(w, m) PROVE RowsType'
  <2>1. trace[w] \in Jobs
    BY <1>8, AtWork DEF Approve
  <2>2. audit' = [Outdated({m}) EXCEPT ![trace[w]][m] = "succeeded"]
    BY <1>8 DEF Approve
  <2>3. audit' \in [Jobs -> [Items -> {"none", "succeeded", "failed", "stale"}]]
    BY <2>1, <2>2, OutdatedType
  <2> QED
    BY <1>8, <2>3 DEF Approve, RowsType, TypeOK
<1>9. ASSUME NEW w \in Passes, NEW m \in Items, Repeat(w, m) PROVE RowsType'
  BY <1>9 DEF Repeat, rows, locals, ghosts, RowsType, TypeOK, Done
<1>10. ASSUME NEW w \in Passes, NEW m \in Items, Refuse(w, m) PROVE RowsType'
  <2>1. trace[w] \in Jobs
    BY <1>10, AtWork DEF Refuse
  <2> QED
    BY <1>10, <2>1 DEF Refuse, RowsType, TypeOK
<1>11. ASSUME NEW w \in Passes, MakeCards(w) PROVE RowsType'
  BY <1>11 DEF MakeCards, rows, locals, ghosts, RowsType, TypeOK, Leave, Carded
<1>12. ASSUME NEW w \in Passes, GiveUp(w) PROVE RowsType'
  BY <1>12 DEF GiveUp, rows, locals, ghosts, RowsType, TypeOK, Leave
<1>13. ASSUME UNCHANGED vars PROVE RowsType'
  BY <1>13 DEF vars, rows, locals, ghosts, RowsType, TypeOK
<1> QED
  BY NextIsStep, <1>1, <1>2, <1>3, <1>4, <1>5, <1>6, <1>7, <1>8, <1>9, <1>10, <1>11, <1>12, <1>13 DEF Step

LEMMA GhostsTypeStep ==
  ASSUME TypeOK, [Next]_vars
  PROVE  GhostsType'
<1>1. ASSUME NEW m \in Items, NEW new \in {"candidate", "active", "withdrawn"}, UserMove(m, new) PROVE GhostsType'
  BY <1>1 DEF UserMove, rows, locals, ghosts, GhostsType, TypeOK, Outdated
<1>2. ASSUME NEW e \in Events, PurgeSource(e) PROVE GhostsType'
  BY <1>2 DEF PurgeSource, rows, locals, ghosts, GhostsType, TypeOK, Outdated, Affected
<1>3. ASSUME GenerateCards PROVE GhostsType'
  BY <1>3 DEF GenerateCards, rows, locals, ghosts, GhostsType, TypeOK
<1>4. ASSUME NEW w \in Passes, NEW j \in Jobs, NEW S \in SUBSET Events, Begin(w, j, S) PROVE GhostsType'
  BY <1>4 DEF Begin, rows, locals, ghosts, GhostsType, TypeOK
<1>5. ASSUME NEW w \in Passes, NEW M \in SUBSET Items, Answer(w, M) PROVE GhostsType'
  BY <1>5 DEF Answer, rows, locals, ghosts, GhostsType, TypeOK
<1>6. ASSUME NEW w \in Passes, NEW m \in Items, LookUp(w, m) PROVE GhostsType'
  BY <1>6 DEF LookUp, rows, locals, ghosts, GhostsType, TypeOK
<1>7. ASSUME NEW w \in Passes, Save(w) PROVE GhostsType'
  BY <1>7 DEF Save, rows, locals, ghosts, GhostsType, TypeOK, Outdated
<1>8. ASSUME NEW w \in Passes, NEW m \in Items, Approve(w, m) PROVE GhostsType'
  BY <1>8 DEF Approve, rows, locals, ghosts, GhostsType, TypeOK, Outdated, Done
<1>9. ASSUME NEW w \in Passes, NEW m \in Items, Repeat(w, m) PROVE GhostsType'
  BY <1>9 DEF Repeat, rows, locals, ghosts, GhostsType, TypeOK, Done
<1>10. ASSUME NEW w \in Passes, NEW m \in Items, Refuse(w, m) PROVE GhostsType'
  BY <1>10 DEF Refuse, rows, locals, ghosts, GhostsType, TypeOK, Leave
<1>11. ASSUME NEW w \in Passes, MakeCards(w) PROVE GhostsType'
  BY <1>11 DEF MakeCards, rows, locals, ghosts, GhostsType, TypeOK, Leave, Carded
<1>12. ASSUME NEW w \in Passes, GiveUp(w) PROVE GhostsType'
  BY <1>12 DEF GiveUp, rows, locals, ghosts, GhostsType, TypeOK, Leave
<1>13. ASSUME UNCHANGED vars PROVE GhostsType'
  BY <1>13 DEF vars, rows, locals, ghosts, GhostsType, TypeOK
<1> QED
  BY NextIsStep, <1>1, <1>2, <1>3, <1>4, <1>5, <1>6, <1>7, <1>8, <1>9, <1>10, <1>11, <1>12, <1>13 DEF Step

LEMMA LocalsTypeStep ==
  ASSUME TypeOK, [Next]_vars
  PROVE  LocalsType'
<1>1. ASSUME NEW m \in Items, NEW new \in {"candidate", "active", "withdrawn"}, UserMove(m, new) PROVE LocalsType'
  BY <1>1 DEF UserMove, rows, locals, ghosts, LocalsType, TypeOK
<1>2. ASSUME NEW e \in Events, PurgeSource(e) PROVE LocalsType'
  BY <1>2 DEF PurgeSource, rows, locals, ghosts, LocalsType, TypeOK
<1>3. ASSUME GenerateCards PROVE LocalsType'
  BY <1>3 DEF GenerateCards, rows, locals, ghosts, LocalsType, TypeOK
<1>4. ASSUME NEW w \in Passes, NEW j \in Jobs, NEW S \in SUBSET Events, Begin(w, j, S) PROVE LocalsType'
  BY <1>4 DEF Begin, rows, locals, ghosts, LocalsType, TypeOK
<1>5. ASSUME NEW w \in Passes, NEW M \in SUBSET Items, Answer(w, M) PROVE LocalsType'
  BY <1>5 DEF Answer, rows, locals, ghosts, LocalsType, TypeOK
<1>6. ASSUME NEW w \in Passes, NEW m \in Items, LookUp(w, m) PROVE LocalsType'
  BY <1>6 DEF LookUp, rows, locals, ghosts, LocalsType, TypeOK
<1>7. ASSUME NEW w \in Passes, Save(w) PROVE LocalsType'
  <2> DEFINE good == {m \in answer[w] \cap AutoItems :
                     (IF m \in Written(w) THEN "candidate" ELSE status[m]) = "candidate"}
  <2>1. \A m \in answer[w] : m \in Items
    BY DEF TypeOK
  <2>2. todo' = [todo EXCEPT ![w] = good]
    BY <1>7, <2>1, FilterConstants DEF Save
  <2>3. good \in SUBSET AutoItems
    OBVIOUS
  <2> HIDE DEF good
  <2>4. todo' \in [Passes -> SUBSET AutoItems]
    BY <2>2, <2>3 DEF TypeOK
  <2> QED
    BY <1>7, <2>4 DEF Save, LocalsType, TypeOK
<1>8. ASSUME NEW w \in Passes, NEW m \in Items, Approve(w, m) PROVE LocalsType'
  BY <1>8 DEF Approve, rows, locals, ghosts, Done, LocalsType, TypeOK
<1>9. ASSUME NEW w \in Passes, NEW m \in Items, Repeat(w, m) PROVE LocalsType'
  BY <1>9 DEF Repeat, rows, locals, ghosts, LocalsType, TypeOK, Done
<1>10. ASSUME NEW w \in Passes, NEW m \in Items, Refuse(w, m) PROVE LocalsType'
  BY <1>10 DEF Refuse, rows, locals, ghosts, LocalsType, TypeOK, Leave
<1>11. ASSUME NEW w \in Passes, MakeCards(w) PROVE LocalsType'
  BY <1>11 DEF MakeCards, rows, locals, ghosts, LocalsType, TypeOK, Leave, Carded
<1>12. ASSUME NEW w \in Passes, GiveUp(w) PROVE LocalsType'
  BY <1>12 DEF GiveUp, rows, locals, ghosts, LocalsType, TypeOK, Leave
<1>13. ASSUME UNCHANGED vars PROVE LocalsType'
  BY <1>13 DEF vars, rows, locals, ghosts, LocalsType, TypeOK
<1> QED
  BY NextIsStep, <1>1, <1>2, <1>3, <1>4, <1>5, <1>6, <1>7, <1>8, <1>9, <1>10, <1>11, <1>12, <1>13 DEF Step

LEMMA WorkStep ==
  ASSUME TypeOK, [Next]_vars
  PROVE  WorkOK'
<1>1. ASSUME NEW m \in Items, NEW new \in {"candidate", "active", "withdrawn"}, UserMove(m, new) PROVE WorkOK'
  BY <1>1 DEF UserMove, rows, locals, ghosts, WorkOK, TypeOK
<1>2. ASSUME NEW e \in Events, PurgeSource(e) PROVE WorkOK'
  BY <1>2 DEF PurgeSource, rows, locals, ghosts, WorkOK, TypeOK
<1>3. ASSUME GenerateCards PROVE WorkOK'
  BY <1>3 DEF GenerateCards, rows, locals, ghosts, WorkOK, TypeOK
<1>4. ASSUME NEW w \in Passes, NEW j \in Jobs, NEW S \in SUBSET Events, Begin(w, j, S) PROVE WorkOK'
  BY <1>4, FilterConstants DEF Begin, rows, locals, ghosts, WorkOK, TypeOK
<1>5. ASSUME NEW w \in Passes, NEW M \in SUBSET Items, Answer(w, M) PROVE WorkOK'
  BY <1>5 DEF Answer, rows, locals, ghosts, WorkOK, TypeOK
<1>6. ASSUME NEW w \in Passes, NEW m \in Items, LookUp(w, m) PROVE WorkOK'
  BY <1>6 DEF LookUp, rows, locals, ghosts, WorkOK, TypeOK
<1>7. ASSUME NEW w \in Passes, Save(w) PROVE WorkOK'
  <2>1. \A v \in Passes \ {w} : todo'[v] = todo[v] /\ phase'[v] = phase[v]
    BY <1>7 DEF Save, TypeOK
  <2>2. UNCHANGED <<trace, activated>> /\ phase'[w] = "approve"
    BY <1>7 DEF Save, TypeOK
  <2>3. activated[w] = {} /\ trace[w] # None
    BY <1>7 DEF Save, TypeOK
  <2> QED
    BY <2>1, <2>2, <2>3 DEF WorkOK, TypeOK
<1>8. ASSUME NEW w \in Passes, NEW m \in Items, Approve(w, m) PROVE WorkOK'
  BY <1>8 DEF Approve, rows, locals, ghosts, Done, WorkOK, TypeOK
<1>9. ASSUME NEW w \in Passes, NEW m \in Items, Repeat(w, m) PROVE WorkOK'
  BY <1>9 DEF Repeat, rows, locals, ghosts, WorkOK, TypeOK, Done
<1>10. ASSUME NEW w \in Passes, NEW m \in Items, Refuse(w, m) PROVE WorkOK'
  BY <1>10 DEF Refuse, rows, locals, ghosts, WorkOK, TypeOK, Leave
<1>11. ASSUME NEW w \in Passes, MakeCards(w) PROVE WorkOK'
  BY <1>11 DEF MakeCards, rows, locals, ghosts, WorkOK, TypeOK, Leave, Carded
<1>12. ASSUME NEW w \in Passes, GiveUp(w) PROVE WorkOK'
  BY <1>12 DEF GiveUp, rows, locals, ghosts, WorkOK, TypeOK, Leave
<1>13. ASSUME UNCHANGED vars PROVE WorkOK'
  BY <1>13 DEF vars, rows, locals, ghosts, WorkOK, TypeOK
<1> QED
  BY NextIsStep, <1>1, <1>2, <1>3, <1>4, <1>5, <1>6, <1>7, <1>8, <1>9, <1>10, <1>11, <1>12, <1>13 DEF Step

LEMMA TypeStep == TypeOK /\ [Next]_vars => TypeOK'
<1> SUFFICES ASSUME TypeOK, [Next]_vars PROVE TypeOK'
  OBVIOUS
<1>1. RowsType' /\ GhostsType' /\ LocalsType' /\ WorkOK'
  BY RowsTypeStep, GhostsTypeStep, LocalsTypeStep, WorkStep
<1> QED
  BY <1>1 DEF TypeOK, RowsType, GhostsType, LocalsType, WorkOK

\* The state keeps its types; a pass at work has a job, and approves an item once and
\* only after the items are stored.
THEOREM TypeCorrect == Spec => []TypeOK
BY TypeInit, TypeStep, PTL DEF Spec

-----------------------------------------------------------------------------
(* What the filter does to an item.                                        *)

\* With Postgres: what a transaction has looked up and not found is still not there, or
\* another transaction had looked it up in vain as well.
FreshOK ==
  \A w \in Passes, m \in Items : m \in fresh[w] =>
    /\ store = "postgres"
    /\ status[m] = "none" \/ m \in raced
    /\ \A v \in Passes \ {w} : m \in fresh[v] => m \in raced

LEMMA FreshStep ==
  ASSUME TypeOK, FreshOK, [Next]_vars
  PROVE  FreshOK'
<1>1. ASSUME NEW m \in Items, NEW new \in {"candidate", "active", "withdrawn"}, UserMove(m, new) PROVE FreshOK'
  BY <1>1 DEF UserMove, rows, locals, ghosts, FreshOK, TypeOK
<1>2. ASSUME NEW e \in Events, PurgeSource(e) PROVE FreshOK'
  BY <1>2 DEF PurgeSource, rows, locals, ghosts, Affected, FreshOK, TypeOK
<1>3. ASSUME GenerateCards PROVE FreshOK'
  BY <1>3 DEF GenerateCards, rows, locals, ghosts, FreshOK, TypeOK
<1>4. ASSUME NEW w \in Passes, NEW j \in Jobs, NEW S \in SUBSET Events, Begin(w, j, S) PROVE FreshOK'
  BY <1>4 DEF Begin, rows, locals, ghosts, FreshOK, TypeOK
<1>5. ASSUME NEW w \in Passes, NEW M \in SUBSET Items, Answer(w, M) PROVE FreshOK'
  BY <1>5 DEF Answer, rows, locals, ghosts, FreshOK, TypeOK
<1>6. ASSUME NEW w \in Passes, NEW m \in Items, LookUp(w, m) PROVE FreshOK'
  <2> SUFFICES ASSUME NEW v \in Passes, NEW n \in Items, n \in fresh'[v]
               PROVE  /\ store' = "postgres"
                      /\ status'[n] = "none" \/ n \in raced'
                      /\ \A u \in Passes \ {v} : n \in fresh'[u] => n \in raced'
    BY DEF FreshOK
  <2>1. store' = "postgres" /\ UNCHANGED status /\ raced \subseteq raced'
    BY <1>6 DEF LookUp, rows
  <2>2. CASE n \in fresh[v]
    <3>1. status[n] = "none" \/ n \in raced
      BY <2>2 DEF FreshOK
    <3>2. ASSUME NEW u \in Passes \ {v}, n \in fresh'[u] PROVE n \in raced'
      <4>1. CASE n \in fresh[u]
        BY <2>1, <2>2, <4>1 DEF FreshOK
      <4>2. CASE n \notin fresh[u]
        <5>1. u = w /\ n = m
          BY <1>6, <3>2, <4>2 DEF LookUp, TypeOK
        <5> QED
          BY <1>6, <2>2, <5>1 DEF LookUp
      <4> QED
        BY <4>1, <4>2
    <3> QED
      BY <2>1, <3>1, <3>2
  <2>3. CASE n \notin fresh[v]
    <3>1. v = w /\ n = m /\ status[m] = "none"
      BY <1>6, <2>3 DEF LookUp, TypeOK
    <3>2. \A u \in Passes \ {w} : fresh'[u] = fresh[u]
      BY <1>6 DEF LookUp, TypeOK
    <3> QED
      BY <1>6, <2>1, <3>1, <3>2 DEF LookUp
  <2> QED
    BY <2>2, <2>3
<1>7. ASSUME NEW w \in Passes, Save(w) PROVE FreshOK'
  <2> SUFFICES ASSUME NEW v \in Passes, NEW n \in Items, n \in fresh'[v]
               PROVE  /\ store' = "postgres"
                      /\ status'[n] = "none" \/ n \in raced'
                      /\ \A u \in Passes \ {v} : n \in fresh'[u] => n \in raced'
    BY DEF FreshOK
  <2>1. /\ v # w /\ n \in fresh[v] /\ UNCHANGED <<store, raced>>
        /\ \A u \in Passes : fresh'[u] \subseteq fresh[u]
    BY <1>7 DEF Save, TypeOK, ghosts
  <2>2. store = "postgres" /\ Written(w) = fresh[w]
    BY <2>1 DEF FreshOK, Written
  <2>3. status'[n] = "none" \/ n \in raced
    <3>1. CASE n \in fresh[w]
      BY <2>1, <3>1 DEF FreshOK
    <3>2. CASE n \notin fresh[w]
      BY <1>7, <2>1, <2>2, <3>2 DEF Save, FreshOK
    <3> QED
      BY <3>1, <3>2
  <2> QED
    BY <2>1, <2>2, <2>3 DEF FreshOK
<1>8. ASSUME NEW w \in Passes, NEW m \in Items, Approve(w, m) PROVE FreshOK'
  BY <1>8 DEF Approve, rows, locals, ghosts, Done, FreshOK, TypeOK
<1>9. ASSUME NEW w \in Passes, NEW m \in Items, Repeat(w, m) PROVE FreshOK'
  BY <1>9 DEF Repeat, rows, locals, ghosts, FreshOK, TypeOK, Done
<1>10. ASSUME NEW w \in Passes, NEW m \in Items, Refuse(w, m) PROVE FreshOK'
  BY <1>10 DEF Refuse, rows, locals, ghosts, FreshOK, TypeOK, Leave
<1>11. ASSUME NEW w \in Passes, MakeCards(w) PROVE FreshOK'
  BY <1>11 DEF MakeCards, rows, locals, ghosts, FreshOK, TypeOK, Leave, Carded
<1>12. ASSUME NEW w \in Passes, GiveUp(w) PROVE FreshOK'
  BY <1>12 DEF GiveUp, rows, locals, ghosts, FreshOK, TypeOK, Leave
<1>13. ASSUME UNCHANGED vars PROVE FreshOK'
  BY <1>13 DEF vars, rows, locals, ghosts, FreshOK, TypeOK
<1> QED
  BY NextIsStep, <1>1, <1>2, <1>3, <1>4, <1>5, <1>6, <1>7, <1>8, <1>9, <1>10, <1>11, <1>12, <1>13 DEF Step

LEMMA FreshInvariant == Spec => [](TypeOK /\ FreshOK)
<1>1. Init => FreshOK
  BY DEF Init, FreshOK, Nothing
<1>2. TypeOK /\ FreshOK /\ [Next]_vars => FreshOK'
  BY FreshStep
<1> QED
  BY <1>1, <1>2, TypeCorrect, PTL DEF Spec

\* By somebody else, or a race.
Excused(m) ==
  \/ m \in raced
  \/ \E new \in {"candidate", "active", "withdrawn"} : UserMove(m, new)
  \/ \E e \in Events : PurgeSource(e)

LEMMA ChangesExcused ==
  ASSUME TypeOK, FreshOK, NEW n \in Items,
         status[n] \in {"active", "withdrawn"}, status'[n] # status[n], [Next]_vars
  PROVE  Excused(n)
<1>1. ASSUME NEW m \in Items, NEW new \in {"candidate", "active", "withdrawn"}, UserMove(m, new) PROVE Excused(n)
  <2>1. n = m
    BY <1>1 DEF UserMove, TypeOK
  <2> QED
    BY <1>1, <2>1 DEF Excused
<1>2. ASSUME NEW e \in Events, PurgeSource(e) PROVE Excused(n)
  BY <1>2 DEF Excused
<1>3. ASSUME GenerateCards PROVE Excused(n)
  BY <1>3 DEF GenerateCards, rows, locals, ghosts
<1>4. ASSUME NEW w \in Passes, NEW j \in Jobs, NEW S \in SUBSET Events, Begin(w, j, S) PROVE Excused(n)
  BY <1>4 DEF Begin, rows, locals, ghosts
<1>5. ASSUME NEW w \in Passes, NEW M \in SUBSET Items, Answer(w, M) PROVE Excused(n)
  BY <1>5 DEF Answer, rows, locals, ghosts
<1>6. ASSUME NEW w \in Passes, NEW m \in Items, LookUp(w, m) PROVE Excused(n)
  BY <1>6 DEF LookUp, rows, locals, ghosts
<1>7. ASSUME NEW w \in Passes, Save(w) PROVE Excused(n)
  <2>1. n \in Written(w)
    BY <1>7 DEF Save
  <2>2. CASE store = "lite"
    BY <2>1, <2>2 DEF Written
  <2>3. CASE store # "lite"
    <3>1. n \in fresh[w]
      BY <2>1, <2>3 DEF Written
    <3> QED
      BY <3>1 DEF FreshOK, Excused
  <2> QED
    BY <2>2, <2>3
<1>8. ASSUME NEW w \in Passes, NEW m \in Items, Approve(w, m) PROVE Excused(n)
  BY <1>8 DEF Approve, rows, locals, ghosts, TypeOK
<1>9. ASSUME NEW w \in Passes, NEW m \in Items, Repeat(w, m) PROVE Excused(n)
  BY <1>9 DEF Repeat, rows, locals, ghosts, Done
<1>10. ASSUME NEW w \in Passes, NEW m \in Items, Refuse(w, m) PROVE Excused(n)
  BY <1>10 DEF Refuse, rows, locals, ghosts, Leave
<1>11. ASSUME NEW w \in Passes, MakeCards(w) PROVE Excused(n)
  BY <1>11 DEF MakeCards, rows, locals, ghosts, Leave, Carded
<1>12. ASSUME NEW w \in Passes, GiveUp(w) PROVE Excused(n)
  BY <1>12 DEF GiveUp, rows, locals, ghosts, Leave
<1>13. ASSUME UNCHANGED vars PROVE Excused(n)
  BY <1>13 DEF vars, rows, locals, ghosts
<1> QED
  BY NextIsStep, <1>1, <1>2, <1>3, <1>4, <1>5, <1>6, <1>7, <1>8, <1>9, <1>10, <1>11, <1>12, <1>13 DEF Step

\* The filter adds items and activates candidates, and leaves what users and purges
\* have made of an item, except for items that two Postgres transactions looked up in
\* vain at the same time.
THEOREM FilterAdds == Spec => FilterOnlyAdds
<1>1. TypeOK /\ FreshOK /\ [Next]_vars
        => [\A m \in Items : status[m] \in {"active", "withdrawn"} /\ status'[m] # status[m] =>
              \/ m \in raced
              \/ \E new \in {"candidate", "active", "withdrawn"} : UserMove(m, new)
              \/ \E e \in Events : PurgeSource(e)]_vars
  BY ChangesExcused DEF Excused
<1> QED
  BY <1>1, FreshInvariant, PTL DEF Spec, FilterOnlyAdds

NoRace == raced = {}

\* With the Lite store, or with one pass, no two transactions look up an item in vain.
LEMMA NobodyRaces ==
  ASSUME "postgres" \notin Stores \/ \A v, w \in Passes : v = w
  PROVE  Spec => []NoRace
<1>1. Init => NoRace
  BY DEF Init, NoRace
<1>2. TypeOK /\ NoRace /\ [Next]_vars => NoRace'
  <2> SUFFICES ASSUME TypeOK, raced = {}, [Next]_vars PROVE raced' = {}
    BY DEF NoRace
  <2>1. ASSUME NEW w \in Passes, NEW m \in Items, LookUp(w, m) PROVE raced' = {}
    BY <2>1 DEF LookUp, TypeOK
  <2>2. CASE Next /\ ~ \E w \in Passes, m \in Items : LookUp(w, m)
    BY <2>2, NextIsStep DEF Step, UserMove, PurgeSource, GenerateCards, Begin, Answer, Approve,
                            Repeat, Refuse, Save, MakeCards, GiveUp, ghosts
  <2>3. CASE UNCHANGED vars
    BY <2>3 DEF vars, ghosts
  <2> QED
    BY <2>1, <2>2, <2>3
<1> QED
  BY <1>1, <1>2, TypeCorrect, PTL DEF Spec

\* Where transactions are one step (the Lite store), and where no other pass is at work,
\* the filter takes nothing back, without any exception.
THEOREM LonePassAdds ==
  ASSUME "postgres" \notin Stores \/ \A v, w \in Passes : v = w
  PROVE  Spec => [][\A m \in Items :
                      status[m] \in {"active", "withdrawn"} /\ status'[m] # status[m] =>
                        \/ \E new \in {"candidate", "active", "withdrawn"} : UserMove(m, new)
                        \/ \E e \in Events : PurgeSource(e)]_vars
<1>1. TypeOK /\ FreshOK /\ NoRace /\ [Next]_vars
        => [\A m \in Items : status[m] \in {"active", "withdrawn"} /\ status'[m] # status[m] =>
              \/ \E new \in {"candidate", "active", "withdrawn"} : UserMove(m, new)
              \/ \E e \in Events : PurgeSource(e)]_vars
  BY ChangesExcused DEF Excused, NoRace
<1> QED
  BY <1>1, FreshInvariant, NobodyRaces, PTL DEF Spec

-----------------------------------------------------------------------------
(* Cards.                                                                  *)

\* An item that is active, or that a pass has approved, has been active.
ActiveOK ==
  \A m \in Items :
    /\ status[m] = "active" => m \in wasActive
    /\ \A j \in Jobs : audit[j][m] = "succeeded" => m \in wasActive
    /\ \A w \in Passes : m \in activated[w] => m \in wasActive

LEMMA ActiveStep ==
  ASSUME TypeOK, ActiveOK, [Next]_vars
  PROVE  ActiveOK'
<1>1. ASSUME NEW m \in Items, NEW new \in {"candidate", "active", "withdrawn"}, UserMove(m, new) PROVE ActiveOK'
  <2>1. \A j \in Jobs, n \in Items : audit'[j][n] = "succeeded" => audit[j][n] = "succeeded"
    BY <1>1 DEF UserMove, Outdated
  <2> QED
    BY <1>1, <2>1 DEF UserMove, ActiveOK, TypeOK, locals
<1>2. ASSUME NEW e \in Events, PurgeSource(e) PROVE ActiveOK'
  <2>1. /\ \A m \in Items : status'[m] = "active" => status[m] = "active"
        /\ \A j \in Jobs, m \in Items : audit'[j][m] = "succeeded" => audit[j][m] = "succeeded"
        /\ UNCHANGED <<wasActive, activated>>
    BY <1>2 DEF PurgeSource, Outdated, ghosts, locals
  <2> QED
    BY <2>1 DEF ActiveOK
<1>3. ASSUME GenerateCards PROVE ActiveOK'
  BY <1>3 DEF GenerateCards, rows, locals, ghosts, ActiveOK, TypeOK
<1>4. ASSUME NEW w \in Passes, NEW j \in Jobs, NEW S \in SUBSET Events, Begin(w, j, S) PROVE ActiveOK'
  BY <1>4 DEF Begin, rows, locals, ghosts, ActiveOK, TypeOK
<1>5. ASSUME NEW w \in Passes, NEW M \in SUBSET Items, Answer(w, M) PROVE ActiveOK'
  BY <1>5 DEF Answer, rows, locals, ghosts, ActiveOK, TypeOK
<1>6. ASSUME NEW w \in Passes, NEW m \in Items, LookUp(w, m) PROVE ActiveOK'
  BY <1>6 DEF LookUp, rows, locals, ghosts, ActiveOK, TypeOK
<1>7. ASSUME NEW w \in Passes, Save(w) PROVE ActiveOK'
  <2>1. /\ \A m \in Items : status'[m] = "active" => status[m] = "active"
        /\ \A j \in Jobs, m \in Items : audit'[j][m] = "succeeded" => audit[j][m] = "succeeded"
        /\ UNCHANGED <<wasActive, activated>>
    BY <1>7 DEF Save, Outdated, ghosts
  <2> QED
    BY <2>1 DEF ActiveOK
<1>8. ASSUME NEW w \in Passes, NEW m \in Items, Approve(w, m) PROVE ActiveOK'
  <2>1. trace[w] \in Jobs
    BY <1>8, AtWork DEF Approve
  <2>2. \A j \in Jobs, n \in Items : n # m /\ audit'[j][n] = "succeeded" => audit[j][n] = "succeeded"
    BY <1>8, <2>1, OutdatedType DEF Approve, Outdated
  <2>3. \A n \in Items : n # m /\ status'[n] = "active" => status[n] = "active"
    BY <1>8 DEF Approve, TypeOK
  <2>4. \A n \in Items, v \in Passes : n # m /\ n \in activated'[v] => n \in activated[v]
    BY <1>8 DEF Approve, Done, TypeOK
  <2>5. wasActive' = wasActive \cup {m}
    BY <1>8 DEF Approve
  <2> QED
    BY <2>2, <2>3, <2>4, <2>5 DEF ActiveOK
<1>9. ASSUME NEW w \in Passes, NEW m \in Items, Repeat(w, m) PROVE ActiveOK'
  <2>1. m \in wasActive
    BY <1>9, AtWork DEF Repeat, ActiveOK
  <2> QED
    BY <1>9, <2>1 DEF Repeat, Done, ActiveOK, TypeOK, rows, ghosts
<1>10. ASSUME NEW w \in Passes, NEW m \in Items, Refuse(w, m) PROVE ActiveOK'
  <2>1. trace[w] \in Jobs
    BY <1>10, AtWork DEF Refuse
  <2>2. \A j \in Jobs, n \in Items : audit'[j][n] = "succeeded" => audit[j][n] = "succeeded"
    BY <1>10, <2>1 DEF Refuse, TypeOK
  <2> QED
    BY <1>10, <2>2 DEF Refuse, Leave, ActiveOK, TypeOK
<1>11. ASSUME NEW w \in Passes, MakeCards(w) PROVE ActiveOK'
  BY <1>11 DEF MakeCards, rows, locals, ghosts, ActiveOK, TypeOK, Leave, Carded
<1>12. ASSUME NEW w \in Passes, GiveUp(w) PROVE ActiveOK'
  BY <1>12 DEF GiveUp, rows, locals, ghosts, ActiveOK, TypeOK, Leave
<1>13. ASSUME UNCHANGED vars PROVE ActiveOK'
  BY <1>13 DEF vars, rows, locals, ghosts, ActiveOK, TypeOK
<1> QED
  BY NextIsStep, <1>1, <1>2, <1>3, <1>4, <1>5, <1>6, <1>7, <1>8, <1>9, <1>10, <1>11, <1>12, <1>13 DEF Step

LEMMA CardsStep ==
  ASSUME TypeOK, ActiveOK, CardsFollowApprovals, [Next]_vars
  PROVE  CardsFollowApprovals'
<1>1. ASSUME NEW m \in Items, NEW new \in {"candidate", "active", "withdrawn"}, UserMove(m, new) PROVE CardsFollowApprovals'
  BY <1>1 DEF UserMove, rows, locals, ghosts, CardsFollowApprovals
<1>2. ASSUME NEW e \in Events, PurgeSource(e) PROVE CardsFollowApprovals'
  BY <1>2 DEF PurgeSource, rows, locals, ghosts, CardsFollowApprovals
<1>3. ASSUME GenerateCards PROVE CardsFollowApprovals'
  BY <1>3, FilterConstants DEF GenerateCards, rows, locals, ghosts, CardsFollowApprovals, ActiveOK, TypeOK
<1>4. ASSUME NEW w \in Passes, NEW j \in Jobs, NEW S \in SUBSET Events, Begin(w, j, S) PROVE CardsFollowApprovals'
  BY <1>4 DEF Begin, rows, locals, ghosts, CardsFollowApprovals, TypeOK
<1>5. ASSUME NEW w \in Passes, NEW M \in SUBSET Items, Answer(w, M) PROVE CardsFollowApprovals'
  BY <1>5 DEF Answer, rows, locals, ghosts, CardsFollowApprovals, TypeOK
<1>6. ASSUME NEW w \in Passes, NEW m \in Items, LookUp(w, m) PROVE CardsFollowApprovals'
  BY <1>6 DEF LookUp, rows, locals, ghosts, CardsFollowApprovals, TypeOK
<1>7. ASSUME NEW w \in Passes, Save(w) PROVE CardsFollowApprovals'
  BY <1>7 DEF Save, rows, locals, ghosts, CardsFollowApprovals
<1>8. ASSUME NEW w \in Passes, NEW m \in Items, Approve(w, m) PROVE CardsFollowApprovals'
  BY <1>8 DEF Approve, rows, locals, ghosts, Done, CardsFollowApprovals, TypeOK
<1>9. ASSUME NEW w \in Passes, NEW m \in Items, Repeat(w, m) PROVE CardsFollowApprovals'
  BY <1>9 DEF Repeat, rows, locals, ghosts, CardsFollowApprovals, TypeOK, Done
<1>10. ASSUME NEW w \in Passes, NEW m \in Items, Refuse(w, m) PROVE CardsFollowApprovals'
  BY <1>10 DEF Refuse, rows, locals, ghosts, CardsFollowApprovals, TypeOK, Leave
<1>11. ASSUME NEW w \in Passes, MakeCards(w) PROVE CardsFollowApprovals'
  BY <1>11 DEF MakeCards, rows, locals, ghosts, Leave, Carded, CardsFollowApprovals, ActiveOK, TypeOK
<1>12. ASSUME NEW w \in Passes, GiveUp(w) PROVE CardsFollowApprovals'
  BY <1>12 DEF GiveUp, rows, locals, ghosts, CardsFollowApprovals, TypeOK, Leave
<1>13. ASSUME UNCHANGED vars PROVE CardsFollowApprovals'
  BY <1>13 DEF vars, rows, locals, ghosts, CardsFollowApprovals
<1> QED
  BY NextIsStep, <1>1, <1>2, <1>3, <1>4, <1>5, <1>6, <1>7, <1>8, <1>9, <1>10, <1>11, <1>12, <1>13 DEF Step

\* A decision that a pass has approved has its card unless that pass is still at work or
\* did not come to its end, and a card is of an item that has been active.
THEOREM CardsFollow == Spec => []CardsFollowApprovals
<1>1. Init => ActiveOK /\ CardsFollowApprovals
  BY DEF Init, ActiveOK, CardsFollowApprovals, Nothing
<1>2. TypeOK /\ ActiveOK /\ CardsFollowApprovals /\ [Next]_vars
        => ActiveOK' /\ CardsFollowApprovals'
  BY ActiveStep, CardsStep
<1> QED
  BY <1>1, <1>2, TypeCorrect, PTL DEF Spec
===============================================================================
