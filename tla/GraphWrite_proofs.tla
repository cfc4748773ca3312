--------------------------- MODULE GraphWrite_proofs ---------------------------
(***************************************************************************)
(* Proofs about GraphWrite.                                                *)
(***************************************************************************)
EXTENDS GraphWrite, TLAPS

-----------------------------------------------------------------------------
(* What a step touches.                                                      *)

\* One disjunct of Next for each action, the two ways to claim being one.
Step ==
  \/ \E w \in Workers :
       \/ \E due \in SUBSET Jobs : BeginClaim(w, due)
       \/ CommitClaim(w)
       \/ \E j \in Jobs : \/ StartRow(w, j) \/ RecordSuccess(w, j) \/ RecordFailure(w, j)
                          \/ LoseLock(w, j)
       \/ ExtendLock(w) \/ WriteLinks(w) \/ LoseRow(w) \/ FailRow(w)
       \/ \E i \in Items : MarkNeedsReview(w, i)
       \/ Crash(w)
  \/ \E j \in Jobs : Enqueue(j) \/ RetryDeadLetter(j) \/ ExpireOrphan(j) \/ Overrun(j)
  \/ \E i \in Items : Confirm(i)

LEMMA NextIsStep == Next => Step
<1> SUFFICES ASSUME Next PROVE Step
  OBVIOUS
<1>1. ASSUME NEW w \in Workers, WorkerStep(w) PROVE Step
  <2>1. ASSUME BeginClaim(w, Jobs) PROVE Step
    <3>1. Jobs \in SUBSET Jobs
      OBVIOUS
    <3> QED
      BY <2>1, <3>1 DEF Step
  <2> QED
    BY <1>1, <2>1 DEF WorkerStep, Step
<1> QED
  BY <1>1 DEF Next, Step

LEMMA TypeInit == Init => TypeOK
BY GraphConstants DEF Init, TypeOK, NoOutcome, NoResult, Outcomes

LEMMA StopType ==
  ASSUME TypeOK, NEW w \in Workers, Stop(w)
  PROVE  /\ phase' \in [Workers -> {"idle", "claiming", "working"}]
         /\ batch' \in [Workers -> SUBSET Jobs]
         /\ outcome' \in [Workers -> [Jobs -> Outcomes]]
         /\ result' \in [Workers -> [Jobs -> SUBSET Items]]
         /\ current' \in [Workers -> Jobs \cup {None}]
         /\ left' \in [Workers -> SUBSET Items]
         /\ extended' \in [Workers -> BOOLEAN]
<1>1. NoOutcome \in [Jobs -> Outcomes] /\ NoResult \in [Jobs -> SUBSET Items]
  BY DEF NoOutcome, NoResult, Outcomes
<1> QED
  BY <1>1 DEF TypeOK, Stop

LEMMA FinishType ==
  ASSUME TypeOK, NEW w \in Workers, NEW o \in Outcomes, FinishRow(w, o)
  PROVE  /\ outcome' \in [Workers -> [Jobs -> Outcomes]]
         /\ current' \in [Workers -> Jobs \cup {None}]
         /\ left' \in [Workers -> SUBSET Items]
         /\ extended' \in [Workers -> BOOLEAN]
         /\ UNCHANGED <<phase, batch, result>>
BY DEF TypeOK, FinishRow

LEMMA MarkedType ==
  ASSUME TypeOK, NEW w \in Workers, NEW i \in Items, Marked(w, i)
  PROVE  /\ left' \in [Workers -> SUBSET Items]
         /\ extended' \in [Workers -> BOOLEAN]
         /\ UNCHANGED <<phase, batch, outcome, result, current>>
BY DEF TypeOK, Marked

LEMMA RecordedType ==
  ASSUME TypeOK, NEW w \in Workers, NEW j \in Jobs, Recorded(w, j)
  PROVE  /\ phase' \in [Workers -> {"idle", "claiming", "working"}]
         /\ batch' \in [Workers -> SUBSET Jobs]
         /\ outcome' \in [Workers -> [Jobs -> Outcomes]]
         /\ result' \in [Workers -> [Jobs -> SUBSET Items]]
         /\ UNCHANGED <<linked, items, current, left, extended, events>>
<1>1. phase' \in [Workers -> {"idle", "claiming", "working"}]
  BY DEF TypeOK, Recorded
<1>2. batch' \in [Workers -> SUBSET Jobs]
  BY DEF TypeOK, Recorded
<1>3. outcome' \in [Workers -> [Jobs -> Outcomes]]
  BY DEF TypeOK, Recorded, Outcomes
<1>4. result' \in [Workers -> [Jobs -> SUBSET Items]]
  BY DEF TypeOK, Recorded
<1> QED
  BY <1>1, <1>2, <1>3, <1>4 DEF Recorded

LEMMA UnlockType ==
  ASSUME TypeOK, NEW j \in Jobs, Unlock(j)
  PROVE  lockedBy' \in [Jobs -> Workers \cup {None}] /\ leased' \in [Jobs -> BOOLEAN]
BY DEF TypeOK, Unlock

LEMMA MarkType ==
  ASSUME TypeOK, NEW w \in Workers, NEW i \in Items, MarkNeedsReview(w, i)
  PROVE  TypeOK'
<1> DEFINE j == current[w]
<1>0. UNCHANGED <<rows, linked, events>>
  BY DEF MarkNeedsReview
<1>1. CASE item' = [item EXCEPT ![i] = "needs_review"]
           /\ audit' = [audit EXCEPT ![j][i] = "marked"] /\ Marked(w, i)
  <2>1. item' \in [Items -> {"active", "needs_review"}]
    BY <1>1 DEF TypeOK
  <2>2. audit' \in [Jobs -> [Items -> {"none", "marked", "stale", "rejected"}]]
    BY <1>1 DEF TypeOK
  <2> QED
    BY <1>0, <1>1, <2>1, <2>2, MarkedType DEF TypeOK, rows
<1>2. CASE audit' = [audit EXCEPT ![j][i] = "rejected"]
           /\ FinishRow(w, "permanent") /\ UNCHANGED item
  <2>1. audit' \in [Jobs -> [Items -> {"none", "marked", "stale", "rejected"}]]
    BY <1>2 DEF TypeOK
  <2> QED
    BY <1>0, <1>2, <2>1, FinishType DEF TypeOK, rows, Outcomes
<1>3. CASE Marked(w, i) /\ UNCHANGED items
  BY <1>0, <1>3, MarkedType DEF TypeOK, rows, items
<1>4. CASE FinishRow(w, "permanent") /\ UNCHANGED items
  BY <1>0, <1>4, FinishType DEF TypeOK, rows, items, Outcomes
<1> QED
  BY <1>1, <1>2, <1>3, <1>4 DEF MarkNeedsReview

LEMMA WorkerType ==
  ASSUME TypeOK, NEW w \in Workers
  PROVE  /\ \A due \in SUBSET Jobs : BeginClaim(w, due) => TypeOK'
         /\ CommitClaim(w) => TypeOK'
         /\ \A j \in Jobs : StartRow(w, j) => TypeOK'
         /\ \A j \in Jobs : RecordSuccess(w, j) \/ RecordFailure(w, j) => TypeOK'
         /\ ExtendLock(w) \/ WriteLinks(w) \/ LoseRow(w) \/ FailRow(w) => TypeOK'
         /\ (\E j \in Jobs : LoseLock(w, j)) \/ Crash(w) => TypeOK'
<1>1. ASSUME NEW due \in SUBSET Jobs, BeginClaim(w, due) PROVE TypeOK'
  <2>1. batch' \in [Workers -> SUBSET Jobs]
    BY <1>1 DEF TypeOK, BeginClaim
  <2> QED
    BY <1>1, <2>1 DEF TypeOK, BeginClaim, rows, items
<1>2. ASSUME CommitClaim(w) PROVE TypeOK'
  <2>1. status' \in [Jobs -> {"absent", "pending", "processing", "succeeded", "dead_letter"}]
    BY <1>2 DEF TypeOK, CommitClaim
  <2>2. lockedBy' \in [Jobs -> Workers \cup {None}] /\ leased' \in [Jobs -> BOOLEAN]
    BY <1>2 DEF TypeOK, CommitClaim
  <2> QED
    BY <1>2, <2>1, <2>2 DEF TypeOK, CommitClaim, items
<1>3. ASSUME NEW j \in Jobs, StartRow(w, j) PROVE TypeOK'
  <2>0. UNCHANGED <<rows, linked, items, phase, batch, extended, events>>
    BY <1>3 DEF StartRow
  <2>1. ASSUME NEW error \in {"transient", "permanent"},
               outcome' = [outcome EXCEPT ![w][j] = error],
               UNCHANGED <<result, current, left>>
        PROVE  TypeOK'
    <3>1. outcome' \in [Workers -> [Jobs -> Outcomes]]
      BY <2>1 DEF TypeOK, Outcomes
    <3> QED
      BY <2>0, <2>1, <3>1 DEF TypeOK, rows, items
  <2>2. ASSUME NEW facts \in SUBSET Items,
               result' = [result EXCEPT ![w][j] = facts],
               current' = [current EXCEPT ![w] = j],
               left' = [left EXCEPT ![w] = facts],
               UNCHANGED outcome
        PROVE  TypeOK'
    <3>1. result' \in [Workers -> [Jobs -> SUBSET Items]]
      BY <2>2 DEF TypeOK
    <3>2. current' \in [Workers -> Jobs \cup {None}] /\ left' \in [Workers -> SUBSET Items]
      BY <2>2 DEF TypeOK
    <3> QED
      BY <2>0, <2>2, <3>1, <3>2 DEF TypeOK, rows, items
  <2> QED
    BY <1>3, <2>1, <2>2 DEF StartRow
<1>4. ASSUME NEW j \in Jobs, RecordSuccess(w, j) \/ RecordFailure(w, j) PROVE TypeOK'
  <2>1. Recorded(w, j) /\ Unlock(j)
    <3>1. CASE RecordSuccess(w, j)
      BY <3>1 DEF RecordSuccess
    <3>2. CASE RecordFailure(w, j)
      BY <3>2 DEF RecordFailure
    <3> QED
      BY <1>4, <3>1, <3>2
  <2>2. \E s \in {"pending", "succeeded", "dead_letter"} : status' = [status EXCEPT ![j] = s]
    <3>1. CASE RecordSuccess(w, j)
      BY <3>1 DEF RecordSuccess
    <3>2. CASE RecordFailure(w, j)
      BY <3>2 DEF RecordFailure
    <3> QED
      BY <1>4, <3>1, <3>2
  <2>3. attempts' \in [Jobs -> Nat]
    <3>1. CASE RecordSuccess(w, j)
      BY <3>1 DEF RecordSuccess, TypeOK
    <3>2. CASE RecordFailure(w, j)
      <4>1. attempts' = [attempts EXCEPT ![j] = @ + 1]
        BY <3>2 DEF RecordFailure
      <4> QED
        BY <4>1 DEF TypeOK
    <3> QED
      BY <1>4, <3>1, <3>2
  <2>4. status' \in [Jobs -> {"absent", "pending", "processing", "succeeded", "dead_letter"}]
    BY <2>2 DEF TypeOK
  <2> QED
    BY <2>1, <2>3, <2>4, RecordedType, UnlockType DEF TypeOK, items
<1>5. ASSUME ExtendLock(w) \/ WriteLinks(w) \/ LoseRow(w) \/ FailRow(w) PROVE TypeOK'
  <2>1. CASE ExtendLock(w)
    BY <2>1 DEF TypeOK, ExtendLock, rows, items
  <2>2. CASE WriteLinks(w)
    <3>1. linked' \in SUBSET Jobs
      BY <2>2 DEF TypeOK, WriteLinks
    <3> QED
      BY <2>2, <3>1, FinishType DEF TypeOK, WriteLinks, rows, items, Outcomes
  <2>3. CASE LoseRow(w) \/ FailRow(w)
    BY <2>3, FinishType DEF TypeOK, LoseRow, FailRow, rows, items, Outcomes
  <2> QED
    BY <1>5, <2>1, <2>2, <2>3
<1>6. ASSUME (\E j \in Jobs : LoseLock(w, j)) \/ Crash(w) PROVE TypeOK'
  <2>1. Stop(w) /\ UNCHANGED <<rows, linked, items>> /\ events' \in Nat
    BY <1>6 DEF LoseLock, Crash, Event, TypeOK
  <2> QED
    BY <2>1, StopType DEF TypeOK, rows, items
<1> QED
  BY <1>1, <1>2, <1>3, <1>4, <1>5, <1>6

LEMMA OthersType ==
  ASSUME TypeOK,
         \/ \E j \in Jobs : Enqueue(j) \/ RetryDeadLetter(j) \/ ExpireOrphan(j) \/ Overrun(j)
         \/ \E i \in Items : Confirm(i)
  PROVE  TypeOK'
<1>1. ASSUME NEW j \in Jobs, Enqueue(j) PROVE TypeOK'
  BY <1>1 DEF TypeOK, Enqueue, items, locals
<1>2. ASSUME NEW j \in Jobs, RetryDeadLetter(j) PROVE TypeOK'
  BY <1>2 DEF TypeOK, RetryDeadLetter, Event, items, locals
<1>3. ASSUME NEW j \in Jobs, ExpireOrphan(j) PROVE TypeOK'
  BY <1>3 DEF TypeOK, ExpireOrphan, items, locals
<1>4. ASSUME NEW j \in Jobs, Overrun(j) PROVE TypeOK'
  BY <1>4 DEF TypeOK, Overrun, Event, items, locals
<1>5. ASSUME NEW i \in Items, Confirm(i) PROVE TypeOK'
  <2>1. item' \in [Items -> {"active", "needs_review"}]
    BY <1>5 DEF TypeOK, Confirm
  <2>2. audit' \in [Jobs -> [Items -> {"none", "marked", "stale", "rejected"}]]
    BY <1>5 DEF TypeOK, Confirm
  <2> QED
    BY <1>5, <2>1, <2>2 DEF TypeOK, Confirm, rows, locals
<1> QED
  BY <1>1, <1>2, <1>3, <1>4, <1>5

LEMMA TypeStep == TypeOK /\ [Next]_vars => TypeOK'
<1> SUFFICES ASSUME TypeOK, [Next]_vars PROVE TypeOK'
  OBVIOUS
<1>1. CASE Step
  BY <1>1, WorkerType, MarkType, OthersType DEF Step
<1>2. CASE UNCHANGED vars
  BY <1>2 DEF TypeOK, vars, rows, items, locals
<1> QED
  BY <1>1, <1>2, NextIsStep

(***************************************************************************)
(* The state stays well typed, for any jobs, workers, items and bounds.    *)
(***************************************************************************)
THEOREM TypeCorrect == Spec => []TypeOK
BY TypeInit, TypeStep, PTL DEF Spec

-----------------------------------------------------------------------------
(* Success is complete                                                       *)

Covered(j, i) == audit[j][i] \in {"marked", "stale"}

\* What a worker has done so far is in the store: the items it has been through
\* are marked, and for a row that went well all of them and the links.
Progress(w) ==
  /\ extended[w] => current[w] # None
  /\ current[w] # None => \A i \in result[w][current[w]] \ left[w] : Covered(current[w], i)
  /\ \A j \in Jobs : outcome[w][j] = "ok" =>
       j \in linked /\ \A i \in result[w][j] : Covered(j, i)

ProgressInv == TypeOK /\ \A w \in Workers : Progress(w)

\* What the store has, it keeps.
Kept ==
  /\ linked \subseteq linked'
  /\ \A j \in Jobs, i \in Items : Covered(j, i) => Covered(j, i)'

Local(w) == <<phase[w], batch[w], outcome[w], result[w], current[w], left[w], extended[w]>>

LEMMA ProgressFrame ==
  ASSUME TypeOK, NEW w \in Workers, Progress(w), Kept, UNCHANGED Local(w)
  PROVE  Progress(w)'
<1>1. /\ outcome[w] \in [Jobs -> Outcomes] /\ result[w] \in [Jobs -> SUBSET Items]
      /\ current[w] \in Jobs \cup {None}
  BY DEF TypeOK
<1>2. /\ extended'[w] = extended[w] /\ current'[w] = current[w] /\ left'[w] = left[w]
      /\ result'[w] = result[w] /\ outcome'[w] = outcome[w]
  BY DEF Local
<1>3. extended'[w] => current'[w] # None
  BY <1>2 DEF Progress
<1>4. current'[w] # None => \A i \in result'[w][current'[w]] \ left'[w] : Covered(current[w], i)'
  BY <1>1, <1>2 DEF Progress, Kept
<1>5. \A j \in Jobs : outcome'[w][j] = "ok" =>
        j \in linked' /\ \A i \in result'[w][j] : Covered(j, i)'
  BY <1>1, <1>2 DEF Progress, Kept
<1> QED
  BY <1>2, <1>3, <1>4, <1>5 DEF Progress, Covered

\* A step of a worker leaves the locals of the others alone.
OthersFrame(w) == \A v \in Workers \ {w} : UNCHANGED Local(v)

LEMMA StopProgress ==
  ASSUME TypeOK, NEW w \in Workers, Stop(w), UNCHANGED <<linked, items>>
  PROVE  Progress(w)' /\ OthersFrame(w) /\ Kept
<1>1. OthersFrame(w)
  BY DEF TypeOK, Stop, OthersFrame, Local
<1>2. Kept
  BY DEF Kept, Covered, items
<1>3. ~extended'[w] /\ current'[w] = None /\ \A j \in Jobs : outcome'[w][j] = "none"
  BY DEF TypeOK, Stop, NoOutcome
<1> QED
  BY <1>1, <1>2, <1>3 DEF Progress

LEMMA FinishProgress ==
  ASSUME TypeOK, NEW w \in Workers, Progress(w), NEW o \in Outcomes, current[w] # None,
         FinishRow(w, o), Kept,
         o = "ok" => current[w] \in linked' /\ left[w] = {}
  PROVE  Progress(w)' /\ OthersFrame(w)
<1>1. OthersFrame(w)
  BY DEF TypeOK, FinishRow, OthersFrame, Local
<1>2. ~extended'[w] /\ current'[w] = None /\ result' = result /\ current[w] \in Jobs
  BY DEF TypeOK, FinishRow
<1>3. \A j \in Jobs : outcome'[w][j] = IF j = current[w] THEN o ELSE outcome[w][j]
  BY DEF TypeOK, FinishRow
<1>4. \A j \in Jobs : result[w][j] \subseteq Items
  BY DEF TypeOK
<1>5. ASSUME NEW j \in Jobs, outcome'[w][j] = "ok"
      PROVE  j \in linked' /\ \A i \in result'[w][j] : Covered(j, i)'
  <2>1. CASE j = current[w]
    <3>1. o = "ok"
      BY <1>3, <1>5, <2>1
    <3> QED
      BY <1>2, <1>4, <2>1, <3>1 DEF Progress, Kept
  <2>2. CASE j # current[w]
    <3>1. outcome[w][j] = "ok"
      BY <1>3, <1>5, <2>2
    <3> QED
      BY <1>2, <1>4, <3>1 DEF Progress, Kept
  <2> QED
    BY <2>1, <2>2
<1> QED
  BY <1>1, <1>2, <1>5 DEF Progress, Covered

LEMMA MarkedProgress ==
  ASSUME TypeOK, NEW w \in Workers, Progress(w), NEW i \in Items, current[w] # None,
         Marked(w, i), Kept, UNCHANGED linked, Covered(current[w], i)'
  PROVE  Progress(w)' /\ OthersFrame(w)
<1>1. OthersFrame(w)
  BY DEF TypeOK, Marked, OthersFrame, Local
<1>2. /\ ~extended'[w] /\ left'[w] = left[w] \ {i}
      /\ UNCHANGED <<outcome, result, current>>
      /\ current[w] \in Jobs
  BY DEF TypeOK, Marked
<1>3. \A j \in Jobs : result[w][j] \subseteq Items
  BY DEF TypeOK
<1>4. \A k \in result'[w][current'[w]] \ left'[w] : Covered(current[w], k)'
  BY <1>2, <1>3 DEF Progress, Kept
<1>5. \A j \in Jobs : outcome'[w][j] = "ok" =>
        j \in linked' /\ \A k \in result'[w][j] : Covered(j, k)'
  BY <1>2, <1>3 DEF Progress, Kept
<1> QED
  BY <1>1, <1>2, <1>4, <1>5 DEF Progress, Covered

LEMMA MarkKeeps ==
  ASSUME TypeOK, NEW w \in Workers, Progress(w), NEW i \in Items, MarkNeedsReview(w, i)
  PROVE  Progress(w)' /\ OthersFrame(w) /\ Kept
<1> DEFINE j == current[w]
<1>0. j \in Jobs /\ j # None /\ UNCHANGED linked
  BY DEF MarkNeedsReview, Progress, TypeOK
<1>1. CASE /\ audit[j][i] = "none" /\ audit' = [audit EXCEPT ![j][i] = "marked"]
           /\ Marked(w, i)
  <2>1. \A k \in Jobs, l \in Items :
          audit'[k][l] = IF k = j /\ l = i THEN "marked" ELSE audit[k][l]
    BY <1>0, <1>1 DEF TypeOK
  <2>2. Kept
    BY <1>0, <1>1, <2>1 DEF Kept, Covered
  <2>3. Covered(j, i)'
    <3>1. UNCHANGED current
      BY <1>1 DEF Marked
    <3> QED
      BY <1>0, <2>1, <3>1 DEF Covered
  <2> QED
    BY <1>0, <1>1, <2>2, <2>3, MarkedProgress
<1>2. CASE /\ audit[j][i] = "none" /\ audit' = [audit EXCEPT ![j][i] = "rejected"]
           /\ FinishRow(w, "permanent")
  <2>1. \A k \in Jobs, l \in Items :
          audit'[k][l] = IF k = j /\ l = i THEN "rejected" ELSE audit[k][l]
    BY <1>0, <1>2 DEF TypeOK
  <2>2. Kept
    BY <1>0, <1>2, <2>1 DEF Kept, Covered
  <2> QED
    BY <1>0, <1>2, <2>2, FinishProgress DEF Outcomes
<1>3. CASE audit[j][i] = "marked" /\ Marked(w, i) /\ UNCHANGED items
  <2>1. Kept /\ UNCHANGED current
    BY <1>0, <1>3 DEF Kept, Covered, items, Marked
  <2>2. Covered(j, i)'
    BY <1>3, <2>1 DEF Covered, items
  <2> QED
    BY <1>0, <1>3, <2>1, <2>2, MarkedProgress
<1>4. CASE FinishRow(w, "permanent") /\ UNCHANGED items
  <2>1. Kept
    BY <1>0, <1>4 DEF Kept, Covered, items
  <2> QED
    BY <1>0, <1>4, <2>1, FinishProgress DEF Outcomes
<1> QED
  BY <1>1, <1>2, <1>3, <1>4 DEF MarkNeedsReview

LEMMA StartProgress ==
  ASSUME TypeOK, NEW w \in Workers, Progress(w), NEW j \in Jobs, StartRow(w, j)
  PROVE  Progress(w)' /\ OthersFrame(w) /\ Kept
<1>1. Kept
  BY DEF StartRow, Kept, Covered, items
<1>2. current[w] = None /\ ~extended[w] /\ UNCHANGED <<audit, linked, extended>>
      /\ outcome[w][j] = "none"
  BY DEF StartRow, items, Progress
<1>3. ASSUME NEW error \in {"transient", "permanent"},
             outcome' = [outcome EXCEPT ![w][j] = error],
             UNCHANGED <<result, current, left>>
      PROVE  Progress(w)' /\ OthersFrame(w)
  <2>1. OthersFrame(w)
    BY <1>3 DEF TypeOK, StartRow, OthersFrame, Local
  <2>2. \A k \in Jobs : outcome'[w][k] = "ok" => outcome[w][k] = "ok"
    BY <1>3 DEF TypeOK
  <2> QED
    BY <1>2, <1>3, <2>1, <2>2 DEF Progress, Covered
<1>4. ASSUME NEW facts \in SUBSET Items,
             result' = [result EXCEPT ![w][j] = facts],
             current' = [current EXCEPT ![w] = j],
             left' = [left EXCEPT ![w] = facts],
             UNCHANGED outcome
      PROVE  Progress(w)' /\ OthersFrame(w)
  <2>1. OthersFrame(w)
    BY <1>4 DEF TypeOK, StartRow, OthersFrame, Local
  <2>2. /\ current'[w] = j /\ left'[w] = facts
        /\ \A k \in Jobs : result'[w][k] = IF k = j THEN facts ELSE result[w][k]
    BY <1>4 DEF TypeOK
  <2>3. \A i \in result'[w][current'[w]] \ left'[w] : Covered(current[w], i)'
    BY <2>2
  <2>4. \A k \in Jobs : outcome'[w][k] = "ok" =>
          k \in linked' /\ \A i \in result'[w][k] : Covered(k, i)'
    BY <1>2, <1>4, <2>2 DEF Progress, Covered
  <2> QED
    BY <1>2, <2>1, <2>3, <2>4 DEF Progress, Covered
<1> QED
  BY <1>1, <1>3, <1>4 DEF StartRow

LEMMA RecordedProgress ==
  ASSUME TypeOK, NEW w \in Workers, Progress(w), NEW j \in Jobs, Recorded(w, j)
  PROVE  Progress(w)' /\ OthersFrame(w) /\ Kept
<1>1. Kept /\ UNCHANGED <<linked, audit, current, left, extended>>
  BY DEF Recorded, Kept, Covered, items
<1>2. OthersFrame(w)
  BY DEF TypeOK, Recorded, OthersFrame, Local
<1>3. \A k \in Jobs : /\ outcome'[w][k] = "ok" => outcome[w][k] = "ok"
                      /\ result'[w][k] \subseteq result[w][k]
  BY DEF TypeOK, Recorded
<1>4. current[w] # None => current[w] \in Jobs
  BY DEF TypeOK
<1> QED
  BY <1>1, <1>2, <1>3, <1>4 DEF Progress, Covered

LEMMA ProgressStep ==
  ASSUME ProgressInv, [Next]_vars PROVE ProgressInv' /\ Kept
<1>1. TypeOK /\ TypeOK' /\ \A w \in Workers : Progress(w)
  BY TypeStep DEF ProgressInv
<1>2. ASSUME NEW w \in Workers, Progress(w)', OthersFrame(w), Kept
      PROVE  ProgressInv' /\ Kept
  <2>1. \A v \in Workers \ {w} : Progress(v)'
    BY <1>1, <1>2, ProgressFrame DEF OthersFrame
  <2> QED
    BY <1>1, <1>2, <2>1 DEF ProgressInv
<1>3. ASSUME UNCHANGED locals, Kept PROVE ProgressInv' /\ Kept
  <2>1. \A w \in Workers : UNCHANGED Local(w)
    BY <1>3 DEF locals, Local
  <2> QED
    BY <1>1, <1>3, <2>1, ProgressFrame DEF ProgressInv
<1>4. ASSUME NEW w \in Workers, NEW due \in SUBSET Jobs, BeginClaim(w, due)
      PROVE  ProgressInv' /\ Kept
  <2>1. OthersFrame(w) /\ Kept /\ UNCHANGED <<outcome, result, current, left, extended>>
    BY <1>1, <1>4 DEF TypeOK, BeginClaim, OthersFrame, Local, Kept, Covered, items
  <2>2. Progress(w)'
    BY <1>1, <1>4, <2>1 DEF Progress, Covered, BeginClaim, items
  <2> QED
    BY <1>2, <2>1, <2>2
<1>5. ASSUME NEW w \in Workers, CommitClaim(w) PROVE ProgressInv' /\ Kept
  <2>1. OthersFrame(w) /\ Kept /\ UNCHANGED <<outcome, result, current, left, extended>>
    BY <1>1, <1>5 DEF TypeOK, CommitClaim, OthersFrame, Local, Kept, Covered, items
  <2>2. Progress(w)'
    BY <1>1, <1>5, <2>1 DEF Progress, Covered, CommitClaim, items
  <2> QED
    BY <1>2, <2>1, <2>2
<1>6. ASSUME NEW w \in Workers, NEW j \in Jobs, StartRow(w, j) PROVE ProgressInv' /\ Kept
  BY <1>1, <1>2, <1>6, StartProgress
<1>7. ASSUME NEW w \in Workers, NEW j \in Jobs, RecordSuccess(w, j) \/ RecordFailure(w, j)
      PROVE  ProgressInv' /\ Kept
  <2>1. Recorded(w, j)
    <3>1. CASE RecordSuccess(w, j)
      BY <3>1 DEF RecordSuccess
    <3>2. CASE RecordFailure(w, j)
      BY <3>2 DEF RecordFailure
    <3> QED
      BY <1>7, <3>1, <3>2
  <2> QED
    BY <1>1, <1>2, <2>1, RecordedProgress
<1>8. ASSUME NEW w \in Workers, ExtendLock(w) PROVE ProgressInv' /\ Kept
  <2>1. OthersFrame(w) /\ Kept /\ UNCHANGED <<outcome, result, current, left>>
        /\ current[w] # None
    BY <1>1, <1>8 DEF TypeOK, ExtendLock, OthersFrame, Local, Kept, Covered, items
  <2>2. Progress(w)'
    BY <1>1, <1>8, <2>1 DEF Progress, Covered, ExtendLock, items
  <2> QED
    BY <1>2, <2>1, <2>2
<1>9. ASSUME NEW w \in Workers, WriteLinks(w) PROVE ProgressInv' /\ Kept
  <2>1. Kept /\ current[w] # None /\ current[w] \in linked' /\ left[w] = {}
    BY <1>9 DEF WriteLinks, Kept, Covered, items
  <2> QED
    BY <1>1, <1>2, <1>9, <2>1, FinishProgress DEF WriteLinks, Outcomes
<1>10. ASSUME NEW w \in Workers, LoseRow(w) \/ FailRow(w) PROVE ProgressInv' /\ Kept
  <2>1. Kept /\ current[w] # None
    BY <1>10 DEF LoseRow, FailRow, Kept, Covered, items
  <2> QED
    BY <1>1, <1>2, <1>10, <2>1, FinishProgress DEF LoseRow, FailRow, Outcomes
<1>11. ASSUME NEW w \in Workers, NEW i \in Items, MarkNeedsReview(w, i)
       PROVE  ProgressInv' /\ Kept
  BY <1>1, <1>2, <1>11, MarkKeeps
<1>12. ASSUME NEW w \in Workers, (\E j \in Jobs : LoseLock(w, j)) \/ Crash(w)
       PROVE  ProgressInv' /\ Kept
  <2>1. Stop(w) /\ UNCHANGED <<linked, items>>
    BY <1>12 DEF LoseLock, Crash
  <2> QED
    BY <1>1, <1>2, <2>1, StopProgress
<1>13. ASSUME NEW j \in Jobs, Enqueue(j) \/ RetryDeadLetter(j) \/ ExpireOrphan(j) \/ Overrun(j)
       PROVE  ProgressInv' /\ Kept
  <2>1. UNCHANGED <<linked, items, locals>>
    BY <1>13 DEF Enqueue, RetryDeadLetter, ExpireOrphan, Overrun
  <2> QED
    BY <1>3, <2>1 DEF Kept, Covered, items
<1>14. ASSUME NEW i \in Items, Confirm(i) PROVE ProgressInv' /\ Kept
  <2>1. \A j \in Jobs, k \in Items : Covered(j, k) => Covered(j, k)'
    BY <1>1, <1>14 DEF TypeOK, Confirm, Covered
  <2> QED
    BY <1>3, <1>14, <2>1 DEF Confirm, Kept
<1>15. CASE UNCHANGED vars
  BY <1>3, <1>15 DEF vars, items, Kept, Covered
<1>16. CASE Step
  BY <1>4, <1>5, <1>6, <1>7, <1>8, <1>9, <1>10, <1>11, <1>12, <1>13, <1>14, <1>16 DEF Step
<1> QED
  BY <1>15, <1>16, NextIsStep

LEMMA ProgressInit == Init => ProgressInv
BY TypeInit DEF Init, ProgressInv, Progress, NoOutcome

(***************************************************************************)
(* A job is recorded as succeeded only with its links written and every    *)
(* item of the recorded answer marked, for any jobs, workers and bounds.   *)
(***************************************************************************)
THEOREM SuccessComplete == Spec => SuccessIsComplete
<1> DEFINE A == \A j \in Jobs : status[j] # "succeeded" /\ status'[j] = "succeeded" =>
                  /\ j \in linked
                  /\ \A i \in result[lockedBy[j]][j] : audit[j][i] \in {"marked", "stale"}
<1>1. ProgressInv /\ [Next]_vars => ProgressInv' /\ [A]_vars
  <2> SUFFICES ASSUME ProgressInv, [Next]_vars, NEW j \in Jobs,
                      status[j] # "succeeded", status'[j] = "succeeded"
               PROVE  /\ j \in linked
                      /\ \A i \in result[lockedBy[j]][j] : audit[j][i] \in {"marked", "stale"}
    BY ProgressStep
  <2> USE DEF ProgressInv
  <2>1. CASE UNCHANGED vars
    BY <2>1 DEF vars, rows
  <2>2. ASSUME NEW w \in Workers, NEW k \in Jobs, RecordSuccess(w, k)
        PROVE  /\ j \in linked
               /\ \A i \in result[lockedBy[j]][j] : audit[j][i] \in {"marked", "stale"}
    <3>1. status' = [status EXCEPT ![k] = "succeeded"] /\ lockedBy[k] = w
          /\ outcome[w][k] = "ok"
      BY <2>2 DEF RecordSuccess, LockedBy
    <3>2. j = k
      BY <3>1 DEF TypeOK
    <3> QED
      BY <3>1, <3>2 DEF Progress, Covered
  <2>3. ASSUME NEW w \in Workers, NEW k \in Jobs, RecordFailure(w, k) PROVE FALSE
    <3>1. \E o \in {"pending", "dead_letter"} : status' = [status EXCEPT ![k] = o]
      BY <2>3 DEF RecordFailure
    <3> QED
      BY <3>1 DEF TypeOK
  <2>4. ASSUME NEW w \in Workers,
               \/ \E due \in SUBSET Jobs : BeginClaim(w, due)
               \/ \E k \in Jobs : StartRow(w, k) \/ LoseLock(w, k)
               \/ ExtendLock(w) \/ WriteLinks(w) \/ LoseRow(w) \/ FailRow(w)
               \/ \E i \in Items : MarkNeedsReview(w, i)
               \/ Crash(w)
        PROVE  FALSE
    <3>1. UNCHANGED status
      BY <2>4 DEF BeginClaim, StartRow, LoseLock, ExtendLock, WriteLinks, LoseRow, FailRow,
                  MarkNeedsReview, Crash, rows
    <3> QED
      BY <3>1
  <2>5. ASSUME NEW w \in Workers, CommitClaim(w) PROVE FALSE
    BY <2>5 DEF CommitClaim, TypeOK
  <2>6. ASSUME NEW k \in Jobs, Enqueue(k) \/ RetryDeadLetter(k) \/ ExpireOrphan(k) \/ Overrun(k)
        PROVE  FALSE
    BY <2>6 DEF Enqueue, RetryDeadLetter, ExpireOrphan, Overrun, TypeOK
  <2>7. ASSUME NEW i \in Items, Confirm(i) PROVE FALSE
    BY <2>7 DEF Confirm, rows
  <2>8. CASE Step
    BY <2>2, <2>3, <2>4, <2>5, <2>6, <2>7, <2>8 DEF Step
  <2> QED
    BY <2>1, <2>8, NextIsStep
<1> QED
  BY <1>1, ProgressInit, PTL DEF Spec, SuccessIsComplete

-----------------------------------------------------------------------------
(* Overtaken workers                                                         *)

RowKept(j) ==
  /\ status'[j] = status[j] /\ lockedBy'[j] = lockedBy[j] /\ attempts'[j] = attempts[j]
  /\ (j \in linked') = (j \in linked)

LEMMA OwnSteps ==
  ASSUME ProgressInv, NEW w \in Workers,
         \/ \E due \in SUBSET Jobs : BeginClaim(w, due)
         \/ CommitClaim(w)
         \/ \E j \in Jobs : \/ StartRow(w, j) \/ RecordSuccess(w, j) \/ RecordFailure(w, j)
                            \/ LoseLock(w, j)
         \/ ExtendLock(w) \/ WriteLinks(w) \/ LoseRow(w) \/ FailRow(w)
         \/ \E i \in Items : MarkNeedsReview(w, i)
         \/ Crash(w)
  PROVE  /\ OthersFrame(w)
         /\ phase[w] = "working" =>
              \A j \in batch[w] : (status[j] = "processing" /\ lockedBy[j] = w) \/ RowKept(j)
<1> USE DEF ProgressInv
<1>1. ASSUME NEW due \in SUBSET Jobs, BeginClaim(w, due)
      PROVE  OthersFrame(w) /\ phase[w] # "working"
  BY <1>1 DEF TypeOK, BeginClaim, OthersFrame, Local
<1>2. ASSUME CommitClaim(w) PROVE OthersFrame(w) /\ phase[w] # "working"
  BY <1>2 DEF TypeOK, CommitClaim, OthersFrame, Local
<1>3. ASSUME UNCHANGED <<rows, linked>> PROVE \A j \in batch[w] : RowKept(j)
  BY <1>3 DEF rows, RowKept
<1>4. ASSUME NEW j \in Jobs, StartRow(w, j)
      PROVE  OthersFrame(w) /\ UNCHANGED <<rows, linked>>
  BY <1>4, StartProgress DEF StartRow
<1>5. ASSUME NEW k \in Jobs, RecordSuccess(w, k) \/ RecordFailure(w, k)
      PROVE  /\ OthersFrame(w)
             /\ \A j \in batch[w] :
                  (status[j] = "processing" /\ lockedBy[j] = w) \/ RowKept(j)
  <2>1. /\ Recorded(w, k) /\ LockedBy(k, w) /\ Unlock(k)
        /\ \E s \in {"pending", "succeeded", "dead_letter"} : status' = [status EXCEPT ![k] = s]
        /\ UNCHANGED attempts \/ attempts' = [attempts EXCEPT ![k] = @ + 1]
    <3>1. CASE RecordSuccess(w, k)
      BY <3>1 DEF RecordSuccess
    <3>2. CASE RecordFailure(w, k)
      BY <3>2 DEF RecordFailure
    <3> QED
      BY <1>5, <3>1, <3>2
  <2>2. OthersFrame(w) /\ UNCHANGED linked
    BY <2>1, RecordedProgress DEF Recorded
  <2>3. \A j \in Jobs \ {k} : status'[j] = status[j] /\ lockedBy'[j] = lockedBy[j]
    BY <2>1 DEF Unlock, TypeOK
  <2>4. \A j \in Jobs \ {k} : attempts'[j] = attempts[j]
    BY <2>1 DEF TypeOK
  <2>5. batch[w] \subseteq Jobs
    BY DEF TypeOK
  <2> QED
    BY <2>1, <2>2, <2>3, <2>4, <2>5 DEF LockedBy, RowKept
<1>6. ASSUME (\E j \in Jobs : LoseLock(w, j)) \/ Crash(w)
      PROVE  OthersFrame(w) /\ UNCHANGED <<rows, linked>>
  <2>1. Stop(w) /\ UNCHANGED <<rows, linked, items>>
    BY <1>6 DEF LoseLock, Crash
  <2> QED
    BY <2>1, StopProgress
<1>7. ASSUME ExtendLock(w) PROVE OthersFrame(w) /\ UNCHANGED <<rows, linked>>
  BY <1>7 DEF TypeOK, ExtendLock, OthersFrame, Local
<1>8. ASSUME WriteLinks(w)
      PROVE  /\ OthersFrame(w)
             /\ \A j \in batch[w] :
                  (status[j] = "processing" /\ lockedBy[j] = w) \/ RowKept(j)
  <2>1. UNCHANGED rows /\ linked' = linked \cup {current[w]} /\ LockedBy(current[w], w)
    BY <1>8 DEF WriteLinks
  <2>2. OthersFrame(w)
    BY <1>8 DEF TypeOK, WriteLinks, FinishRow, OthersFrame, Local
  <2>3. \A j \in batch[w] : j # current[w] => RowKept(j)
    BY <2>1 DEF rows, RowKept
  <2> QED
    BY <2>1, <2>2, <2>3 DEF LockedBy
<1>9. ASSUME LoseRow(w) \/ FailRow(w) PROVE OthersFrame(w) /\ UNCHANGED <<rows, linked>>
  BY <1>9 DEF TypeOK, LoseRow, FailRow, FinishRow, OthersFrame, Local
<1>10. ASSUME NEW i \in Items, MarkNeedsReview(w, i)
       PROVE  OthersFrame(w) /\ UNCHANGED <<rows, linked>>
  BY <1>10, MarkKeeps DEF MarkNeedsReview
<1> QED
  BY <1>1, <1>2, <1>3, <1>4, <1>5, <1>6, <1>7, <1>8, <1>9, <1>10

(***************************************************************************)
(* A worker that was overtaken leaves no trace in the row or its links,    *)
(* for any jobs, workers and bounds.                                       *)
(***************************************************************************)
THEOREM OvertakenHarmless == Spec => OvertakenLeavesNoTrace
<1> DEFINE A == \A w \in Workers : Acts(w) /\ phase[w] = "working" =>
                  \A j \in batch[w] :
                    \/ /\ status[j] = "processing" /\ lockedBy[j] = w
                    \/ /\ status'[j] = status[j] /\ lockedBy'[j] = lockedBy[j]
                       /\ attempts'[j] = attempts[j]
                       /\ (j \in linked') = (j \in linked)
<1>1. ProgressInv /\ [Next]_vars => ProgressInv' /\ [A]_vars
  <2> SUFFICES ASSUME ProgressInv, [Next]_vars, NEW w \in Workers, Acts(w), phase[w] = "working",
                      NEW j \in batch[w]
               PROVE  (status[j] = "processing" /\ lockedBy[j] = w) \/ RowKept(j)
    BY ProgressStep DEF RowKept
  <2>1. ASSUME UNCHANGED Local(w) PROVE FALSE
    BY <2>1 DEF Local, Acts
  <2>2. CASE UNCHANGED locals
    BY <2>1, <2>2 DEF locals, Local
  <2>3. ASSUME NEW v \in Workers,
               \/ \E due \in SUBSET Jobs : BeginClaim(v, due)
               \/ CommitClaim(v)
               \/ \E k \in Jobs : \/ StartRow(v, k) \/ RecordSuccess(v, k) \/ RecordFailure(v, k)
                                  \/ LoseLock(v, k)
               \/ ExtendLock(v) \/ WriteLinks(v) \/ LoseRow(v) \/ FailRow(v)
               \/ \E i \in Items : MarkNeedsReview(v, i)
               \/ Crash(v)
        PROVE  (status[j] = "processing" /\ lockedBy[j] = w) \/ RowKept(j)
    <3>1. /\ OthersFrame(v)
          /\ phase[v] = "working" =>
               \A k \in batch[v] : (status[k] = "processing" /\ lockedBy[k] = v) \/ RowKept(k)
      BY <2>3, OwnSteps
    <3>2. v = w
      BY <2>1, <3>1 DEF OthersFrame
    <3> QED
      BY <3>1, <3>2
  <2>4. CASE \/ \E k \in Jobs : Enqueue(k) \/ RetryDeadLetter(k) \/ ExpireOrphan(k) \/ Overrun(k)
             \/ \E i \in Items : Confirm(i)
    BY <2>2, <2>4 DEF Enqueue, RetryDeadLetter, ExpireOrphan, Overrun, Confirm
  <2>5. CASE Step
    BY <2>3, <2>4, <2>5 DEF Step
  <2>6. CASE UNCHANGED vars
    BY <2>2, <2>6 DEF vars
  <2> QED
    BY <2>5, <2>6, NextIsStep
<1> QED
  BY <1>1, ProgressInit, PTL DEF Spec, OvertakenLeavesNoTrace

-----------------------------------------------------------------------------
(* Confirmed items                                                           *)

(***************************************************************************)
(* An item is put into review only by a request that was not recorded      *)
(* before: one confirmed after a job marked it is not marked by that job   *)
(* again, however often it is delivered.                                   *)
(***************************************************************************)
THEOREM ConfirmedLasts == Spec => ConfirmedStaysConfirmed
<1> DEFINE A == \A i \in Items : item[i] = "active" /\ item'[i] = "needs_review" =>
                  \E j \in Jobs : audit[j][i] = "none" /\ audit'[j][i] = "marked"
<1>1. ProgressInv /\ [Next]_vars => ProgressInv' /\ [A]_vars
  <2> SUFFICES ASSUME ProgressInv, [Next]_vars, NEW i \in Items,
                      item[i] = "active", item'[i] = "needs_review"
               PROVE  \E j \in Jobs : audit[j][i] = "none" /\ audit'[j][i] = "marked"
    BY ProgressStep
  <2> USE DEF ProgressInv
  <2>1. ASSUME UNCHANGED items PROVE FALSE
    BY <2>1 DEF items
  <2>2. ASSUME NEW w \in Workers, NEW k \in Items, MarkNeedsReview(w, k)
        PROVE  \E j \in Jobs : audit[j][i] = "none" /\ audit'[j][i] = "marked"
    <3>1. current[w] \in Jobs
      BY <2>2 DEF MarkNeedsReview, Progress, TypeOK
    <3>2. /\ audit[current[w]][k] = "none"
          /\ item' = [item EXCEPT ![k] = "needs_review"]
          /\ audit' = [audit EXCEPT ![current[w]][k] = "marked"]
      BY <2>1, <2>2 DEF MarkNeedsReview, items
    <3>3. i = k
      BY <3>2 DEF TypeOK
    <3>4. audit'[current[w]][i] = "marked"
      BY <3>1, <3>2, <3>3 DEF TypeOK
    <3> QED
      BY <3>1, <3>2, <3>3, <3>4
  <2>3. ASSUME NEW k \in Items, Confirm(k) PROVE FALSE
    BY <2>3 DEF Confirm, TypeOK
  <2>4. CASE Step
    <3>1. ASSUME NEW w \in Workers,
                 \/ \E due \in SUBSET Jobs : BeginClaim(w, due)
                 \/ CommitClaim(w)
                 \/ \E j \in Jobs : StartRow(w, j) \/ LoseLock(w, j)
                 \/ ExtendLock(w) \/ WriteLinks(w) \/ LoseRow(w) \/ FailRow(w) \/ Crash(w)
          PROVE  UNCHANGED items
      BY <3>1 DEF BeginClaim, CommitClaim, StartRow, LoseLock, ExtendLock, WriteLinks,
                  LoseRow, FailRow, Crash
    <3>2. ASSUME NEW w \in Workers, NEW j \in Jobs, RecordSuccess(w, j) \/ RecordFailure(w, j)
          PROVE  UNCHANGED items
      <4>1. CASE RecordSuccess(w, j)
        BY <4>1 DEF RecordSuccess, Recorded
      <4>2. CASE RecordFailure(w, j)
        BY <4>2 DEF RecordFailure, Recorded
      <4> QED
        BY <3>2, <4>1, <4>2
    <3>3. ASSUME NEW j \in Jobs,
                 Enqueue(j) \/ RetryDeadLetter(j) \/ ExpireOrphan(j) \/ Overrun(j)
          PROVE  UNCHANGED items
      BY <3>3 DEF Enqueue, RetryDeadLetter, ExpireOrphan, Overrun
    <3> QED
      BY <2>1, <2>2, <2>3, <2>4, <3>1, <3>2, <3>3 DEF Step
  <2>5. CASE UNCHANGED vars
    BY <2>1, <2>5 DEF vars
  <2> QED
    BY <2>4, <2>5, NextIsStep
<1> QED
  BY <1>1, ProgressInit, PTL DEF Spec, ConfirmedStaysConfirmed

-----------------------------------------------------------------------------
(* Claims and the promise                                                    *)

\* A row that a claim has locked is in no other claim, and it stays open until the
\* claim commits: whoever would settle it waits.
ClaimsOK ==
  /\ \A w, v \in Workers, j \in Jobs : Claiming(w, j) /\ Claiming(v, j) => w = v
  /\ \A w \in Workers, j \in Jobs : Claiming(w, j) => status[j] \in {"pending", "processing"}

ClaimsInv == ProgressInv /\ ClaimsOK

\* No claim comes about.
NoNewClaim == \A w \in Workers, j \in Jobs : Claiming(w, j)' => Claiming(w, j)

\* What a step does to the status and the links of the rows.
StatusStep ==
  \/ UNCHANGED <<status, linked>>
  \/ /\ UNCHANGED status
     /\ \E j \in Jobs : status[j] = "processing" /\ linked' = linked \cup {j}
  \/ /\ UNCHANGED linked
     /\ \E S \in SUBSET Jobs :
          /\ \A j \in S : status[j] \in {"pending", "processing"}
          /\ status' = [j \in Jobs |-> IF j \in S THEN "processing" ELSE status[j]]
  \/ /\ UNCHANGED linked
     /\ \E j \in Jobs :
          \/ status[j] \in {"absent", "dead_letter"} /\ status' = [status EXCEPT ![j] = "pending"]
          \/ /\ status[j] = "processing" /\ Free(j)
             /\ \/ status' = [status EXCEPT ![j] = "succeeded"] /\ j \in linked
                \/ status' = [status EXCEPT ![j] = "dead_letter"]
                \/ status' = [status EXCEPT ![j] = "pending"]

LEMMA RowsOfOthers ==
  ASSUME ProgressInv, NEW w \in Workers, OthersFrame(w),
         \A j \in Jobs : Claiming(w, j)' => Claiming(w, j)
  PROVE  NoNewClaim
BY DEF OthersFrame, Local, NoNewClaim, Claiming

\* Of the steps of a worker only the beginning of a claim makes one.
LEMMA WorkerEffect ==
  ASSUME ClaimsInv, NEW w \in Workers,
         \/ CommitClaim(w)
         \/ \E j \in Jobs : \/ StartRow(w, j) \/ RecordSuccess(w, j) \/ RecordFailure(w, j)
                            \/ LoseLock(w, j)
         \/ ExtendLock(w) \/ WriteLinks(w) \/ LoseRow(w) \/ FailRow(w)
         \/ \E i \in Items : MarkNeedsReview(w, i)
         \/ Crash(w)
  PROVE  NoNewClaim /\ StatusStep
<1> USE DEF ClaimsInv
<1>0. OthersFrame(w)
  BY OwnSteps
<1>1. ASSUME UNCHANGED <<phase, batch>> PROVE NoNewClaim
  BY <1>1 DEF NoNewClaim, Claiming
<1>2. ASSUME phase'[w] # "claiming" PROVE NoNewClaim
  BY <1>0, <1>2, RowsOfOthers DEF Claiming
<1>3. ASSUME UNCHANGED <<rows, linked>> PROVE StatusStep
  BY <1>3 DEF rows, StatusStep
<1>4. CASE CommitClaim(w)
  <2>1. phase'[w] # "claiming"
    BY <1>4 DEF CommitClaim, ProgressInv, TypeOK
  <2>2. batch[w] \in SUBSET Jobs /\ \A j \in batch[w] : status[j] \in {"pending", "processing"}
    BY <1>4 DEF CommitClaim, ProgressInv, TypeOK, ClaimsOK, Claiming
  <2>3. /\ UNCHANGED linked
        /\ status' = [j \in Jobs |-> IF j \in batch[w] THEN "processing" ELSE status[j]]
    BY <1>4 DEF CommitClaim
  <2> QED
    BY <1>2, <2>1, <2>2, <2>3 DEF StatusStep
<1>5. ASSUME NEW j \in Jobs, StartRow(w, j) PROVE NoNewClaim /\ StatusStep
  BY <1>1, <1>3, <1>5 DEF StartRow
<1>6. ASSUME NEW j \in Jobs, RecordSuccess(w, j) \/ RecordFailure(w, j)
      PROVE  NoNewClaim /\ StatusStep
  <2>1. Recorded(w, j) /\ status[j] = "processing" /\ Free(j)
    <3>1. CASE RecordSuccess(w, j)
      BY <3>1 DEF RecordSuccess, LockedBy
    <3>2. CASE RecordFailure(w, j)
      BY <3>2 DEF RecordFailure, LockedBy
    <3> QED
      BY <1>6, <3>1, <3>2
  <2>2. phase'[w] # "claiming" /\ UNCHANGED linked
    BY <2>1 DEF Recorded, ProgressInv, TypeOK
  <2>3. \/ status' = [status EXCEPT ![j] = "succeeded"] /\ j \in linked
        \/ status' = [status EXCEPT ![j] = "dead_letter"]
        \/ status' = [status EXCEPT ![j] = "pending"]
    <3>1. CASE RecordSuccess(w, j)
      BY <3>1 DEF RecordSuccess, ProgressInv, Progress
    <3>2. CASE RecordFailure(w, j)
      BY <3>2 DEF RecordFailure
    <3> QED
      BY <1>6, <3>1, <3>2
  <2> QED
    BY <1>2, <2>1, <2>2, <2>3 DEF StatusStep
<1>7. CASE (\E j \in Jobs : LoseLock(w, j)) \/ Crash(w)
  <2>1. Stop(w) /\ UNCHANGED <<rows, linked>>
    BY <1>7 DEF LoseLock, Crash
  <2>2. phase'[w] # "claiming"
    BY <2>1 DEF Stop, ProgressInv, TypeOK
  <2> QED
    BY <1>2, <1>3, <2>1, <2>2
<1>8. CASE ExtendLock(w) \/ LoseRow(w) \/ FailRow(w)
  BY <1>1, <1>3, <1>8 DEF ExtendLock, LoseRow, FailRow, FinishRow
<1>9. CASE WriteLinks(w)
  <2>1. current[w] \in Jobs
    BY <1>9 DEF WriteLinks, ProgressInv, TypeOK
  <2>2. UNCHANGED <<phase, batch, status>> /\ status[current[w]] = "processing"
        /\ linked' = linked \cup {current[w]}
    BY <1>9 DEF WriteLinks, FinishRow, LockedBy, rows
  <2> QED
    BY <1>1, <2>1, <2>2 DEF StatusStep
<1>10. ASSUME NEW i \in Items, MarkNeedsReview(w, i) PROVE NoNewClaim /\ StatusStep
  BY <1>1, <1>3, <1>10 DEF MarkNeedsReview, Marked, FinishRow
<1> QED
  BY <1>4, <1>5, <1>6, <1>7, <1>8, <1>9, <1>10

\* Nor does what users, operators and time do.
LEMMA OthersEffect ==
  ASSUME \/ \E j \in Jobs : Enqueue(j) \/ RetryDeadLetter(j) \/ ExpireOrphan(j) \/ Overrun(j)
         \/ \E i \in Items : Confirm(i)
         \/ UNCHANGED vars
  PROVE  NoNewClaim /\ StatusStep
<1>1. UNCHANGED <<locals, linked>>
  BY DEF Enqueue, RetryDeadLetter, ExpireOrphan, Overrun, Confirm, vars
<1>2. NoNewClaim
  BY <1>1 DEF locals, NoNewClaim, Claiming
<1>3. \/ UNCHANGED status
      \/ \E j \in Jobs : /\ status[j] \in {"absent", "dead_letter"}
                         /\ status' = [status EXCEPT ![j] = "pending"]
  BY DEF Enqueue, RetryDeadLetter, ExpireOrphan, Overrun, Confirm, vars, rows
<1> QED
  BY <1>1, <1>2, <1>3 DEF StatusStep

LEMMA ClaimsStep ==
  ASSUME ClaimsInv, [Next]_vars
  PROVE  ClaimsInv' /\ StatusStep
<1>0. ProgressInv'
  BY ProgressStep DEF ClaimsInv
<1>1. ASSUME NEW w \in Workers, NEW due \in SUBSET Jobs, BeginClaim(w, due)
      PROVE  ClaimsOK' /\ StatusStep
  <2>1. UNCHANGED <<status, linked>>
    BY <1>1 DEF BeginClaim, rows
  <2>2. PICK S \in SUBSET {j \in Jobs : Claimable(j, due) /\ Free(j)} :
          batch' = [batch EXCEPT ![w] = S]
    BY <1>1 DEF BeginClaim
  <2>3. \A j \in S : Free(j) /\ status[j] \in {"pending", "processing"}
    BY <2>2 DEF Claimable
  <2>4. \A v \in Workers \ {w} : phase'[v] = phase[v] /\ batch'[v] = batch[v]
    BY <1>1, <2>2 DEF BeginClaim, ClaimsInv, ProgressInv, TypeOK
  <2>5. batch'[w] = S
    BY <2>2 DEF ClaimsInv, ProgressInv, TypeOK
  <2> QED
    BY <2>1, <2>3, <2>4, <2>5 DEF ClaimsInv, ClaimsOK, Claiming, Free, StatusStep
<1>2. ASSUME NoNewClaim, StatusStep PROVE ClaimsOK'
  <2>1. \A j \in Jobs : ~Free(j) /\ status[j] \in {"pending", "processing"}
                          => status'[j] \in {"pending", "processing"}
    BY <1>2 DEF StatusStep, ClaimsInv, ProgressInv, TypeOK
  <2> QED
    BY <1>2, <2>1 DEF NoNewClaim, ClaimsInv, ClaimsOK, Free
<1>3. CASE Step
  <2>1. ASSUME NEW w \in Workers,
               \/ CommitClaim(w)
               \/ \E j \in Jobs : \/ StartRow(w, j) \/ RecordSuccess(w, j)
                                  \/ RecordFailure(w, j) \/ LoseLock(w, j)
               \/ ExtendLock(w) \/ WriteLinks(w) \/ LoseRow(w) \/ FailRow(w)
               \/ \E i \in Items : MarkNeedsReview(w, i)
               \/ Crash(w)
        PROVE  ClaimsOK' /\ StatusStep
    BY <1>2, <2>1, WorkerEffect
  <2>2. CASE \/ \E j \in Jobs : Enqueue(j) \/ RetryDeadLetter(j) \/ ExpireOrphan(j) \/ Overrun(j)
             \/ \E i \in Items : Confirm(i)
    <3>1. NoNewClaim /\ StatusStep
      BY <2>2, OthersEffect
    <3> QED
      BY <1>0, <1>2, <3>1 DEF ClaimsInv
  <2> QED
    BY <1>0, <1>1, <1>3, <2>1, <2>2 DEF Step, ClaimsInv
<1>4. CASE UNCHANGED vars
  BY <1>0, <1>2, <1>4, OthersEffect DEF ClaimsInv
<1> QED
  BY <1>3, <1>4, NextIsStep

LEMMA ClaimsInit == Init => ClaimsInv
BY ProgressInit DEF Init, ClaimsInv, ClaimsOK, Claiming

(***************************************************************************)
(* Two claims that have not committed lock different rows, and a row they  *)
(* have locked is not settled, retried or requeued under their hands.      *)
(***************************************************************************)
THEOREM ClaimsExclusive == Spec => []ClaimsOK
<1>1. ClaimsInv /\ [Next]_vars => ClaimsInv'
  BY ClaimsStep
<1>2. ClaimsInv => ClaimsOK
  BY DEF ClaimsInv
<1> QED
  BY <1>1, <1>2, ClaimsInit, PTL DEF Spec

LEMMA PromisedInit == Init => Promise!Init
BY DEF Init, Promise!Init, PromisedState

LEMMA PromisedStep ==
  ASSUME TypeOK, StatusStep
  PROVE  [Promise!Next]_Promise!vars
<1> DEFINE state == [j \in Jobs |-> PromisedState(status[j])]
<1>0. status \in [Jobs -> {"absent", "pending", "processing", "succeeded", "dead_letter"}]
  BY DEF TypeOK
<1>1. CASE UNCHANGED <<status, linked>>
  BY <1>1 DEF Promise!vars
<1>2. ASSUME UNCHANGED status,
             NEW j \in Jobs, status[j] = "processing", linked' = linked \cup {j}
      PROVE  Promise!Next
  <2>1. \A k \in {j} : state[k] # "absent"
    BY <1>2 DEF PromisedState
  <2>2. Promise!Handle({j})
    BY <1>2, <2>1 DEF Promise!Handle
  <2>3. {j} \in SUBSET Jobs
    OBVIOUS
  <2> QED
    BY <2>2, <2>3 DEF Promise!Next
<1>3. ASSUME UNCHANGED linked, NEW S \in SUBSET Jobs,
             \A j \in S : status[j] \in {"pending", "processing"},
             status' = [j \in Jobs |-> IF j \in S THEN "processing" ELSE status[j]]
      PROVE  UNCHANGED Promise!vars
  <2>1. \A j \in Jobs : PromisedState(status'[j]) = PromisedState(status[j])
    BY <1>0, <1>3 DEF PromisedState
  <2> QED
    BY <1>3, <2>1 DEF Promise!vars
<1>4. ASSUME UNCHANGED linked, NEW j \in Jobs, status[j] \in {"absent", "dead_letter"},
             status' = [status EXCEPT ![j] = "pending"]
      PROVE  Promise!Next
  <2>1. state' = [state EXCEPT ![j] = "open"]
    BY <1>0, <1>4 DEF PromisedState
  <2>2. CASE status[j] = "absent"
    <3>1. Promise!Submit(j)
      BY <1>4, <2>1, <2>2 DEF Promise!Submit, PromisedState
    <3> QED
      BY <3>1 DEF Promise!Next
  <2>3. CASE status[j] = "dead_letter"
    <3>1. Promise!Reopen(j)
      BY <1>4, <2>1, <2>3 DEF Promise!Reopen, PromisedState
    <3> QED
      BY <3>1 DEF Promise!Next
  <2> QED
    BY <1>4, <2>2, <2>3
<1>5. ASSUME UNCHANGED linked, NEW j \in Jobs, status[j] = "processing",
             status' = [status EXCEPT ![j] = "succeeded"], j \in linked
      PROVE  Promise!Next
  <2>1. state[j] = "open" /\ state' = [state EXCEPT ![j] = "done"]
    BY <1>0, <1>5 DEF PromisedState
  <2>2. Promise!Finish(j)
    BY <1>5, <2>1 DEF Promise!Finish
  <2> QED
    BY <2>2 DEF Promise!Next
<1>6. ASSUME UNCHANGED linked, NEW j \in Jobs, status[j] = "processing",
             status' = [status EXCEPT ![j] = "dead_letter"]
      PROVE  Promise!Next
  <2>1. state[j] = "open" /\ state' = [state EXCEPT ![j] = "parked"]
    BY <1>0, <1>6 DEF PromisedState
  <2>2. Promise!GiveUp(j)
    BY <1>6, <2>1 DEF Promise!GiveUp
  <2> QED
    BY <2>2 DEF Promise!Next
<1>7. ASSUME UNCHANGED linked, NEW j \in Jobs, status[j] = "processing",
             status' = [status EXCEPT ![j] = "pending"]
      PROVE  UNCHANGED Promise!vars
  <2>1. state' = state
    BY <1>0, <1>7 DEF PromisedState
  <2> QED
    BY <1>7, <2>1 DEF Promise!vars
<1> HIDE DEF state
<1> QED
  BY <1>1, <1>2, <1>3, <1>4, <1>5, <1>6, <1>7, Zenon DEF StatusStep

(***************************************************************************)
(* The graph lane, with its batches, claims in flight, lost locks, crashes *)
(* and retries by operators, implements the at-least-once promise.         *)
(***************************************************************************)
THEOREM PromiseKept == Spec => KeepsPromise
<1>1. ClaimsInv /\ [Next]_vars => ClaimsInv' /\ [Promise!Next]_Promise!vars
  BY ClaimsStep, PromisedStep DEF ClaimsInv, ProgressInv
<1> QED
  BY <1>1, ClaimsInit, PromisedInit, PTL DEF Spec, KeepsPromise, Promise!Spec

================================================================================
