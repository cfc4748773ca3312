-------------------------- MODULE OutboxQueue_proofs --------------------------
(***************************************************************************)
(* Proofs about OutboxQueue, for any jobs, lanes and processes.  The       *)
(* inductive invariant IInv says, beside the types, what a lane may        *)
(* conclude about the rows it still has in hand while others change them.  *)
(***************************************************************************)
EXTENDS OutboxQueue, TLAPS

\* A lane between runs holds nothing, and one in a run only rows of its types.
LocalsOK ==
  \A w \in Lanes :
    /\ phase[w] \in {"idle", "down"} => batch[w] = {}
    /\ InHand(w) \subseteq LaneJobs[w]

\* What a lane works on has been enqueued.
EnqueuedOK ==
  \A w \in Lanes : \A j \in InHand(w) \cup snapshot[w] : status[j] # "absent"

\* Of the rows in hand, those still locked belong to the handler run under
\* way, or were covered if their aggregate is done.
CoverageOK ==
  \A w \in Lanes :
    /\ phase[w] = "returned" => AggregateOf[current[w]] \in seenAggs[w]
    /\ \A j \in InHand(w) : LockedBy(j, w) =>
         /\ phase[w] = "handling" /\ AggregateOf[j] = AggregateOf[current[w]]
              => j \in snapshot[w]
         /\ AggregateOf[j] \in seenAggs[w] => j \in handled

\* After an operator retry exactly one failure is left.
BudgetOK ==
  \A j \in Jobs :
    /\ status[j] \in {"absent", "pending", "processing"} =>
         attempts[j] < MaxAttempts + redriven[j]
    /\ status[j] = "absent" => redriven[j] = 0
    /\ status[j] \in {"pending", "processing"} /\ redriven[j] > 0 =>
         attempts[j] + 1 = MaxAttempts + redriven[j]
    /\ status[j] = "dead_letter" => attempts[j] = MaxAttempts + redriven[j]

IInv ==
  /\ TypeOK
  /\ LocalsOK
  /\ EnqueuedOK
  /\ FenceIsSound
  /\ CoverageOK
  /\ SucceededIsHandled

-----------------------------------------------------------------------------
(* Types.                                                                  *)

LEMMA IdType == \A w \in Lanes : Id(w) \in WorkerIds /\ Id(w) # None
  BY ConstantsOK DEF Id

\* What Stop leaves a lane with.
LEMMA StopLocals ==
  ASSUME TypeOK, NEW p \in Processes, Stop(p), NEW w \in Lanes
  PROVE  \/ /\ phase'[w] = "down" /\ batch'[w] = {} /\ current'[w] = None
            /\ snapshot'[w] = {} /\ seenAggs'[w] = {}
         \/ /\ phase'[w] = phase[w] /\ batch'[w] = batch[w] /\ current'[w] = current[w]
            /\ snapshot'[w] = snapshot[w] /\ seenAggs'[w] = seenAggs[w]
  BY DEF TypeOK, Stop

LEMMA StopType ==
  ASSUME TypeOK, NEW p \in Processes, Stop(p)
  PROVE  /\ phase' \in [Lanes -> Phases] /\ batch' \in [Lanes -> SUBSET Jobs]
         /\ current' \in [Lanes -> Jobs \cup {None}]
         /\ snapshot' \in [Lanes -> SUBSET Jobs]
         /\ seenAggs' \in [Lanes -> SUBSET {AggregateOf[j] : j \in Jobs}]
         /\ \A w \in Lanes : phase'[w] \in Working <=> current'[w] # None
  BY DEF TypeOK, Stop, Phases, Working

LEMMA ClaimType ==
  ASSUME TypeOK, NEW w \in Lanes, NEW S \in SUBSET LaneJobs[w], Claim(w, S)
  PROVE  TypeOK'
<1>1. S \subseteq Jobs
  BY ConstantsOK
<1> QED
  BY <1>1, IdType, ConstantsOK DEF Claim, TypeOK, Statuses, Phases, Working

LEMMA MarkFailedType ==
  ASSUME TypeOK, NEW j \in Jobs, MarkFailed(j)
  PROVE  /\ status' \in [Jobs -> Statuses]
         /\ attempts' \in [Jobs -> Nat]
         /\ lockedBy' \in [Jobs -> WorkerIds \cup {None}]
         /\ due' \in [Jobs -> BOOLEAN]
         /\ leased' \in [Jobs -> BOOLEAN]
         /\ holder' \in [Jobs -> Lanes \cup {None}]
         /\ redriven' \in [Jobs -> Nat]
<1>1. /\ status' = [status EXCEPT ![j] = "dead_letter"] \/ status' = [status EXCEPT ![j] = "pending"]
      /\ due' = due \/ due' = [due EXCEPT ![j] = TRUE] \/ due' = [due EXCEPT ![j] = FALSE]
  <2>1. CASE attempts[j] + 1 >= MaxAttempts
    BY <2>1, Zenon DEF MarkFailed
  <2>2. CASE attempts[j] + 1 < MaxAttempts
    BY <2>2, Zenon DEF MarkFailed
  <2> QED
    BY <2>1, <2>2, Zenon DEF MarkFailed
<1>2. /\ attempts' = [attempts EXCEPT ![j] = @ + 1]
      /\ Unlock(j)
  BY Zenon DEF MarkFailed
<1>3. status' \in [Jobs -> Statuses]
  BY <1>1 DEF TypeOK, Statuses
<1>5. due' \in [Jobs -> BOOLEAN]
  BY <1>1 DEF TypeOK
<1>4. attempts' \in [Jobs -> Nat]
  BY <1>2 DEF TypeOK
<1> QED
  BY <1>2, <1>3, <1>4, <1>5 DEF TypeOK, Unlock

LEMMA TypeStep == TypeOK /\ [Next]_vars => TypeOK'
<1> SUFFICES ASSUME TypeOK, [Next]_vars PROVE TypeOK'
  OBVIOUS
<1> USE IdType, ConstantsOK DEF TypeOK, Statuses, Phases, Working, rows, lanes
<1>1. ASSUME NEW w \in Lanes, NEW S \in SUBSET LaneJobs[w], Claim(w, S) PROVE TypeOK'
  BY <1>1, ClaimType
<1>2. ASSUME NEW w \in Lanes, NEW j \in Jobs, StartHandler(w, j) PROVE TypeOK'
  BY <1>2 DEF StartHandler, AggregateRows
<1>3. ASSUME NEW w \in Lanes, NEW j \in Jobs, SkipHandler(w, j) PROVE TypeOK'
  BY <1>3 DEF SkipHandler
<1>4. ASSUME NEW w \in Lanes, HandlerReturns(w) PROVE TypeOK'
  BY <1>4 DEF HandlerReturns
<1>5. ASSUME NEW w \in Lanes, HandlerRaises(w) PROVE TypeOK'
  BY <1>5 DEF HandlerRaises
<1>6. ASSUME NEW w \in Lanes, RecordSuccess(w) PROVE TypeOK'
  BY <1>6 DEF RecordSuccess, MarkSucceeded, Unlock, NextJob
<1>7. ASSUME NEW w \in Lanes, RecordFailure(w) PROVE TypeOK'
  <2>1. current[w] \in Jobs
    BY <1>7 DEF RecordFailure
  <2>2. /\ MarkFailed(current[w]) /\ NextJob(w)
        /\ UNCHANGED <<handled, crashes, overruns>>
    BY <1>7 DEF RecordFailure
  <2> QED
    BY <2>1, <2>2, MarkFailedType DEF NextJob
<1>8. ASSUME NEW w \in Lanes, LoseLock(w) PROVE TypeOK'
  BY <1>8, StopType DEF LoseLock
<1>9. ASSUME NEW p \in Processes, Crash(p) PROVE TypeOK'
  BY <1>9, StopType DEF Crash
<1>10. ASSUME NEW p \in Processes, Restart(p) PROVE TypeOK'
  BY <1>10 DEF Restart
<1>11. ASSUME NEW j \in Jobs, Enqueue(j) PROVE TypeOK'
  BY <1>11 DEF Enqueue
<1>12. ASSUME NEW j \in Jobs, RetryDeadLetter(j) PROVE TypeOK'
  BY <1>12 DEF RetryDeadLetter
<1>13. ASSUME NEW j \in Jobs, TimeStep(j) \/ Overrun(j) PROVE TypeOK'
  <2>1. CASE BecomeDue(j)
    BY <2>1 DEF BecomeDue
  <2>2. CASE ExpireOrphan(j)
    BY <2>2 DEF ExpireOrphan
  <2>3. CASE Overrun(j)
    BY <2>3 DEF Overrun
  <2> QED BY <1>13, <2>1, <2>2, <2>3 DEF TimeStep
<1>14. CASE UNCHANGED vars
  BY <1>14 DEF vars
<1> QED
  BY <1>1, <1>2, <1>3, <1>4, <1>5, <1>6, <1>7, <1>8, <1>9, <1>10, <1>11, <1>12,
     <1>13, <1>14 DEF Next, LaneStep

\* Every state the queue reaches has the types of TypeOK.
THEOREM TypeCorrect == Spec => []TypeOK
<1>1. Init => TypeOK
  BY DEF Init, TypeOK, Statuses, Phases, Working
<1> QED
  BY <1>1, TypeStep, PTL DEF Spec

-----------------------------------------------------------------------------
(* The retry budget.                                                       *)

LEMMA BudgetStep == TypeOK /\ BudgetOK /\ [Next]_vars => BudgetOK'
<1> SUFFICES ASSUME TypeOK, BudgetOK, [Next]_vars PROVE BudgetOK'
  OBVIOUS
<1> DEFINE Same == UNCHANGED <<status, attempts, redriven>>
<1>0. Same => BudgetOK'
  BY DEF BudgetOK
<1>1. ASSUME NEW w \in Lanes, NEW S \in SUBSET LaneJobs[w], Claim(w, S) PROVE BudgetOK'
  <2>1. /\ UNCHANGED <<attempts, redriven>>
        /\ \A j \in S : status[j] \in {"pending", "processing"}
        /\ status' = [j \in Jobs |-> IF j \in S THEN "processing" ELSE status[j]]
    BY <1>1 DEF Claim, ClaimedBatch, Claimable
  <2> QED
    BY <2>1 DEF BudgetOK, TypeOK
<1>2. ASSUME NEW w \in Lanes, RecordSuccess(w) PROVE BudgetOK'
  <2>1. /\ UNCHANGED <<attempts, redriven>>
        /\ status' = [status EXCEPT ![current[w]] = "succeeded"]
    BY <1>2 DEF RecordSuccess, MarkSucceeded, Unlock
  <2> QED
    BY <2>1 DEF BudgetOK, TypeOK
<1>3. ASSUME NEW w \in Lanes, RecordFailure(w) PROVE BudgetOK'
  <2> DEFINE j == current[w]
  <2>1. /\ j \in Jobs /\ status[j] = "processing" /\ MarkFailed(j)
        /\ UNCHANGED redriven
        /\ attempts' = [attempts EXCEPT ![j] = @ + 1]
    BY <1>3 DEF RecordFailure, LockedBy, TypeOK, Working, MarkFailed, Unlock
  <2>2. CASE attempts[j] + 1 >= MaxAttempts
    <3>1. status' = [status EXCEPT ![j] = "dead_letter"]
      BY <2>1, <2>2, ConstantsOK DEF MarkFailed, TypeOK
    <3> QED
      BY <2>1, <2>2, <3>1, ConstantsOK DEF BudgetOK, TypeOK
  <2>3. CASE attempts[j] + 1 < MaxAttempts
    <3>1. status' = [status EXCEPT ![j] = "pending"]
      BY <2>1, <2>3, ConstantsOK DEF MarkFailed, TypeOK
    <3> QED
      BY <2>1, <2>3, <3>1, ConstantsOK DEF BudgetOK, TypeOK
  <2> QED
    BY <2>1, <2>2, <2>3, ConstantsOK DEF TypeOK
<1>4. ASSUME NEW j \in Jobs, Enqueue(j) PROVE BudgetOK'
  BY <1>4, ConstantsOK DEF Enqueue, BudgetOK, TypeOK
<1>5. ASSUME NEW j \in Jobs, RetryDeadLetter(j) PROVE BudgetOK'
  <2>1. /\ status[j] = "dead_letter" /\ UNCHANGED attempts
        /\ status' = [status EXCEPT ![j] = "pending"]
        /\ redriven' = [redriven EXCEPT ![j] = @ + 1]
    BY <1>5 DEF RetryDeadLetter
  <2>2. attempts[j] = MaxAttempts + redriven[j]
    BY <2>1 DEF BudgetOK
  <2> QED
    BY <2>1, <2>2, ConstantsOK DEF BudgetOK, TypeOK
<1>6. ASSUME NEW w \in Lanes, NEW j \in Jobs, StartHandler(w, j) \/ SkipHandler(w, j)
      PROVE  Same
  BY <1>6 DEF StartHandler, SkipHandler, rows
<1>7. ASSUME NEW w \in Lanes, HandlerReturns(w) \/ HandlerRaises(w) \/ LoseLock(w) PROVE Same
  BY <1>7 DEF HandlerReturns, HandlerRaises, LoseLock, rows
<1>8. ASSUME NEW p \in Processes, Crash(p) \/ Restart(p) PROVE Same
  BY <1>8 DEF Crash, Restart, rows
<1>9. ASSUME NEW j \in Jobs, TimeStep(j) \/ Overrun(j) PROVE Same
  BY <1>9 DEF TimeStep, BecomeDue, ExpireOrphan, Overrun
<1>10. CASE UNCHANGED vars
  BY <1>10, <1>0 DEF vars, rows
<1> QED
  BY <1>0, <1>1, <1>2, <1>3, <1>4, <1>5, <1>6, <1>7, <1>8, <1>9, <1>10
  DEF Next, LaneStep

\* An open row has failures left to spend, and a dead-lettered row has spent
\* MaxAttempts and one more for each operator retry.
THEOREM BudgetCorrect == Spec => []RetryBudget
<1>1. Init => BudgetOK
  BY ConstantsOK DEF Init, BudgetOK
<1>2. BudgetOK => RetryBudget
  BY DEF BudgetOK, RetryBudget
<1> QED
  BY <1>1, <1>2, BudgetStep, TypeCorrect, PTL DEF Spec

-----------------------------------------------------------------------------
(* Locks and coverage.                                                     *)

\* A claim never takes a row another lane could still record: under distinct
\* worker ids only a lane of the same process passes the fence, and the lanes
\* of a process poll for disjoint sets of rows.
LEMMA ClaimIsExclusive ==
  ASSUME DistinctWorkerIds, LocalsOK, NEW w \in Lanes, NEW S \in SUBSET LaneJobs[w],
         NEW v \in Lanes, v # w, NEW j \in InHand(v), j \in S
  PROVE  Id(v) # Id(w)
  BY ConstantsOK, LanesDisjoint DEF DistinctWorkerIds, LocalsOK, Id

LEMMA ClaimStep ==
  ASSUME DistinctWorkerIds, IInv, NEW w \in Lanes, NEW S \in SUBSET LaneJobs[w], Claim(w, S)
  PROVE  IInv'
<1>0. TypeOK'
  BY ClaimType DEF IInv
<1>1. S \subseteq Jobs /\ \A j \in S : status[j] \in {"pending", "processing"}
  BY ConstantsOK DEF Claim, ClaimedBatch, Claimable
<1>2. /\ status'   = [j \in Jobs |-> IF j \in S THEN "processing" ELSE status[j]]
      /\ lockedBy' = [j \in Jobs |-> IF j \in S THEN Id(w) ELSE lockedBy[j]]
      /\ holder'   = [j \in Jobs |-> IF j \in S THEN w ELSE holder[j]]
      /\ phase'    = [phase EXCEPT ![w] = "ready"]
      /\ batch'    = [batch EXCEPT ![w] = S]
      /\ seenAggs' = [seenAggs EXCEPT ![w] = {}]
      /\ phase[w] = "idle" /\ current[w] = None
      /\ UNCHANGED <<current, snapshot, handled>>
  BY DEF Claim, IInv, TypeOK, Working
<1>3. InHand(w)' = S
  BY <1>2 DEF InHand, IInv, TypeOK
<1>4. \A v \in Lanes : v # w => InHand(v)' = InHand(v)
  BY <1>2 DEF InHand, IInv, TypeOK
<1>5. \A v \in Lanes : v # w => \A j \in InHand(v) :
        LockedBy(j, v)' => LockedBy(j, v) /\ j \notin S
  <2> SUFFICES ASSUME NEW v \in Lanes, v # w, NEW j \in InHand(v), LockedBy(j, v)'
               PROVE  LockedBy(j, v) /\ j \notin S
    OBVIOUS
  <2>1. j \in Jobs
    BY DEF InHand, IInv, TypeOK
  <2>2. j \notin S
    BY <2>1, <1>2, ClaimIsExclusive DEF LockedBy, IInv, Id
  <2> QED
    BY <2>1, <2>2, <1>2 DEF LockedBy, Id
<1>6. LocalsOK'
  BY <1>2, <1>3, <1>4 DEF LocalsOK, IInv, TypeOK
<1>7. EnqueuedOK'
  <2> SUFFICES ASSUME NEW v \in Lanes, NEW j \in InHand(v)' \cup snapshot'[v]
               PROVE  status'[j] # "absent"
    BY DEF EnqueuedOK
  <2>1. j \in Jobs /\ (j \in S \/ j \in InHand(v) \cup snapshot[v])
    BY <1>0, <1>1, <1>2, <1>3, <1>4 DEF TypeOK, InHand
  <2> QED
    BY <2>1, <1>2 DEF IInv, EnqueuedOK
<1>8. FenceIsSound'
  <2> SUFFICES ASSUME NEW v \in Lanes, NEW j \in Jobs, j \in InHand(v)', LockedBy(j, v)'
               PROVE  holder'[j] = v
    BY DEF FenceIsSound
  <2>1. CASE v = w
    BY <2>1, <1>2, <1>3
  <2>2. CASE v # w
    BY <2>2, <1>2, <1>4, <1>5 DEF IInv, FenceIsSound
  <2> QED BY <2>1, <2>2
<1>9. CoverageOK'
  <2> SUFFICES ASSUME NEW v \in Lanes
               PROVE  /\ phase'[v] = "returned" => AggregateOf[current'[v]] \in seenAggs'[v]
                      /\ \A j \in InHand(v)' : LockedBy(j, v)' =>
                           /\ phase'[v] = "handling" /\ AggregateOf[j] = AggregateOf[current'[v]]
                                => j \in snapshot'[v]
                           /\ AggregateOf[j] \in seenAggs'[v] => j \in handled'
    BY DEF CoverageOK
  <2>1. CASE v = w
    BY <2>1, <1>2 DEF IInv, TypeOK
  <2>2. CASE v # w
    BY <2>2, <1>2, <1>4, <1>5 DEF IInv, TypeOK, CoverageOK
  <2> QED BY <2>1, <2>2
<1>10. SucceededIsHandled'
  BY <1>1, <1>2 DEF IInv, SucceededIsHandled
<1> QED
  BY <1>0, <1>6, <1>7, <1>8, <1>9, <1>10 DEF IInv

\* The rows change, but no lock is gained and nothing is handled or succeeds.
LEMMA RowsStep ==
  ASSUME IInv, TypeOK', UNCHANGED <<lanes, handled>>,
         \A j \in Jobs : /\ status[j] # "absent" => status'[j] # "absent"
                         /\ status'[j] = "succeeded" => status[j] = "succeeded"
                         /\ status'[j] = "processing" =>
                              /\ status[j] = "processing"
                              /\ lockedBy'[j] = lockedBy[j] /\ holder'[j] = holder[j]
  PROVE  IInv'
<1>1. \A v \in Lanes : InHand(v)' = InHand(v) /\ InHand(v) \subseteq Jobs
  BY DEF InHand, lanes, IInv, TypeOK
<1>2. \A v \in Lanes, j \in Jobs : LockedBy(j, v)' => LockedBy(j, v) /\ holder'[j] = holder[j]
  BY DEF LockedBy, Id
<1>3. LocalsOK'
  BY <1>1 DEF IInv, LocalsOK, lanes
<1>4. EnqueuedOK'
  BY <1>1 DEF IInv, EnqueuedOK, lanes, TypeOK
<1>5. FenceIsSound'
  BY <1>1, <1>2 DEF IInv, FenceIsSound
<1>6. CoverageOK'
  BY <1>1, <1>2 DEF IInv, CoverageOK, lanes
<1>7. SucceededIsHandled'
  BY DEF IInv, SucceededIsHandled
<1> QED
  BY <1>3, <1>4, <1>5, <1>6, <1>7 DEF IInv

\* A process stops: its lanes have nothing in hand any more.
LEMMA StopStep ==
  ASSUME IInv, TypeOK', NEW p \in Processes, Stop(p), UNCHANGED <<rows, handled>>
  PROVE  IInv'
<1>1. \A v \in Lanes, j \in Jobs : LockedBy(j, v)' = LockedBy(j, v)
  BY DEF LockedBy, Id, rows
<1>2. \A v \in Lanes :
        \/ phase'[v] = "down" /\ InHand(v)' = {} /\ snapshot'[v] = {} /\ batch'[v] = {}
        \/ /\ InHand(v)' = InHand(v) /\ phase'[v] = phase[v] /\ batch'[v] = batch[v]
           /\ current'[v] = current[v] /\ snapshot'[v] = snapshot[v]
           /\ seenAggs'[v] = seenAggs[v]
  BY StopLocals DEF InHand, IInv
<1>3. \A v \in Lanes : InHand(v) \subseteq Jobs
  BY DEF InHand, IInv, TypeOK
<1>4. LocalsOK'
  BY <1>2 DEF IInv, LocalsOK
<1>5. EnqueuedOK'
  BY <1>2 DEF IInv, EnqueuedOK, rows
<1>6. FenceIsSound'
  BY <1>1, <1>2, <1>3 DEF IInv, FenceIsSound, rows
<1>7. CoverageOK'
  BY <1>1, <1>2, <1>3 DEF IInv, CoverageOK
<1>8. SucceededIsHandled'
  BY DEF IInv, SucceededIsHandled, rows
<1> QED
  BY <1>4, <1>5, <1>6, <1>7, <1>8 DEF IInv

LEMMA StartStep ==
  ASSUME IInv, TypeOK', NEW w \in Lanes, NEW j \in Jobs, StartHandler(w, j)
  PROVE  IInv'
<1>1. /\ j \in batch[w] /\ phase[w] = "ready" /\ current[w] = None
      /\ batch' = [batch EXCEPT ![w] = @ \ {j}]
      /\ current' = [current EXCEPT ![w] = j]
      /\ snapshot' = [snapshot EXCEPT ![w] = AggregateRows(w, j)]
      /\ phase' = [phase EXCEPT ![w] = "handling"]
      /\ UNCHANGED <<rows, seenAggs, handled>>
  BY DEF StartHandler, IInv, TypeOK, Working
<1>2. \A v \in Lanes : InHand(v)' = InHand(v) /\ InHand(v) \subseteq Jobs
  BY <1>1, ConstantsOK DEF InHand, IInv, TypeOK
<1>3. \A v \in Lanes, k \in Jobs : LockedBy(k, v)' = LockedBy(k, v)
  BY <1>1 DEF LockedBy, Id, rows
<1>4. LocalsOK'
  BY <1>1, <1>2 DEF IInv, LocalsOK, TypeOK
<1>5. EnqueuedOK'
  <2>1. j \in InHand(w)
    BY <1>1 DEF InHand
  <2>2. \A k \in AggregateRows(w, j) : status[k] # "absent"
    BY <2>1 DEF AggregateRows, LockedBy, IInv, EnqueuedOK
  <2> QED
    BY <1>1, <1>2, <2>2 DEF IInv, EnqueuedOK, rows, TypeOK
<1>6. FenceIsSound'
  BY <1>1, <1>2, <1>3 DEF IInv, FenceIsSound, rows
<1>7. CoverageOK'
  <2> SUFFICES ASSUME NEW v \in Lanes
               PROVE  /\ phase'[v] = "returned" => AggregateOf[current'[v]] \in seenAggs'[v]
                      /\ \A k \in InHand(v) : LockedBy(k, v) =>
                           /\ phase'[v] = "handling" /\ AggregateOf[k] = AggregateOf[current'[v]]
                                => k \in snapshot'[v]
                           /\ AggregateOf[k] \in seenAggs'[v] => k \in handled'
    BY <1>2, <1>3 DEF CoverageOK
  <2>1. CASE v = w
    <3>1. \A k \in InHand(w) : LockedBy(k, w) /\ AggregateOf[k] = AggregateOf[j]
            => k \in AggregateRows(w, j)
      BY <1>2 DEF AggregateRows
    <3>2. /\ phase'[w] = "handling" /\ current'[w] = j /\ snapshot'[w] = AggregateRows(w, j)
          /\ seenAggs' = seenAggs /\ handled' = handled
      BY <1>1 DEF IInv, TypeOK
    <3> QED
      BY <2>1, <3>1, <3>2 DEF IInv, CoverageOK
  <2>2. CASE v # w
    BY <1>1, <2>2 DEF IInv, CoverageOK, TypeOK
  <2> QED BY <2>1, <2>2
<1>8. SucceededIsHandled'
  BY <1>1 DEF IInv, SucceededIsHandled, rows
<1> QED
  BY <1>4, <1>5, <1>6, <1>7, <1>8 DEF IInv

LEMMA SkipStep ==
  ASSUME IInv, TypeOK', NEW w \in Lanes, NEW j \in Jobs, SkipHandler(w, j)
  PROVE  IInv'
<1>1. /\ j \in batch[w] /\ phase[w] = "ready" /\ current[w] = None
      /\ AggregateOf[j] \in seenAggs[w]
      /\ batch' = [batch EXCEPT ![w] = @ \ {j}]
      /\ current' = [current EXCEPT ![w] = j]
      /\ phase' = [phase EXCEPT ![w] = "returned"]
      /\ UNCHANGED <<rows, snapshot, seenAggs, handled>>
  BY DEF SkipHandler, IInv, TypeOK, Working
<1>2. \A v \in Lanes : InHand(v)' = InHand(v) /\ InHand(v) \subseteq Jobs
  BY <1>1, ConstantsOK DEF InHand, IInv, TypeOK
<1>3. \A v \in Lanes, k \in Jobs : LockedBy(k, v)' = LockedBy(k, v)
  BY <1>1 DEF LockedBy, Id, rows
<1>4. LocalsOK'
  BY <1>1, <1>2 DEF IInv, LocalsOK, TypeOK
<1>5. EnqueuedOK'
  BY <1>1, <1>2 DEF IInv, EnqueuedOK, rows
<1>6. FenceIsSound'
  BY <1>1, <1>2, <1>3 DEF IInv, FenceIsSound, rows
<1>7. CoverageOK'
  BY <1>1, <1>2, <1>3 DEF IInv, CoverageOK, TypeOK
<1>8. SucceededIsHandled'
  BY <1>1 DEF IInv, SucceededIsHandled, rows
<1> QED
  BY <1>4, <1>5, <1>6, <1>7, <1>8 DEF IInv

LEMMA ReturnStep ==
  ASSUME IInv, TypeOK', NEW w \in Lanes, HandlerReturns(w)
  PROVE  IInv'
<1>1. /\ phase[w] = "handling" /\ current[w] \in Jobs
      /\ handled' = handled \cup snapshot[w]
      /\ seenAggs' = [seenAggs EXCEPT ![w] = @ \cup {AggregateOf[current[w]]}]
      /\ snapshot' = [snapshot EXCEPT ![w] = {}]
      /\ phase' = [phase EXCEPT ![w] = "returned"]
      /\ UNCHANGED <<rows, batch, current>>
  BY DEF HandlerReturns, IInv, TypeOK, Working
<1>2. \A v \in Lanes : InHand(v)' = InHand(v) /\ InHand(v) \subseteq Jobs
  BY <1>1 DEF InHand, IInv, TypeOK
<1>3. \A v \in Lanes, k \in Jobs : LockedBy(k, v)' = LockedBy(k, v)
  BY <1>1 DEF LockedBy, Id, rows
<1>4. LocalsOK'
  BY <1>1, <1>2 DEF IInv, LocalsOK, TypeOK
<1>5. EnqueuedOK'
  BY <1>1, <1>2 DEF IInv, EnqueuedOK, rows, TypeOK
<1>6. FenceIsSound'
  BY <1>1, <1>2, <1>3 DEF IInv, FenceIsSound, rows
<1>7. CoverageOK'
  <2> SUFFICES ASSUME NEW v \in Lanes
               PROVE  /\ phase'[v] = "returned" => AggregateOf[current'[v]] \in seenAggs'[v]
                      /\ \A k \in InHand(v) : LockedBy(k, v) =>
                           /\ phase'[v] = "handling" /\ AggregateOf[k] = AggregateOf[current'[v]]
                                => k \in snapshot'[v]
                           /\ AggregateOf[k] \in seenAggs'[v] => k \in handled'
    BY <1>2, <1>3 DEF CoverageOK
  <2>1. CASE v = w
    <3>1. seenAggs'[w] = seenAggs[w] \cup {AggregateOf[current[w]]}
      BY <1>1 DEF IInv, TypeOK
    <3>2. phase'[w] = "returned" /\ current'[w] = current[w]
      BY <1>1 DEF IInv, TypeOK
    <3>3. \A k \in InHand(w) : LockedBy(k, w) /\ AggregateOf[k] \in seenAggs'[w] => k \in handled'
      BY <1>1, <3>1 DEF IInv, CoverageOK
    <3> QED
      BY <2>1, <3>1, <3>2, <3>3
  <2>2. CASE v # w
    <3>1. /\ phase'[v] = phase[v] /\ current'[v] = current[v] /\ snapshot'[v] = snapshot[v]
          /\ seenAggs'[v] = seenAggs[v] /\ handled \subseteq handled'
      BY <1>1, <2>2 DEF IInv, TypeOK
    <3> QED
      BY <3>1 DEF IInv, CoverageOK
  <2> QED BY <2>1, <2>2
<1>8. SucceededIsHandled'
  BY <1>1 DEF IInv, SucceededIsHandled, rows
<1> QED
  BY <1>4, <1>5, <1>6, <1>7, <1>8 DEF IInv

LEMMA RaiseStep ==
  ASSUME IInv, TypeOK', NEW w \in Lanes, HandlerRaises(w)
  PROVE  IInv'
<1>1. /\ snapshot' = [snapshot EXCEPT ![w] = {}]
      /\ phase' = [phase EXCEPT ![w] = "raised"]
      /\ UNCHANGED <<rows, batch, current, seenAggs, handled>>
  BY DEF HandlerRaises
<1>2. \A v \in Lanes : InHand(v)' = InHand(v) /\ InHand(v) \subseteq Jobs
  BY <1>1 DEF InHand, IInv, TypeOK
<1>3. \A v \in Lanes, k \in Jobs : LockedBy(k, v)' = LockedBy(k, v)
  BY <1>1 DEF LockedBy, Id, rows
<1>4. LocalsOK'
  BY <1>1, <1>2 DEF IInv, LocalsOK, TypeOK
<1>5. EnqueuedOK'
  BY <1>1, <1>2 DEF IInv, EnqueuedOK, rows, TypeOK
<1>6. FenceIsSound'
  BY <1>1, <1>2, <1>3 DEF IInv, FenceIsSound, rows
<1>7. CoverageOK'
  BY <1>1, <1>2, <1>3 DEF IInv, CoverageOK, TypeOK
<1>8. SucceededIsHandled'
  BY <1>1 DEF IInv, SucceededIsHandled, rows
<1> QED
  BY <1>4, <1>5, <1>6, <1>7, <1>8 DEF IInv

\* Both outcomes are recorded for a row that passes the fence, and end its lock.
LEMMA RecordStep ==
  ASSUME IInv, TypeOK', NEW w \in Lanes, phase[w] \in Working,
         LockedBy(current[w], w), NextJob(w), Unlock(current[w]), UNCHANGED handled,
         NEW s \in {"succeeded", "pending", "dead_letter"},
         status' = [status EXCEPT ![current[w]] = s],
         s = "succeeded" => phase[w] = "returned"
  PROVE  IInv'
<1> DEFINE c == current[w]
<1>1. c \in Jobs /\ c # None /\ status[c] = "processing"
  BY ConstantsOK DEF LockedBy, IInv, TypeOK
<1>2. \A v \in Lanes, j \in Jobs : LockedBy(j, v)' => LockedBy(j, v) /\ j # c /\ holder'[j] = holder[j]
  BY <1>1 DEF LockedBy, Id, Unlock, IInv, TypeOK
<1>3. /\ current' = [current EXCEPT ![w] = None]
      /\ phase' = [phase EXCEPT ![w] = IF batch[w] = {} THEN "idle" ELSE "ready"]
      /\ UNCHANGED <<batch, snapshot, seenAggs>>
  BY DEF NextJob
<1>4. \A v \in Lanes : InHand(v)' \subseteq InHand(v) /\ InHand(v) \subseteq Jobs
  BY <1>1, <1>3 DEF InHand, IInv, TypeOK
<1>5. LocalsOK'
  <2>1. \A v \in Lanes : phase'[v] \in {"idle", "down"} => batch'[v] = {}
    BY <1>3 DEF IInv, LocalsOK, TypeOK
  <2> QED
    BY <2>1, <1>4 DEF IInv, LocalsOK
<1>6. EnqueuedOK'
  <2>1. \A j \in Jobs : status[j] # "absent" => status'[j] # "absent"
    BY <1>1 DEF IInv, TypeOK
  <2> QED
    BY <2>1, <1>3, <1>4 DEF IInv, EnqueuedOK, TypeOK
<1>7. FenceIsSound'
  BY <1>2, <1>4 DEF IInv, FenceIsSound
<1>8. CoverageOK'
  <2>1. \A v \in Lanes : phase'[v] \in Working => phase'[v] = phase[v] /\ current'[v] = current[v]
    BY <1>3 DEF IInv, TypeOK, Working
  <2> QED
    BY <2>1, <1>2, <1>3, <1>4 DEF IInv, CoverageOK, Working
<1>9. SucceededIsHandled'
  <2>1. s = "succeeded" => c \in handled
    BY <1>1 DEF IInv, CoverageOK, InHand
  <2> QED
    BY <2>1, <1>1 DEF IInv, SucceededIsHandled, TypeOK
<1> QED
  BY <1>5, <1>6, <1>7, <1>8, <1>9 DEF IInv

LEMMA InvStep == DistinctWorkerIds /\ IInv /\ [Next]_vars => IInv'
<1> SUFFICES ASSUME DistinctWorkerIds, IInv, [Next]_vars PROVE IInv'
  OBVIOUS
<1>0. TypeOK'
  BY TypeStep DEF IInv
<1>1. ASSUME NEW w \in Lanes, NEW S \in SUBSET LaneJobs[w], Claim(w, S) PROVE IInv'
  BY <1>1, ClaimStep
<1>2. ASSUME NEW w \in Lanes, NEW j \in Jobs, StartHandler(w, j) PROVE IInv'
  BY <1>0, <1>2, StartStep
<1>3. ASSUME NEW w \in Lanes, NEW j \in Jobs, SkipHandler(w, j) PROVE IInv'
  BY <1>0, <1>3, SkipStep
<1>4. ASSUME NEW w \in Lanes, HandlerReturns(w) PROVE IInv'
  BY <1>0, <1>4, ReturnStep
<1>5. ASSUME NEW w \in Lanes, HandlerRaises(w) PROVE IInv'
  BY <1>0, <1>5, RaiseStep
<1>6. ASSUME NEW w \in Lanes, RecordSuccess(w) PROVE IInv'
  <2>1. /\ phase[w] \in Working /\ LockedBy(current[w], w) /\ NextJob(w)
        /\ Unlock(current[w]) /\ UNCHANGED handled
        /\ status' = [status EXCEPT ![current[w]] = "succeeded"]
        /\ phase[w] = "returned"
    BY <1>6 DEF RecordSuccess, MarkSucceeded, Working
  <2> QED
    BY <1>0, <2>1, RecordStep
<1>7. ASSUME NEW w \in Lanes, RecordFailure(w) PROVE IInv'
  <2>1. /\ phase[w] \in Working /\ LockedBy(current[w], w) /\ NextJob(w)
        /\ MarkFailed(current[w]) /\ UNCHANGED handled
    BY <1>7 DEF RecordFailure, Working
  <2>2. Unlock(current[w])
    BY <2>1 DEF MarkFailed
  <2>3. PICK s \in {"pending", "dead_letter"} : status' = [status EXCEPT ![current[w]] = s]
    BY <2>1, Zenon DEF MarkFailed
  <2> QED
    BY <1>0, <2>1, <2>2, <2>3, RecordStep
<1>8. ASSUME NEW w \in Lanes, LoseLock(w) PROVE IInv'
  <2>1. ProcessOf[w] \in Processes
    BY ConstantsOK
  <2> QED
    BY <1>0, <1>8, <2>1, StopStep DEF LoseLock
<1>9. ASSUME NEW p \in Processes, Crash(p) PROVE IInv'
  BY <1>0, <1>9, StopStep DEF Crash
<1>10. ASSUME NEW p \in Processes, Restart(p) PROVE IInv'
  <2>1. /\ UNCHANGED <<rows, batch, current, snapshot, seenAggs, handled>>
        /\ \A v \in Lanes : phase'[v] = phase[v] \/ (phase[v] = "down" /\ phase'[v] = "idle")
    BY <1>10 DEF Restart, IInv, TypeOK
  <2>2. \A v \in Lanes : InHand(v)' = InHand(v) /\ InHand(v) \subseteq Jobs
    BY <2>1 DEF InHand, IInv, TypeOK
  <2>3. \A v \in Lanes, j \in Jobs : LockedBy(j, v)' = LockedBy(j, v)
    BY <2>1 DEF LockedBy, Id, rows
  <2>4. LocalsOK' /\ EnqueuedOK'
    BY <2>1, <2>2 DEF IInv, LocalsOK, EnqueuedOK, rows
  <2>5. FenceIsSound' /\ SucceededIsHandled'
    BY <2>1, <2>2, <2>3 DEF IInv, FenceIsSound, SucceededIsHandled, rows
  <2>6. CoverageOK'
    BY <2>1, <2>2, <2>3 DEF IInv, CoverageOK
  <2> QED
    BY <1>0, <2>4, <2>5, <2>6 DEF IInv
<1>11. ASSUME NEW j \in Jobs, Enqueue(j) PROVE IInv'
  <2>1. UNCHANGED <<lanes, handled, lockedBy, holder>> /\ status' = [status EXCEPT ![j] = "pending"]
    BY <1>11 DEF Enqueue
  <2> QED
    BY <1>0, <2>1, RowsStep DEF IInv, TypeOK
<1>12. ASSUME NEW j \in Jobs, RetryDeadLetter(j) PROVE IInv'
  <2>1. UNCHANGED <<lanes, handled, lockedBy, holder>> /\ status' = [status EXCEPT ![j] = "pending"]
    BY <1>12 DEF RetryDeadLetter
  <2> QED
    BY <1>0, <2>1, RowsStep DEF IInv, TypeOK
<1>13. ASSUME NEW j \in Jobs, TimeStep(j) \/ Overrun(j) PROVE IInv'
  <2>1. UNCHANGED <<lanes, handled, status, lockedBy, holder>>
    BY <1>13 DEF TimeStep, BecomeDue, ExpireOrphan, Overrun
  <2> QED
    BY <1>0, <2>1, RowsStep
<1>14. CASE UNCHANGED vars
  BY <1>0, <1>14, RowsStep DEF vars, rows
<1> QED
  BY <1>1, <1>2, <1>3, <1>4, <1>5, <1>6, <1>7, <1>8, <1>9, <1>10, <1>11, <1>12,
     <1>13, <1>14 DEF Next, LaneStep

LEMMA InvInit == Init => IInv
  BY ConstantsOK DEF Init, IInv, TypeOK, Statuses, Phases, Working, LocalsOK, EnqueuedOK,
     FenceIsSound, CoverageOK, SucceededIsHandled, InHand

LEMMA Invariance ==
  ASSUME DistinctWorkerIds
  PROVE  Spec => []IInv
<1>1. IInv /\ [Next]_vars => IInv'
  BY InvStep
<1> QED
  BY <1>1, InvInit, PTL DEF Spec

\* When worker ids are distinct, a job recorded as succeeded was covered by a
\* handler run that returned, whatever locks expired meanwhile.
THEOREM SucceededCorrect ==
  ASSUME DistinctWorkerIds
  PROVE  Spec => []SucceededIsHandled
<1>1. IInv => SucceededIsHandled
  BY DEF IInv
<1> QED
  BY <1>1, Invariance, PTL

\* When worker ids are distinct, the fence of the repository lets only the
\* latest claimant of a row pass.
THEOREM FenceCorrect ==
  ASSUME DistinctWorkerIds
  PROVE  Spec => []FenceIsSound
<1>1. IInv => FenceIsSound
  BY DEF IInv
<1> QED
  BY <1>1, Invariance, PTL

-----------------------------------------------------------------------------
(* What a step may do to the status of a row.                              *)

LEMMA StatusStep ==
  ASSUME IInv, [Next]_vars
  PROVE  \/ /\ UNCHANGED status
            /\ \E S \in SUBSET Jobs : /\ \A j \in S : status[j] # "absent"
                                      /\ handled' = handled \cup S
         \/ \E S \in SUBSET Jobs :
              /\ \A j \in S : status[j] \in {"pending", "processing"}
              /\ status' = [j \in Jobs |-> IF j \in S THEN "processing" ELSE status[j]]
              /\ UNCHANGED handled
         \/ \E w \in Lanes :
              /\ current[w] \in Jobs /\ status[current[w]] = "processing"
              /\ holder[current[w]] = w /\ phase[w] \in {"returned", "raised"}
              /\ UNCHANGED handled
              /\ \/ /\ status' = [status EXCEPT ![current[w]] = "succeeded"]
                    /\ current[w] \in handled
                 \/ status' = [status EXCEPT ![current[w]] = "pending"]
                 \/ status' = [status EXCEPT ![current[w]] = "dead_letter"]
         \/ \E j \in Jobs :
              /\ status[j] \in {"absent", "dead_letter"}
              /\ status' = [status EXCEPT ![j] = "pending"]
              /\ UNCHANGED handled
<1>1. ASSUME NEW w \in Lanes, NEW S \in SUBSET LaneJobs[w], Claim(w, S)
      PROVE  \E T \in SUBSET Jobs :
              /\ \A j \in T : status[j] \in {"pending", "processing"}
              /\ status' = [j \in Jobs |-> IF j \in T THEN "processing" ELSE status[j]]
              /\ UNCHANGED handled
  <2>1. S \in SUBSET Jobs
    BY ConstantsOK
  <2> WITNESS S \in SUBSET Jobs
  <2> QED
    BY <1>1, <2>1 DEF Claim, ClaimedBatch, Claimable
<1>2. ASSUME NEW w \in Lanes, RecordSuccess(w) \/ RecordFailure(w)
      PROVE  /\ current[w] \in Jobs /\ status[current[w]] = "processing"
             /\ holder[current[w]] = w /\ phase[w] \in {"returned", "raised"}
             /\ UNCHANGED handled
             /\ \/ /\ status' = [status EXCEPT ![current[w]] = "succeeded"]
                   /\ current[w] \in handled
                \/ status' = [status EXCEPT ![current[w]] = "pending"]
                \/ status' = [status EXCEPT ![current[w]] = "dead_letter"]
  <2>1. /\ current[w] \in Jobs /\ LockedBy(current[w], w) /\ UNCHANGED handled
        /\ phase[w] \in {"returned", "raised"} /\ current[w] \in InHand(w)
    BY <1>2 DEF RecordSuccess, RecordFailure, LockedBy, IInv, TypeOK, Working, InHand
  <2>2. holder[current[w]] = w /\ status[current[w]] = "processing"
    BY <2>1 DEF IInv, FenceIsSound, LockedBy
  <2>3. CASE RecordSuccess(w)
    BY <2>1, <2>2, <2>3 DEF RecordSuccess, MarkSucceeded, IInv, CoverageOK
  <2>4. CASE RecordFailure(w)
    <3>1. MarkFailed(current[w])
      BY <2>4 DEF RecordFailure
    <3>2. \/ status' = [status EXCEPT ![current[w]] = "pending"]
          \/ status' = [status EXCEPT ![current[w]] = "dead_letter"]
      BY <3>1, Zenon DEF MarkFailed
    <3> QED
      BY <2>1, <2>2, <3>2
  <2> QED BY <1>2, <2>3, <2>4
<1>3. ASSUME NEW j \in Jobs, Enqueue(j) \/ RetryDeadLetter(j)
      PROVE  /\ status[j] \in {"absent", "dead_letter"}
             /\ status' = [status EXCEPT ![j] = "pending"]
             /\ UNCHANGED handled
  BY <1>3 DEF Enqueue, RetryDeadLetter
<1>4. ASSUME UNCHANGED <<status, handled>>
      PROVE  /\ UNCHANGED status
             /\ \E S \in SUBSET Jobs : /\ \A j \in S : status[j] # "absent"
                                       /\ handled' = handled \cup S
  <2>1. handled' = handled \cup {}
    BY <1>4
  <2> QED BY <1>4, <2>1
<1>5. ASSUME NEW w \in Lanes, HandlerReturns(w)
      PROVE  /\ UNCHANGED status
             /\ \E S \in SUBSET Jobs : /\ \A j \in S : status[j] # "absent"
                                       /\ handled' = handled \cup S
  <2>1. snapshot[w] \in SUBSET Jobs /\ \A j \in snapshot[w] : status[j] # "absent"
    BY DEF IInv, TypeOK, EnqueuedOK
  <2>2. UNCHANGED status /\ handled' = handled \cup snapshot[w]
    BY <1>5 DEF HandlerReturns, rows
  <2> QED BY <2>1, <2>2
<1>6. ASSUME NEW w \in Lanes, NEW j \in Jobs, StartHandler(w, j) \/ SkipHandler(w, j)
      PROVE  UNCHANGED <<status, handled>>
  BY <1>6 DEF StartHandler, SkipHandler, rows
<1>7. ASSUME NEW w \in Lanes, HandlerRaises(w) \/ LoseLock(w)
      PROVE  UNCHANGED <<status, handled>>
  BY <1>7 DEF HandlerRaises, LoseLock, rows
<1>8. ASSUME NEW p \in Processes, Crash(p) \/ Restart(p) PROVE UNCHANGED <<status, handled>>
  BY <1>8 DEF Crash, Restart, rows
<1>9. ASSUME NEW j \in Jobs, TimeStep(j) \/ Overrun(j) PROVE UNCHANGED <<status, handled>>
  BY <1>9 DEF TimeStep, BecomeDue, ExpireOrphan, Overrun
<1>10. CASE UNCHANGED vars
  BY <1>4, <1>10 DEF vars, rows
<1> QED
  BY <1>1, <1>2, <1>3, <1>4, <1>5, <1>6, <1>7, <1>8, <1>9, <1>10 DEF Next, LaneStep

\* When worker ids are distinct, a row leaves "processing" only by the hand of
\* its latest claimant.
THEOREM RecordingCorrect ==
  ASSUME DistinctWorkerIds
  PROVE  Spec => OnlyTheHolderRecords
<1> DEFINE A == \A j \in Jobs : status[j] = "processing" /\ status'[j] # "processing" =>
                  \E w \in Lanes : /\ holder[j] = w
                                   /\ current[w] = j
                                   /\ phase[w] \in {"returned", "raised"}
<1>1. IInv /\ [Next]_vars => [A]_vars
  <2> SUFFICES ASSUME IInv, [Next]_vars, NEW j \in Jobs,
                      status[j] = "processing", status'[j] # "processing"
               PROVE  \E w \in Lanes : /\ holder[j] = w
                                       /\ current[w] = j
                                       /\ phase[w] \in {"returned", "raised"}
    OBVIOUS
  <2>1. status \in [Jobs -> Statuses]
    BY DEF IInv, TypeOK
  <2> QED
    BY <2>1, StatusStep
<1>2. Spec => []IInv
  BY Invariance
<1> QED
  BY <1>1, <1>2, PTL DEF Spec, OnlyTheHolderRecords

\* When worker ids are distinct, no step takes a job out of "succeeded".
THEOREM SuccessIsFinal ==
  ASSUME DistinctWorkerIds
  PROVE  Spec => SucceededIsFinal
<1>1. IInv /\ [Next]_vars =>
        [\A j \in Jobs : status[j] = "succeeded" => status'[j] = "succeeded"]_vars
  <2> SUFFICES ASSUME IInv, [Next]_vars, NEW j \in Jobs, status[j] = "succeeded"
               PROVE  status'[j] = "succeeded"
    OBVIOUS
  <2>1. status \in [Jobs -> Statuses]
    BY DEF IInv, TypeOK
  <2> QED
    BY <2>1, StatusStep
<1>2. Spec => []IInv
  BY Invariance
<1> QED
  BY <1>1, <1>2, PTL DEF Spec, SucceededIsFinal

\* Whatever the worker ids are, a lock that has not expired stays with its
\* holder until an outcome is recorded.
THEOREM LiveLockCorrect == Spec => LiveLockIsRespected
<1> DEFINE Respected(j) ==
      status[j] = "processing" /\ leased[j] /\ status'[j] = "processing" =>
        holder'[j] = holder[j]
<1>1. TypeOK /\ [Next]_vars => [\A j \in Jobs : Respected(j)]_vars
  <2> SUFFICES ASSUME TypeOK, [Next]_vars, NEW j \in Jobs PROVE Respected(j)
    OBVIOUS
  <2>1. ASSUME NEW w \in Lanes, NEW S \in SUBSET LaneJobs[w], Claim(w, S)
        PROVE  Respected(j)
    BY <2>1 DEF Claim, ClaimedBatch, Claimable, TypeOK
  <2>2. ASSUME NEW w \in Lanes, RecordSuccess(w) \/ RecordFailure(w)
        PROVE  Respected(j)
    <3>1. current[w] \in Jobs
      BY <2>2 DEF RecordSuccess, RecordFailure, TypeOK, Working
    <3>2. CASE RecordSuccess(w)
      BY <3>1, <3>2 DEF RecordSuccess, MarkSucceeded, Unlock, TypeOK
    <3>3. CASE RecordFailure(w)
      <4>1. MarkFailed(current[w])
        BY <3>3 DEF RecordFailure
      <4>2. /\ \/ status' = [status EXCEPT ![current[w]] = "pending"]
               \/ status' = [status EXCEPT ![current[w]] = "dead_letter"]
            /\ Unlock(current[w])
        BY <4>1, Zenon DEF MarkFailed
      <4> QED BY <3>1, <4>2 DEF Unlock, TypeOK
    <3> QED BY <2>2, <3>2, <3>3
  <2>3. ASSUME NEW k \in Jobs, Enqueue(k) \/ RetryDeadLetter(k) \/ TimeStep(k) \/ Overrun(k)
        PROVE  UNCHANGED holder
    BY <2>3 DEF Enqueue, RetryDeadLetter, TimeStep, BecomeDue, ExpireOrphan, Overrun
  <2>4. ASSUME NEW w \in Lanes,
               \/ \E k \in Jobs : StartHandler(w, k) \/ SkipHandler(w, k)
               \/ HandlerReturns(w) \/ HandlerRaises(w) \/ LoseLock(w)
        PROVE  UNCHANGED holder
    BY <2>4 DEF StartHandler, SkipHandler, HandlerReturns, HandlerRaises, LoseLock, rows
  <2>5. ASSUME NEW p \in Processes, Crash(p) \/ Restart(p)
        PROVE  UNCHANGED holder
    BY <2>5 DEF Crash, Restart, rows
  <2>6. CASE UNCHANGED vars
    BY <2>6 DEF vars, rows
  <2> QED
    BY <2>1, <2>2, <2>3, <2>4, <2>5, <2>6 DEF Next, LaneStep
<1> QED
  BY <1>1, TypeCorrect, PTL DEF Spec, LiveLockIsRespected

-----------------------------------------------------------------------------
(* The queue keeps the promise of AtLeastOnce.                             *)

LEMMA PromisedInit == Init => Promise!Init
  BY DEF Init, Promise!Init, PromisedState

LEMMA PromisedStep ==
  IInv /\ [Next]_vars => [Promise!Next]_Promise!vars
<1> SUFFICES ASSUME IInv, [Next]_vars
             PROVE  Promise!Next \/ UNCHANGED Promise!vars
  OBVIOUS
<1> DEFINE state == [j \in Jobs |-> PromisedState(status[j])]
<1>0. status \in [Jobs -> Statuses]
  BY DEF IInv, TypeOK
<1>1. ASSUME UNCHANGED status, NEW S \in SUBSET Jobs,
             \A j \in S : status[j] # "absent",
             handled' = handled \cup S
      PROVE  Promise!Next
  <2>1. \A j \in S : state[j] # "absent"
    <3>1. \A s \in Statuses : s # "absent" => PromisedState(s) # "absent"
      BY DEF PromisedState, Statuses
    <3>2. \A j \in S : state[j] = PromisedState(status[j])
      OBVIOUS
    <3> QED BY <1>0, <1>1, <3>1, <3>2
  <2>2. Promise!Handle(S)
    BY <1>1, <2>1 DEF Promise!Handle
  <2> QED BY <2>2 DEF Promise!Next
<1>2. CASE \E S \in SUBSET Jobs :
             /\ \A j \in S : status[j] \in {"pending", "processing"}
             /\ status' = [j \in Jobs |-> IF j \in S THEN "processing" ELSE status[j]]
             /\ UNCHANGED handled
  <2>1. \A j \in Jobs : PromisedState(status'[j]) = PromisedState(status[j])
    BY <1>0, <1>2 DEF PromisedState
  <2> QED BY <1>2, <2>1 DEF Promise!vars
<1>3. ASSUME NEW w \in Lanes,
             current[w] \in Jobs, status[current[w]] = "processing", UNCHANGED handled,
             \/ /\ status' = [status EXCEPT ![current[w]] = "succeeded"]
                /\ current[w] \in handled
             \/ status' = [status EXCEPT ![current[w]] = "pending"]
             \/ status' = [status EXCEPT ![current[w]] = "dead_letter"]
      PROVE  Promise!Next \/ UNCHANGED Promise!vars
  <2> DEFINE j == current[w]
  <2>0. state[j] = "open"
    BY <1>3 DEF PromisedState
  <2>1. CASE status' = [status EXCEPT ![j] = "succeeded"] /\ j \in handled
    <3>1. state' = [state EXCEPT ![j] = "done"]
      BY <1>0, <1>3, <2>1 DEF PromisedState
    <3>2. Promise!Finish(j)
      BY <1>3, <2>0, <2>1, <3>1 DEF Promise!Finish
    <3> QED BY <1>3, <3>2 DEF Promise!Next
  <2>2. CASE status' = [status EXCEPT ![j] = "pending"]
    <3>1. state' = state
      BY <1>0, <1>3, <2>2 DEF PromisedState
    <3> QED BY <1>3, <3>1 DEF Promise!vars
  <2>3. CASE status' = [status EXCEPT ![j] = "dead_letter"]
    <3>1. state' = [state EXCEPT ![j] = "parked"]
      BY <1>0, <1>3, <2>3 DEF PromisedState
    <3>2. Promise!GiveUp(j)
      BY <1>3, <2>0, <3>1 DEF Promise!GiveUp
    <3> QED BY <1>3, <3>2 DEF Promise!Next
  <2> QED BY <1>3, <2>1, <2>2, <2>3
<1>4. ASSUME NEW j \in Jobs,
             status[j] \in {"absent", "dead_letter"},
             status' = [status EXCEPT ![j] = "pending"],
             UNCHANGED handled
      PROVE  Promise!Next
  <2>1. state' = [state EXCEPT ![j] = "open"]
    BY <1>0, <1>4 DEF PromisedState
  <2>2. CASE status[j] = "absent"
    <3>1. Promise!Submit(j)
      BY <1>4, <2>1, <2>2 DEF Promise!Submit, PromisedState
    <3> QED BY <3>1 DEF Promise!Next
  <2>3. CASE status[j] = "dead_letter"
    <3>1. Promise!Reopen(j)
      BY <1>4, <2>1, <2>3 DEF Promise!Reopen, PromisedState
    <3> QED BY <3>1 DEF Promise!Next
  <2> QED BY <1>4, <2>2, <2>3
<1>5. CASE /\ UNCHANGED status
           /\ \E S \in SUBSET Jobs : /\ \A j \in S : status[j] # "absent"
                                     /\ handled' = handled \cup S
  BY <1>1, <1>5, Zenon
<1>6. CASE \E w \in Lanes :
             /\ current[w] \in Jobs /\ status[current[w]] = "processing"
             /\ holder[current[w]] = w /\ phase[w] \in {"returned", "raised"}
             /\ UNCHANGED handled
             /\ \/ /\ status' = [status EXCEPT ![current[w]] = "succeeded"]
                   /\ current[w] \in handled
                \/ status' = [status EXCEPT ![current[w]] = "pending"]
                \/ status' = [status EXCEPT ![current[w]] = "dead_letter"]
  BY <1>3, <1>6, Zenon
<1>7. CASE \E j \in Jobs :
             /\ status[j] \in {"absent", "dead_letter"}
             /\ status' = [status EXCEPT ![j] = "pending"]
             /\ UNCHANGED handled
  BY <1>4, <1>7, Zenon
<1> HIDE DEF state
<1> QED
  BY <1>2, <1>5, <1>6, <1>7, StatusStep, Zenon

\* When worker ids are distinct, the queue with its workers, locks, crashes and
\* retries implements the at-least-once promise.
THEOREM PromiseKept ==
  ASSUME DistinctWorkerIds
  PROVE  Spec => KeepsPromise
<1>1. Spec => []IInv
  BY Invariance
<1> QED
  BY <1>1, PromisedInit, PromisedStep, PTL DEF Spec, KeepsPromise, Promise!Spec

=============================================================================
