------------------------------ MODULE OutboxQueue ------------------------------
(***************************************************************************)
(* The transactional outbox: the table outbox_jobs, and the worker lanes   *)
(* that claim rows of it under an expiring lock, run a handler for each    *)
(* row outside any transaction, and record the outcome in a transaction of *)
(* its own.  Every unit-of-work transaction is one atomic step here; the   *)
(* handlers, which take seconds to minutes, are not: whatever happens      *)
(* while one runs (a lock that expires, another worker's claim, a crash)   *)
(* is a step of the model.                                                 *)
(*                                                                         *)
(* Clock values are abstracted to the two comparisons the code makes with  *)
(* them: due[j] is next_run_at <= now, and leased[j] is lock_expires_at >  *)
(* now.  The passing of time is the two actions that flip these.           *)
(***************************************************************************)
EXTENDS Naturals, FiniteSets

CONSTANTS
  Jobs,         \* rows that may be enqueued, one per idempotency key
  Processes,    \* worker processes (memwing-pipeline, memwing-worker)
  WorkerIds,    \* values of the --worker-id option
  Lanes,        \* the polling loops of the processes
  ProcessOf,    \* [Lanes -> Processes]
  WorkerIdOf,   \* [Processes -> WorkerIds]
  LaneJobs,     \* [Lanes -> SUBSET Jobs], the job_types filter of the lane
  AggregateOf,  \* the aggregate_key of a job
  MaxAttempts,  \* max_attempts of a row
  BatchLimit,   \* the limit of a claim
  MaxRedrives,  \* bound: operator retries of one row
  MaxCrashes,   \* bound: process crashes
  MaxOverruns,  \* bound: locks that expire under a lane still at work
  None

ASSUME ConstantsOK ==
  /\ ProcessOf \in [Lanes -> Processes]
  /\ WorkerIdOf \in [Processes -> WorkerIds]
  /\ LaneJobs \in [Lanes -> SUBSET Jobs]
  /\ MaxAttempts \in Nat \ {0}
  /\ BatchLimit \in Nat \ {0}
  /\ MaxRedrives \in Nat /\ MaxCrashes \in Nat /\ MaxOverruns \in Nat
  /\ None \notin Jobs /\ None \notin Lanes /\ None \notin WorkerIds

\* The lanes of one process poll for disjoint sets of job types.
ASSUME LanesDisjoint ==
  \A v, w \in Lanes : v # w /\ ProcessOf[v] = ProcessOf[w] =>
    LaneJobs[v] \cap LaneJobs[w] = {}

Statuses == {"absent", "pending", "processing", "succeeded", "dead_letter"}
Working  == {"handling", "returned", "raised"}
Phases   == {"idle", "ready", "down"} \cup Working

VARIABLES
  status, attempts, lockedBy, due, leased,   \* the rows of outbox_jobs
  phase, batch, current, snapshot, seenAggs, \* the locals of a lane's run_once
  handled,   \* history: jobs whose source event some handler run covered
  holder,    \* history: the lane whose claim of the row is the latest
  redriven,  \* history: operator retries of the row
  crashes, overruns                          \* counters of the bounds

rows  == <<status, attempts, lockedBy, due, leased, holder, redriven>>
lanes == <<phase, batch, current, snapshot, seenAggs>>
vars  == <<rows, lanes, handled, crashes, overruns>>

Id(w) == WorkerIdOf[ProcessOf[w]]

\* The rows a run of lane w still has to record.
InHand(w) == batch[w] \cup ({current[w]} \ {None})

Init ==
  /\ status   = [j \in Jobs |-> "absent"]
  /\ attempts = [j \in Jobs |-> 0]
  /\ lockedBy = [j \in Jobs |-> None]
  /\ due      = [j \in Jobs |-> FALSE]
  /\ leased   = [j \in Jobs |-> FALSE]
  /\ holder   = [j \in Jobs |-> None]
  /\ redriven = [j \in Jobs |-> 0]
  /\ phase    = [w \in Lanes |-> "idle"]
  /\ batch    = [w \in Lanes |-> {}]
  /\ current  = [w \in Lanes |-> None]
  /\ snapshot = [w \in Lanes |-> {}]
  /\ seenAggs = [w \in Lanes |-> {}]
  /\ handled  = {}
  /\ crashes  = 0
  /\ overruns = 0

-----------------------------------------------------------------------------
(* The repository: one transaction each.                                   *)

\* remember_event inserts the source event and its jobs; a second insert with
\* the same idempotency key returns the row that is there and changes nothing.
Enqueue(j) ==
  /\ status[j] = "absent"
  /\ status' = [status EXCEPT ![j] = "pending"]
  /\ due'    = [due EXCEPT ![j] = TRUE]
  /\ UNCHANGED <<attempts, lockedBy, leased, holder, redriven, lanes, handled,
                 crashes, overruns>>

\* Mutant: expired locks are not reclaimed.
Claimable_NoReclaim(j) == status[j] = "pending" /\ due[j]

Claimable(j) ==
  \/ status[j] = "pending" /\ due[j]
  \/ status[j] = "processing" /\ ~leased[j]

\* ORDER BY pending first, LIMIT BatchLimit.  Rows of the same status are
\* ordered by next_run_at, priority and created_at: any order, here.
ClaimedBatch(w, S) ==
  LET eligible == {j \in LaneJobs[w] : Claimable(j)}
      pending  == {j \in eligible : status[j] = "pending"}
  IN  /\ S \subseteq eligible
      /\ S # {}
      /\ Cardinality(S) <= BatchLimit
      /\ S = eligible \/ Cardinality(S) = BatchLimit
      /\ S \subseteq pending \/ pending \subseteq S

Claim(w, S) ==
  /\ phase[w] = "idle"
  /\ ClaimedBatch(w, S)
  /\ status'   = [j \in Jobs |-> IF j \in S THEN "processing" ELSE status[j]]
  /\ lockedBy' = [j \in Jobs |-> IF j \in S THEN Id(w) ELSE lockedBy[j]]
  /\ leased'   = [j \in Jobs |-> IF j \in S THEN TRUE ELSE leased[j]]
  /\ holder'   = [j \in Jobs |-> IF j \in S THEN w ELSE holder[j]]
  /\ phase'    = [phase EXCEPT ![w] = "ready"]
  /\ batch'    = [batch EXCEPT ![w] = S]
  /\ seenAggs' = [seenAggs EXCEPT ![w] = {}]
  /\ UNCHANGED <<attempts, due, redriven, current, snapshot, handled, crashes, overruns>>

\* Mutant: the owner is not compared.
LockedBy_AnyOwner(j, w) == status[j] = "processing"

\* _get_locked_job: the fence of mark_succeeded and mark_failed.
LockedBy(j, w) == status[j] = "processing" /\ lockedBy[j] = Id(w)

Unlock(j) ==
  /\ lockedBy' = [lockedBy EXCEPT ![j] = None]
  /\ leased'   = [leased EXCEPT ![j] = FALSE]
  /\ holder'   = [holder EXCEPT ![j] = None]
  /\ UNCHANGED redriven

MarkSucceeded(j) ==
  /\ status' = [status EXCEPT ![j] = "succeeded"]
  /\ Unlock(j)
  /\ UNCHANGED <<attempts, due>>

\* Mutants: a status the table does not know; an off-by-one in the budget.
MarkFailed_OtherStatus(j) ==
  /\ attempts' = [attempts EXCEPT ![j] = @ + 1]
  /\ status' = [status EXCEPT ![j] = "failed"]
  /\ UNCHANGED due
  /\ Unlock(j)
MarkFailed_OffByOne(j) ==
  /\ attempts' = [attempts EXCEPT ![j] = @ + 1]
  /\ status' = [status EXCEPT ![j] = IF attempts[j] >= MaxAttempts THEN "dead_letter"
                                                                ELSE "pending"]
  /\ UNCHANGED due
  /\ Unlock(j)

\* The retry is due retry_delay after run_at, which run_once read before the
\* handlers ran: it may be in the past already.
MarkFailed(j) ==
  /\ attempts' = [attempts EXCEPT ![j] = @ + 1]
  /\ \/ /\ attempts[j] + 1 >= MaxAttempts
        /\ status' = [status EXCEPT ![j] = "dead_letter"]
        /\ UNCHANGED due
     \/ /\ attempts[j] + 1 < MaxAttempts
        /\ status' = [status EXCEPT ![j] = "pending"]
        /\ \E past \in BOOLEAN : due' = [due EXCEPT ![j] = past]
  /\ Unlock(j)

\* ControlService.retry_job: the row runs again with the attempts it has.
RetryDeadLetter(j) ==
  /\ status[j] = "dead_letter"
  /\ redriven[j] < MaxRedrives
  /\ status'   = [status EXCEPT ![j] = "pending"]
  /\ due'      = [due EXCEPT ![j] = TRUE]
  /\ redriven' = [redriven EXCEPT ![j] = @ + 1]
  /\ UNCHANGED <<attempts, lockedBy, leased, holder, lanes, handled, crashes, overruns>>

-----------------------------------------------------------------------------
(* A lane's run_once, after its claim.                                     *)

\* _claimed_aggregate_source_event_ids: the rows of j's aggregate that are
\* being processed under this worker id when the handler starts.
AggregateRows(w, j) ==
  LET claimed == {k \in Jobs : AggregateOf[k] = AggregateOf[j] /\ LockedBy(k, w)}
  IN  IF claimed = {} THEN {j} ELSE claimed

StartHandler(w, j) ==
  /\ phase[w] = "ready"
  /\ j \in batch[w]
  /\ AggregateOf[j] \notin seenAggs[w]
  /\ batch'    = [batch EXCEPT ![w] = @ \ {j}]
  /\ current'  = [current EXCEPT ![w] = j]
  /\ snapshot' = [snapshot EXCEPT ![w] = AggregateRows(w, j)]
  /\ phase'    = [phase EXCEPT ![w] = "handling"]
  /\ UNCHANGED <<rows, seenAggs, handled, crashes, overruns>>

\* The scope-level handlers return at once for an aggregate this run has done.
SkipHandler(w, j) ==
  /\ phase[w] = "ready"
  /\ j \in batch[w]
  /\ AggregateOf[j] \in seenAggs[w]
  /\ batch'    = [batch EXCEPT ![w] = @ \ {j}]
  /\ current'  = [current EXCEPT ![w] = j]
  /\ phase'    = [phase EXCEPT ![w] = "returned"]
  /\ UNCHANGED <<rows, snapshot, seenAggs, handled, crashes, overruns>>

HandlerReturns(w) ==
  /\ phase[w] = "handling"
  /\ handled'  = handled \cup snapshot[w]
  /\ seenAggs' = [seenAggs EXCEPT ![w] = @ \cup {AggregateOf[current[w]]}]
  /\ snapshot' = [snapshot EXCEPT ![w] = {}]
  /\ phase'    = [phase EXCEPT ![w] = "returned"]
  /\ UNCHANGED <<rows, batch, current, crashes, overruns>>

\* Mutant: the aggregate is marked as done before its handler is awaited.
HandlerRaises_MarksSeen(w) ==
  /\ phase[w] = "handling"
  /\ snapshot' = [snapshot EXCEPT ![w] = {}]
  /\ phase'    = [phase EXCEPT ![w] = "raised"]
  /\ seenAggs' = [seenAggs EXCEPT ![w] = @ \cup {AggregateOf[current[w]]}]
  /\ UNCHANGED <<rows, batch, current, handled, crashes, overruns>>

HandlerRaises(w) ==
  /\ phase[w] = "handling"
  /\ snapshot' = [snapshot EXCEPT ![w] = {}]
  /\ phase'    = [phase EXCEPT ![w] = "raised"]
  /\ UNCHANGED <<rows, batch, current, seenAggs, handled, crashes, overruns>>

NextJob(w) ==
  /\ current' = [current EXCEPT ![w] = None]
  /\ phase'   = [phase EXCEPT ![w] = IF batch[w] = {} THEN "idle" ELSE "ready"]
  /\ UNCHANGED <<batch, snapshot, seenAggs>>

RecordSuccess(w) ==
  /\ phase[w] = "returned"
  /\ LockedBy(current[w], w)
  /\ MarkSucceeded(current[w])
  /\ NextJob(w)
  /\ UNCHANGED <<handled, crashes, overruns>>

RecordFailure(w) ==
  /\ phase[w] = "raised"
  /\ LockedBy(current[w], w)
  /\ MarkFailed(current[w])
  /\ NextJob(w)
  /\ UNCHANGED <<handled, crashes, overruns>>

\* The end of a process: every lane of it drops what it holds.
Stop(p) ==
  LET stopped == {w \in Lanes : ProcessOf[w] = p}
      Reset(f, v) == [w \in Lanes |-> IF w \in stopped THEN v ELSE f[w]]
  IN  /\ phase'    = Reset(phase, "down")
      /\ batch'    = Reset(batch, {})
      /\ current'  = Reset(current, None)
      /\ snapshot' = Reset(snapshot, {})
      /\ seenAggs' = Reset(seenAggs, {})

\* OutboxLockOwnershipError is caught nowhere: it leaves run_once, the lane's
\* loop and the gather of the process's lanes.
LoseLock(w) ==
  /\ phase[w] \in {"returned", "raised"}
  /\ ~LockedBy(current[w], w)
  /\ Stop(ProcessOf[w])
  /\ UNCHANGED <<rows, handled, crashes, overruns>>

Crash(p) ==
  /\ crashes < MaxCrashes
  /\ \E w \in Lanes : ProcessOf[w] = p /\ phase[w] # "down"
  /\ Stop(p)
  /\ crashes' = crashes + 1
  /\ UNCHANGED <<rows, handled, overruns>>

\* An operator or a service manager starts the process again.
Restart(p) ==
  /\ \E w \in Lanes : ProcessOf[w] = p
  /\ \A w \in Lanes : ProcessOf[w] = p => phase[w] = "down"
  /\ phase' = [w \in Lanes |-> IF ProcessOf[w] = p THEN "idle" ELSE phase[w]]
  /\ UNCHANGED <<rows, batch, current, snapshot, seenAggs, handled, crashes, overruns>>

-----------------------------------------------------------------------------
(* Time.                                                                   *)

BecomeDue(j) ==
  /\ status[j] = "pending" /\ ~due[j]
  /\ due' = [due EXCEPT ![j] = TRUE]
  /\ UNCHANGED <<status, attempts, lockedBy, leased, holder, redriven, lanes, handled,
                 crashes, overruns>>

\* No lane is at work on the row: its claimant crashed or lost another lock.
Orphaned(j) == \A w \in Lanes : j \notin InHand(w)

ExpireOrphan(j) ==
  /\ status[j] = "processing" /\ leased[j] /\ Orphaned(j)
  /\ leased' = [leased EXCEPT ![j] = FALSE]
  /\ UNCHANGED <<status, attempts, lockedBy, due, holder, redriven, lanes, handled,
                 crashes, overruns>>

Overrun(j) ==
  /\ status[j] = "processing" /\ leased[j] /\ ~Orphaned(j)
  /\ overruns < MaxOverruns
  /\ leased'   = [leased EXCEPT ![j] = FALSE]
  /\ overruns' = overruns + 1
  /\ UNCHANGED <<status, attempts, lockedBy, due, holder, redriven, lanes, handled, crashes>>

-----------------------------------------------------------------------------
LaneStep(w) ==
  \/ \E S \in SUBSET LaneJobs[w] : Claim(w, S)
  \/ \E j \in Jobs : StartHandler(w, j) \/ SkipHandler(w, j)
  \/ HandlerReturns(w)
  \/ HandlerRaises(w)
  \/ RecordSuccess(w)
  \/ RecordFailure(w)
  \/ LoseLock(w)

TimeStep(j) == BecomeDue(j) \/ ExpireOrphan(j)

Next ==
  \/ \E w \in Lanes : LaneStep(w)
  \/ \E p \in Processes : Crash(p) \/ Restart(p)
  \/ \E j \in Jobs : Enqueue(j) \/ RetryDeadLetter(j) \/ TimeStep(j) \/ Overrun(j)

Spec == Init /\ [][Next]_vars

\* A lane that runs makes progress (asyncio never starves a task), a stopped
\* process is started again, and time passes.
Fairness ==
  /\ \A w \in Lanes : WF_vars(LaneStep(w))
  /\ \A p \in Processes : WF_vars(Restart(p))
  /\ \A j \in Jobs : WF_vars(TimeStep(j))

FairSpec == Spec /\ Fairness

-----------------------------------------------------------------------------
\* Type invariant: rows have a status the table knows, lanes hold rows of the queue.
TypeOK ==
  /\ status   \in [Jobs -> Statuses]
  /\ attempts \in [Jobs -> Nat]
  /\ lockedBy \in [Jobs -> WorkerIds \cup {None}]
  /\ due      \in [Jobs -> BOOLEAN]
  /\ leased   \in [Jobs -> BOOLEAN]
  /\ holder   \in [Jobs -> Lanes \cup {None}]
  /\ redriven \in [Jobs -> Nat]
  /\ phase    \in [Lanes -> Phases]
  /\ batch    \in [Lanes -> SUBSET Jobs]
  /\ current  \in [Lanes -> Jobs \cup {None}]
  /\ \A w \in Lanes : phase[w] \in Working <=> current[w] # None
  /\ snapshot \in [Lanes -> SUBSET Jobs]
  /\ seenAggs \in [Lanes -> SUBSET {AggregateOf[j] : j \in Jobs}]
  /\ handled  \in SUBSET Jobs
  /\ crashes  \in Nat
  /\ overruns \in Nat

\* No two processes run under the same --worker-id.
DistinctWorkerIds ==
  \A p, q \in Processes : WorkerIdOf[p] = WorkerIdOf[q] => p = q

(***************************************************************************)
(* No job is recorded as succeeded unless a handler run covered its source *)
(* event, although a lane marks the other rows of an aggregate succeeded   *)
(* without running their handler, and rows change hands while it works.    *)
(***************************************************************************)
SucceededIsHandled == \A j \in Jobs : status[j] = "succeeded" => j \in handled

(***************************************************************************)
(* A lane that passes the lock check of the repository for a row it took   *)
(* is the lane whose claim of that row is the latest: a lock that expired  *)
(* and was taken over is never mistaken for one's own.                     *)
(***************************************************************************)
FenceIsSound ==
  \A w \in Lanes, j \in Jobs : j \in InHand(w) /\ LockedBy(j, w) => holder[j] = w

(***************************************************************************)
(* A row leaves "processing" only by the hand of its latest claimant,      *)
(* while that lane is recording an outcome.                                *)
(***************************************************************************)
OnlyTheHolderRecords ==
  [][\A j \in Jobs : status[j] = "processing" /\ status'[j] # "processing" =>
       \E w \in Lanes : /\ holder[j] = w
                        /\ current[w] = j
                        /\ phase[w] \in {"returned", "raised"}]_vars

(***************************************************************************)
(* A lock that has not expired is not taken from its holder.               *)
(***************************************************************************)
LiveLockIsRespected ==
  [][\A j \in Jobs : status[j] = "processing" /\ leased[j] /\ status'[j] = "processing" =>
       holder'[j] = holder[j]]_vars

(***************************************************************************)
(* A succeeded job stays succeeded: a late failure of a worker whose lock  *)
(* was taken over does not reopen it.                                      *)
(***************************************************************************)
SucceededIsFinal ==
  [][\A j \in Jobs : status[j] = "succeeded" => status'[j] = "succeeded"]_vars

(***************************************************************************)
(* A row is tried until MaxAttempts failures are recorded, and an operator *)
(* retry, which keeps the count, buys exactly one more: whatever workers   *)
(* crash or lose their lock in between, an open row has failures left to   *)
(* spend and a dead-lettered one has spent them all and no more.           *)
(***************************************************************************)
RetryBudget ==
  \A j \in Jobs :
    /\ status[j] \in {"pending", "processing"} => attempts[j] < MaxAttempts + redriven[j]
    /\ status[j] = "dead_letter" => attempts[j] = MaxAttempts + redriven[j]

(***************************************************************************)
(* Every enqueued job is settled, succeeded or in the dead-letter list, as *)
(* long as crashes and overruns cease.                                     *)
(***************************************************************************)
EveryJobSettles ==
  \A j \in Jobs : status[j] # "absent" ~> status[j] \in {"succeeded", "dead_letter"}

-----------------------------------------------------------------------------
(***************************************************************************)
(* The queue keeps the promise of AtLeastOnce: a row that is pending or    *)
(* processing is open, and which lane holds it is nobody's business.       *)
(***************************************************************************)
PromisedState(s) ==
  CASE s = "absent"      -> "absent"
    [] s = "succeeded"   -> "done"
    [] s = "dead_letter" -> "parked"
    [] OTHER             -> "open"

Promise == INSTANCE AtLeastOnce WITH state <- [j \in Jobs |-> PromisedState(status[j])]

KeepsPromise == Promise!Spec

=============================================================================
