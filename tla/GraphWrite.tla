------------------------------ MODULE GraphWrite ------------------------------
(***************************************************************************)
(* The graph lane: the table graph_write_jobs, and the workers that claim  *)
(* rows of it project by project, have the graph backend ingest them (an   *)
(* LLM pipeline of minutes), mark for review the memory items whose facts  *)
(* the backend has invalidated, write the links from the memory item to    *)
(* the graph, and record the outcome.                                      *)
(*                                                                         *)
(* The transactions are those of Postgres.  A claim reads its snapshot and  *)
(* locks the rows it takes in one step and commits in another, and rows    *)
(* that a claim has locked are passed over by another claim and waited for *)
(* by other transactions.  Every other transaction is one step.            *)
(***************************************************************************)
EXTENDS Naturals, FiniteSets

CONSTANTS
  Jobs,         \* rows that may be enqueued
  KeyOf,        \* serialization_key, one per project, as its place in their order
  Workers,      \* graph lanes, one per process, each with a worker id of its own
  Items,        \* memory items whose facts the backend may invalidate
  MaxAttempts,  \* max_attempts, of each row
  BatchLimit,   \* batch_size
  MaxEvents,    \* bound: crashes, overruns and retries by operators, together
  None

ASSUME GraphConstants ==
  /\ KeyOf \in [Jobs -> Nat]
  /\ MaxAttempts \in [Jobs -> Nat \ {0}]
  /\ BatchLimit \in Nat \ {0}
  /\ MaxEvents \in Nat
  /\ None \notin Jobs /\ None \notin Workers

VARIABLES
  status, attempts, lockedBy, leased,  \* the rows of graph_write_jobs
  linked,     \* jobs whose memory_graph_links are written
  item,       \* the status of a memory item
  audit,      \* what the lifecycle has recorded under the key of a job and an item
  phase,      \* of a worker
  batch,      \* the rows it is claiming, then those of its run not recorded yet
  outcome,    \* what has become of a row of the run
  result,     \* items invalidated by what the backend has answered for a row
  current,    \* the row whose answer the worker is writing down, or None
  left,       \* items of it that remain to be marked
  extended,   \* whether the lock was checked for the next of them
  events      \* counter of the bound

rows   == <<status, attempts, lockedBy, leased>>
items  == <<item, audit>>
locals == <<phase, batch, outcome, result, current, left, extended>>
vars   == <<rows, linked, items, locals, events>>

NoOutcome == [j \in Jobs |-> "none"]
NoResult  == [j \in Jobs |-> {}]

Init ==
  /\ status   = [j \in Jobs |-> "absent"]
  /\ attempts = [j \in Jobs |-> 0]
  /\ lockedBy = [j \in Jobs |-> None]
  /\ leased   = [j \in Jobs |-> FALSE]
  /\ linked   = {}
  /\ item     = [i \in Items |-> "active"]
  /\ audit    = [j \in Jobs |-> [i \in Items |-> "none"]]
  /\ phase    = [w \in Workers |-> "idle"]
  /\ batch    = [w \in Workers |-> {}]
  /\ outcome  = [w \in Workers |-> NoOutcome]
  /\ result   = [w \in Workers |-> NoResult]
  /\ current  = [w \in Workers |-> None]
  /\ left     = [w \in Workers |-> {}]
  /\ extended = [w \in Workers |-> FALSE]
  /\ events   = 0

-----------------------------------------------------------------------------
(* The claim.                                                              *)

Enqueue(j) ==
  /\ status[j] = "absent"
  /\ status' = [status EXCEPT ![j] = "pending"]
  /\ UNCHANGED <<attempts, lockedBy, leased, linked, items, locals, events>>

\* Serialization keys with a row in work.
Blocked == {KeyOf[j] : j \in {k \in Jobs : status[k] = "processing" /\ leased[k]}}

\* Mutant: a row whose lock has expired is not claimed again.
Claimable_NoReclaim(j, due) ==
  /\ KeyOf[j] \notin Blocked
  /\ status[j] = "pending" /\ j \in due

\* due: the rows whose next_run_at has come.
Claimable(j, due) ==
  /\ KeyOf[j] \notin Blocked
  /\ \/ status[j] = "pending" /\ j \in due
     \/ status[j] = "processing"

\* ORDER BY serialization_key, expired rows first; any order among the others.
Place(j) == 2 * KeyOf[j] + (IF status[j] = "processing" THEN 1 ELSE 2)

\* The row is locked by a claim that has not committed.
Claiming(w, j) == phase[w] = "claiming" /\ j \in batch[w]

\* Mutant: nobody waits for a row that a claim has locked.
Free_Always(j) == TRUE

Free(j) == \A w \in Workers : ~Claiming(w, j)

AtWork(w, j) == j \in batch[w] /\ lockedBy[j] = w

\* FOR UPDATE SKIP LOCKED: the row may be locked for a moment by the worker that
\* has overrun it.
MaySkip(j) == \E v \in Workers : AtWork(v, j)

BeginClaim(w, due) ==
  LET rest == {j \in Jobs : Claimable(j, due) /\ Free(j)}
  IN  /\ phase[w] = "idle"
      /\ \E S \in (SUBSET rest) \ {{}} :
           /\ Cardinality(S) <= BatchLimit
           /\ \A j \in rest \ S :
                \/ MaySkip(j)
                \/ Cardinality(S) = BatchLimit /\ \A k \in S : Place(k) <= Place(j)
           /\ batch' = [batch EXCEPT ![w] = S]
      /\ phase' = [phase EXCEPT ![w] = "claiming"]
      /\ UNCHANGED <<rows, linked, items, outcome, result, current, left, extended, events>>

CommitClaim(w) ==
  /\ phase[w] = "claiming"
  /\ status'   = [j \in Jobs |-> IF j \in batch[w] THEN "processing" ELSE status[j]]
  /\ lockedBy' = [j \in Jobs |-> IF j \in batch[w] THEN w ELSE lockedBy[j]]
  /\ leased'   = [j \in Jobs |-> IF j \in batch[w] THEN TRUE ELSE leased[j]]
  /\ phase'    = [phase EXCEPT ![w] = "working"]
  /\ UNCHANGED <<attempts, linked, items, batch, outcome, result, current, left, extended, events>>

-----------------------------------------------------------------------------
(* GraphWriteProcessor.process_batch                                       *)

\* Mutant: the lock is not checked.
LockedBy_Unchecked(j, w) == TRUE

\* _get_locked_job
LockedBy(j, w) == status[j] = "processing" /\ lockedBy[j] = w

\* The backend has answered for the whole batch (one that times out is sent again
\* row by row): with an error for a row, or with a result, which is written down
\* by _complete_graph_result. What the answer was is chosen when it is used.
StartRow(w, j) ==
  /\ phase[w] = "working"
  /\ current[w] = None /\ j \in batch[w] /\ outcome[w][j] = "none"
  /\ \/ \E error \in {"transient", "permanent"} :
          /\ outcome' = [outcome EXCEPT ![w][j] = error]
          /\ UNCHANGED <<result, current, left>>
     \/ \E facts \in SUBSET Items :
          /\ result'  = [result EXCEPT ![w][j] = facts]
          /\ current' = [current EXCEPT ![w] = j]
          /\ left'    = [left EXCEPT ![w] = facts]
          /\ UNCHANGED outcome
  /\ UNCHANGED <<rows, linked, items, phase, batch, extended, events>>

FinishRow(w, o) ==
  /\ outcome'  = [outcome EXCEPT ![w][current[w]] = o]
  /\ current'  = [current EXCEPT ![w] = None]
  /\ left'     = [left EXCEPT ![w] = {}]
  /\ extended' = [extended EXCEPT ![w] = FALSE]
  /\ UNCHANGED <<phase, batch, result>>

\* The new expiry counts from the time of the claim: it is the one the row has.
ExtendLock(w) ==
  /\ current[w] # None /\ left[w] # {} /\ ~extended[w]
  /\ LockedBy(current[w], w) /\ Free(current[w])
  /\ extended' = [extended EXCEPT ![w] = TRUE]
  /\ UNCHANGED <<rows, linked, items, phase, batch, outcome, result, current, left, events>>

Marked(w, i) ==
  /\ left'     = [left EXCEPT ![w] = @ \ {i}]
  /\ extended' = [extended EXCEPT ![w] = FALSE]
  /\ UNCHANGED <<phase, batch, outcome, result, current>>

\* Mutants: a replay marks the item again; a rejection counts as done.
MarkNeedsReview_Again(w, i) ==
  LET j == current[w]
  IN  /\ extended[w] /\ i \in left[w]
      /\ item'  = [item EXCEPT ![i] = "needs_review"]
      /\ audit' = [audit EXCEPT ![j][i] = "marked"]
      /\ Marked(w, i)
      /\ UNCHANGED <<rows, linked, events>>
MarkNeedsReview_Ignores(w, i) ==
  LET j == current[w]
  IN  /\ extended[w] /\ i \in left[w]
      /\ \/ /\ audit[j][i] = "none" /\ item[i] = "active"
            /\ item'  = [item EXCEPT ![i] = "needs_review"]
            /\ audit' = [audit EXCEPT ![j][i] = "marked"]
         \/ /\ audit[j][i] = "none" /\ item[i] # "active"
            /\ audit' = [audit EXCEPT ![j][i] = "rejected"]
            /\ UNCHANGED item
         \/ /\ audit[j][i] # "none"
            /\ UNCHANGED items
      /\ Marked(w, i)
      /\ UNCHANGED <<rows, linked, events>>

\* LifecycleTransitionService.transition under the key of the job and the item:
\* a replay succeeds if the item is as the request left it, and what was once
\* rejected is rejected again.
MarkNeedsReview(w, i) ==
  LET j == current[w]
  IN  /\ extended[w] /\ i \in left[w]
      /\ \/ /\ audit[j][i] = "none" /\ item[i] = "active"
            /\ item'  = [item EXCEPT ![i] = "needs_review"]
            /\ audit' = [audit EXCEPT ![j][i] = "marked"]
            /\ Marked(w, i)
         \/ /\ audit[j][i] = "none" /\ item[i] # "active"
            /\ audit' = [audit EXCEPT ![j][i] = "rejected"]
            /\ FinishRow(w, "permanent")
            /\ UNCHANGED item
         \/ /\ audit[j][i] = "marked"
            /\ Marked(w, i)
            /\ UNCHANGED items
         \/ /\ audit[j][i] \in {"stale", "rejected"}
            /\ FinishRow(w, "permanent")
            /\ UNCHANGED items
      /\ UNCHANGED <<rows, linked, events>>

\* The transaction checks the lock before it writes.
WriteLinks(w) ==
  /\ current[w] # None /\ left[w] = {}
  /\ LockedBy(current[w], w) /\ Free(current[w])
  /\ linked' = linked \cup {current[w]}
  /\ FinishRow(w, "ok")
  /\ UNCHANGED <<rows, items, events>>

LoseRow(w) ==
  /\ current[w] # None /\ ~extended[w]
  /\ ~LockedBy(current[w], w)
  /\ FinishRow(w, "lost")
  /\ UNCHANGED <<rows, linked, items, events>>

\* A transaction that writes the answer down fails, some items marked already: the
\* failure is that of the row.
FailRow(w) ==
  /\ current[w] # None
  /\ FinishRow(w, "transient")
  /\ UNCHANGED <<rows, linked, items, events>>

-----------------------------------------------------------------------------
(* GraphWriteWorker.run_once, after the batch is processed.                *)

Recordable(w, j) ==
  /\ phase[w] = "working" /\ current[w] = None /\ j \in batch[w]
  /\ \A k \in batch[w] : outcome[w][k] # "none"

Unlock(j) ==
  /\ lockedBy' = [lockedBy EXCEPT ![j] = None]
  /\ leased'   = [leased EXCEPT ![j] = FALSE]

Recorded(w, j) ==
  /\ batch'   = [batch EXCEPT ![w] = @ \ {j}]
  /\ outcome' = [outcome EXCEPT ![w][j] = "none"]
  /\ result'  = [result EXCEPT ![w][j] = {}]
  /\ phase'   = [phase EXCEPT ![w] = IF batch[w] = {j} THEN "idle" ELSE "working"]
  /\ UNCHANGED <<linked, items, current, left, extended, events>>

RecordSuccess(w, j) ==
  /\ Recordable(w, j) /\ LockedBy(j, w) /\ Free(j)
  /\ outcome[w][j] = "ok"
  /\ status' = [status EXCEPT ![j] = "succeeded"]
  /\ Unlock(j)
  /\ Recorded(w, j)
  /\ UNCHANGED attempts

\* mark_failed for a transient failure, mark_dead_letter for a permanent one.
RecordFailure(w, j) ==
  /\ Recordable(w, j) /\ LockedBy(j, w) /\ Free(j)
  /\ \/ /\ outcome[w][j] = "permanent" \/ attempts[j] + 1 >= MaxAttempts[j]
        /\ status' = [status EXCEPT ![j] = "dead_letter"]
     \/ /\ outcome[w][j] = "transient" /\ attempts[j] + 1 < MaxAttempts[j]
        /\ status' = [status EXCEPT ![j] = "pending"]
  /\ outcome[w][j] \in {"transient", "permanent"}
  /\ attempts' = [attempts EXCEPT ![j] = @ + 1]
  /\ Unlock(j)
  /\ Recorded(w, j)

\* What happens at most MaxEvents times.
Event == events < MaxEvents /\ events' = events + 1

\* The process ends and is started again; nothing of the run is kept.
Stop(w) ==
  /\ phase'    = [phase EXCEPT ![w] = "idle"]
  /\ batch'    = [batch EXCEPT ![w] = {}]
  /\ outcome'  = [outcome EXCEPT ![w] = NoOutcome]
  /\ result'   = [result EXCEPT ![w] = NoResult]
  /\ current'  = [current EXCEPT ![w] = None]
  /\ left'     = [left EXCEPT ![w] = {}]
  /\ extended' = [extended EXCEPT ![w] = FALSE]

\* OutboxLockOwnershipError leaves run_once, with the rest of the batch.
LoseLock(w, j) ==
  /\ Recordable(w, j)
  /\ outcome[w][j] = "lost" \/ ~LockedBy(j, w)
  /\ Stop(w)
  /\ UNCHANGED <<rows, linked, items, events>>

Crash(w) ==
  /\ phase[w] # "idle"
  /\ Event
  /\ Stop(w)
  /\ UNCHANGED <<rows, linked, items>>

-----------------------------------------------------------------------------
(* Users, operators and time.                                              *)

\* A user confirms an item: the requests recorded before are stale. (Each is
\* recorded once: an item is marked, and confirmed, finitely often.)
Confirm(i) ==
  /\ item[i] = "needs_review"
  /\ item'  = [item EXCEPT ![i] = "active"]
  /\ audit' = [j \in Jobs |-> [audit[j] EXCEPT ![i] = IF @ = "marked" THEN "stale" ELSE @]]
  /\ UNCHANGED <<rows, linked, locals, events>>

\* Mutant: the row is given the name that the audit uses.
RetryDeadLetter_Named(j) ==
  /\ status[j] = "dead_letter"
  /\ Event
  /\ status' = [status EXCEPT ![j] = "retry"]
  /\ UNCHANGED <<attempts, lockedBy, leased, linked, items, locals>>

\* ControlService.retry_job
RetryDeadLetter(j) ==
  /\ status[j] = "dead_letter"
  /\ Event
  /\ status'   = [status EXCEPT ![j] = "pending"]
  /\ UNCHANGED <<attempts, lockedBy, leased, linked, items, locals>>

ExpireOrphan(j) ==
  /\ status[j] = "processing" /\ leased[j]
  /\ \A w \in Workers : ~AtWork(w, j)
  /\ leased' = [leased EXCEPT ![j] = FALSE]
  /\ UNCHANGED <<status, attempts, lockedBy, linked, items, locals, events>>

\* The backend takes longer than the lock lasts.
Overrun(j) ==
  /\ status[j] = "processing" /\ leased[j]
  /\ \E w \in Workers : AtWork(w, j)
  /\ Event
  /\ leased'   = [leased EXCEPT ![j] = FALSE]
  /\ UNCHANGED <<status, attempts, lockedBy, linked, items, locals>>

-----------------------------------------------------------------------------
WorkerStep(w) ==
  \/ BeginClaim(w, Jobs)
  \/ CommitClaim(w)
  \/ \E j \in Jobs : \/ StartRow(w, j) \/ RecordSuccess(w, j) \/ RecordFailure(w, j)
                     \/ LoseLock(w, j)
  \/ ExtendLock(w) \/ WriteLinks(w) \/ LoseRow(w) \/ FailRow(w)
  \/ \E i \in Items : MarkNeedsReview(w, i)

Next ==
  \/ \E w \in Workers : \/ WorkerStep(w) \/ Crash(w)
                        \/ \E due \in SUBSET Jobs : BeginClaim(w, due)
  \/ \E j \in Jobs : Enqueue(j) \/ RetryDeadLetter(j) \/ ExpireOrphan(j) \/ Overrun(j)
  \/ \E i \in Items : Confirm(i)

Spec == Init /\ [][Next]_vars

\* A worker makes progress (the backend's call has a timeout, and every row is
\* due in the end), and time passes.
Fairness ==
  /\ \A w \in Workers : WF_vars(WorkerStep(w))
  /\ \A j \in Jobs : WF_vars(ExpireOrphan(j))

FairSpec == Spec /\ Fairness

-----------------------------------------------------------------------------
Outcomes == {"none", "transient", "permanent", "ok", "lost"}

\* Type invariant: rows, claims, workers and what they have in hand.
TypeOK ==
  /\ status   \in [Jobs -> {"absent", "pending", "processing", "succeeded", "dead_letter"}]
  /\ attempts \in [Jobs -> Nat]
  /\ lockedBy \in [Jobs -> Workers \cup {None}]
  /\ leased   \in [Jobs -> BOOLEAN]
  /\ linked   \in SUBSET Jobs
  /\ item     \in [Items -> {"active", "needs_review"}]
  /\ audit    \in [Jobs -> [Items -> {"none", "marked", "stale", "rejected"}]]
  /\ phase    \in [Workers -> {"idle", "claiming", "working"}]
  /\ batch    \in [Workers -> SUBSET Jobs]
  /\ outcome  \in [Workers -> [Jobs -> Outcomes]]
  /\ result   \in [Workers -> [Jobs -> SUBSET Items]]
  /\ current  \in [Workers -> Jobs \cup {None}]
  /\ left     \in [Workers -> SUBSET Items]
  /\ extended \in [Workers -> BOOLEAN]
  /\ events   \in Nat

(***************************************************************************)
(* A job that is recorded as succeeded has its links, and every item that  *)
(* the recorded answer of the backend invalidates was marked for review in *)
(* its name, although marking is spread over several transactions and may  *)
(* have been begun by a worker that died or lost its lock.                 *)
(***************************************************************************)
SuccessIsComplete ==
  [][\A j \in Jobs : status[j] # "succeeded" /\ status'[j] = "succeeded" =>
       /\ j \in linked
       /\ \A i \in result[lockedBy[j]][j] : audit[j][i] \in {"marked", "stale"}]_vars

(***************************************************************************)
(* A worker that was overtaken while the backend was busy (its row has     *)
(* been claimed by another, or the other is done with it) leaves no trace  *)
(* of its run in the row or the links, whether it writes links or records  *)
(* a success or a failure.                                                 *)
(***************************************************************************)
Acts(w) == <<phase[w], batch[w], outcome[w], current[w], left[w], extended[w]>>'
             # <<phase[w], batch[w], outcome[w], current[w], left[w], extended[w]>>

OvertakenLeavesNoTrace ==
  [][\A w \in Workers : Acts(w) /\ phase[w] = "working" =>
       \A j \in batch[w] :
         \/ /\ status[j] = "processing" /\ lockedBy[j] = w
         \/ /\ status'[j] = status[j] /\ lockedBy'[j] = lockedBy[j]
            /\ attempts'[j] = attempts[j]
            /\ (j \in linked') = (j \in linked)]_vars

(***************************************************************************)
(* A job that is delivered again (after a crash, a lost lock, a retry)     *)
(* does not put back into review an item a user has confirmed since.       *)
(***************************************************************************)
ConfirmedStaysConfirmed ==
  [][\A i \in Items : item[i] = "active" /\ item'[i] = "needs_review" =>
       \E j \in Jobs : audit[j][i] = "none" /\ audit'[j][i] = "marked"]_vars

(***************************************************************************)
(* Every enqueued job succeeds or reaches the dead-letter list: a project  *)
(* is not blocked for good by a worker that crashed, was overtaken or      *)
(* overran its lock.                                                       *)
(***************************************************************************)
EveryJobSettles ==
  \A j \in Jobs : status[j] # "absent" ~> status[j] \in {"succeeded", "dead_letter"}

(***************************************************************************)
(* A project is written by one worker at a time: no two workers hold live  *)
(* locks on rows of one serialization key.                                 *)
(***************************************************************************)
OneWriterPerProject ==
  \A j, k \in Jobs :
    /\ status[j] = "processing" /\ leased[j] /\ status[k] = "processing" /\ leased[k]
    /\ KeyOf[j] = KeyOf[k]
    => lockedBy[j] = lockedBy[k]

-----------------------------------------------------------------------------
(***************************************************************************)
(* The graph lane keeps the promise of AtLeastOnce too, with claims that   *)
(* take a moment to commit and several rows to a run: a job is handled     *)
(* when its links are written, ends as succeeded only after that, is given *)
(* up to an operator, and no late claim, crash or lost lock reopens it.    *)
(***************************************************************************)
PromisedState(s) ==
  CASE s = "absent"      -> "absent"
    [] s = "succeeded"   -> "done"
    [] s = "dead_letter" -> "parked"
    [] OTHER             -> "open"

Promise == INSTANCE AtLeastOnce WITH
  state   <- [j \in Jobs |-> PromisedState(status[j])],
  handled <- linked

KeepsPromise == Promise!Spec

=============================================================================
