------------------------------ MODULE EventIntake ------------------------------
(***************************************************************************)
(* From a delivery to working memory: remember_event stores a source event *)
(* once, with its jobs; a lane appends an entry for it to the working      *)
(* memory of its thread; readiness checks tell a client when all of that   *)
(* has been done.  One project, and of an event's jobs the append job.     *)
(*                                                                         *)
(* With the Lite store a transaction is one step.  With Postgres the       *)
(* statements of an append, and those of a check, are steps of their own.  *)
(***************************************************************************)
EXTENDS Naturals, FiniteSets, FiniteSetsExt

CONSTANTS
  Payloads,     \* what is delivered, an element for each raw_payload_hash
  Key,          \* [Payloads -> runtime_event_idempotency_key or None]
  Threads,
  Thread,       \* [Payloads -> Threads \cup {None}]
  Workers,      \* working-memory lanes, each of a process of its own
  Questions,    \* the sets of events a client waits for
  Stores,       \* the stores in question, of "lite" and "postgres"
  MaxAttempts,  \* max_attempts of a job
  MaxFaults,    \* bound: crashes, overruns, retries by operators, together
  None

ASSUME IntakeConstants ==
  /\ None \notin Threads /\ None \notin Workers /\ None \notin Payloads
  /\ Thread \in [Payloads -> Threads \cup {None}] /\ DOMAIN Key = Payloads
  /\ IsFiniteSet(Payloads) /\ Questions \subseteq (SUBSET Payloads) \ {{}}
  /\ Stores \subseteq {"lite", "postgres"}
  /\ MaxAttempts \in Nat \ {0} /\ MaxFaults \in Nat

VARIABLES
  store,       \* the store in use
  stored,      \* source events, by the payload they were stored from
  purged,      \* purged source events
  entry,       \* the sequence number of an event's entry, 0 if it has none
  taken,       \* sequence numbers that are in the unique index of a thread
  job, attempts, lockedBy,     \* the append job of an event
  phase, doing, number, ok,    \* a lane: its event, the number it read, the outcome
  raced,       \* history: events whose appends ran side by side in a thread
  asked, found, settled,       \* a check: the events asked for, those it has
                               \* found, whether their jobs have succeeded
  checking,    \* how far it is
  ready,       \* its result: the last check has said ready
  faults       \* counter of the bound

rows   == <<entry, taken>>
jobs   == <<job, attempts, lockedBy>>
locals == <<phase, doing, number, ok>>
check  == <<asked, found, settled, checking, ready>>
vars   == <<store, stored, purged, rows, jobs, locals, raced, check, faults>>

Init ==
  /\ store \in Stores
  /\ stored = {} /\ purged = {} /\ raced = {}
  /\ entry    = [e \in Payloads |-> 0]
  /\ taken    = [t \in Threads \cup {None} |-> {}]
  /\ job      = [e \in Payloads |-> "none"]
  /\ attempts = [e \in Payloads |-> 0]
  /\ lockedBy = [e \in Payloads |-> None]
  /\ phase    = [w \in Workers |-> "idle"]
  /\ doing    = [w \in Workers |-> None]
  /\ number   = [w \in Workers |-> 0]
  /\ ok       = [w \in Workers |-> FALSE]
  /\ asked = {} /\ found = {} /\ settled = FALSE /\ checking = "idle" /\ ready = FALSE
  /\ faults = 0

-----------------------------------------------------------------------------
(* remember_event, create_manual_memory.                                   *)

\* Mutant: the idempotency key of an agent's event is not compared.
Matches_Hash(p, e) == p = e

\* A stored event with the same payload hash or the same idempotency key.
Matches(p, e) == p = e \/ (Key[p] # None /\ Key[p] = Key[e])

\* The scope was resolved before.  A duplicate changes nothing and is answered like
\* the original; a purged event is still there to be found.
Deliver(p) ==
  /\ IF \E e \in stored : Matches(p, e)
     THEN UNCHANGED <<stored, job>>
     ELSE /\ stored' = stored \cup {p}
          /\ job' = [job EXCEPT ![p] = "open"]
  /\ UNCHANGED <<store, purged, rows, attempts, lockedBy, locals, raced, check, faults>>

\* The entry of a purged event stays as it is.
PurgeSource(e) ==
  /\ e \in stored \ purged
  /\ purged' = purged \cup {e}
  /\ UNCHANGED <<store, stored, rows, jobs, locals, raced, check, faults>>

-----------------------------------------------------------------------------
(* The append job.                                                         *)

Fault == faults < MaxFaults /\ faults' = faults + 1

\* Mutant: a dead-lettered row is claimed again.
Claimable_Dead(e) == job[e] \in {"open", "dead"} /\ lockedBy[e] = None

Claimable(e) == job[e] = "open" /\ lockedBy[e] = None

Claim(w, e) ==
  /\ phase[w] = "idle" /\ Claimable(e)
  /\ lockedBy' = [lockedBy EXCEPT ![e] = w]
  /\ phase' = [phase EXCEPT ![w] = "append"]
  /\ doing' = [doing EXCEPT ![w] = e]
  /\ UNCHANGED <<store, stored, purged, rows, job, attempts, number, ok, raced, check, faults>>

InThread(t) == {e \in Payloads : Thread[e] = t /\ entry[e] # 0}

\* Mutant: the next number is the number of entries, not the highest in use.
NextSequence_Count(t) == Cardinality(InThread(t)) + 1

NextSequence(t) == Max({entry[e] : e \in InThread(t)} \cup {0}) + 1

\* Mutant: there is no unique index.
Conflicts_Never(e, n) == FALSE

\* A number that the unique index does not admit: with Postgres events without
\* a thread are not compared.
Conflicts(e, n) == n \in taken[Thread[e]] /\ (store = "lite" \/ Thread[e] # None)

\* With Lite an entry takes the place of the one its event has; with Postgres the
\* primary key forbids another.  Nothing is done about a number in use.
Inserts(e, n) == ~Conflicts(e, n) /\ (store = "lite" \/ entry[e] = 0)

AppendEntry(e, n) ==
  IF Inserts(e, n)
  THEN /\ entry' = [entry EXCEPT ![e] = n]
       /\ taken' = [taken EXCEPT ![Thread[e]] = @ \cup {n}]
  ELSE UNCHANGED rows

\* The append raises no error.
Appends(e, n) == Inserts(e, n) \/ Conflicts(e, n)

HandlerEnds(w, good) ==
  /\ phase'  = [phase EXCEPT ![w] = "done"]
  /\ ok'     = [ok EXCEPT ![w] = good]
  /\ number' = [number EXCEPT ![w] = 0]
  /\ UNCHANGED doing

\* With Lite the transaction is one step.
Append(w) ==
  /\ phase[w] = "append" /\ store = "lite"
  /\ LET e == doing[w]  n == NextSequence(Thread[e])
     IN  AppendEntry(e, n) /\ HandlerEnds(w, Appends(e, n))
  /\ UNCHANGED <<store, stored, purged, jobs, raced, check, faults>>

\* Lanes that have read the next number of the thread and not used it yet.
Beside(w) ==
  {v \in Workers \ {w} : /\ phase[v] = "insert" /\ Thread[doing[v]] = Thread[doing[w]]
                         /\ Thread[doing[w]] # None}

ReadSequence(w) ==
  /\ phase[w] = "append" /\ store = "postgres"
  /\ number' = [number EXCEPT ![w] = NextSequence(Thread[doing[w]])]
  /\ phase'  = [phase EXCEPT ![w] = "insert"]
  /\ raced'  = IF Beside(w) = {} THEN raced ELSE raced \cup {doing[v] : v \in Beside(w) \cup {w}}
  /\ UNCHANGED <<store, stored, purged, rows, jobs, doing, ok, check, faults>>

InsertEntry(w) ==
  /\ phase[w] = "insert"
  /\ AppendEntry(doing[w], number[w])
  /\ HandlerEnds(w, Appends(doing[w], number[w]))
  /\ UNCHANGED <<store, stored, purged, jobs, raced, check, faults>>

\* A statement of the handler raises: its transaction is undone.
HandlerRaises(w) ==
  /\ phase[w] \in {"append", "insert"}
  /\ HandlerEnds(w, FALSE)
  /\ UNCHANGED <<store, stored, purged, rows, jobs, raced, check, faults>>

Leave(w) ==
  /\ phase'  = [phase EXCEPT ![w] = "idle"]
  /\ doing'  = [doing EXCEPT ![w] = None]
  /\ number' = [number EXCEPT ![w] = 0]
  /\ ok'     = [ok EXCEPT ![w] = FALSE]

\* Mutant: a failure does not count as an attempt.
Failed_Uncounted(e) == attempts[e]

Failed(e) == attempts[e] + 1

\* The outcome is recorded if the lock is still the lane's own.
RecordOutcome(w) ==
  LET e == doing[w]
      n == IF ok[w] THEN attempts[e] ELSE Failed(e)
  IN  /\ phase[w] = "done"
      /\ IF lockedBy[e] # w THEN UNCHANGED jobs
         ELSE /\ job' = [job EXCEPT ![e] = IF ok[w] THEN "done"
                                           ELSE IF n < MaxAttempts THEN "open" ELSE "dead"]
              /\ attempts' = [attempts EXCEPT ![e] = n]
              /\ lockedBy' = [lockedBy EXCEPT ![e] = None]
      /\ Leave(w)
      /\ UNCHANGED <<store, stored, purged, rows, raced, check, faults>>

Crash(w) ==
  /\ phase[w] # "idle"
  /\ Fault
  /\ Leave(w)
  /\ UNCHANGED <<store, stored, purged, rows, jobs, raced, check>>

AtWork(e) == \E w \in Workers : lockedBy[e] = w /\ phase[w] # "idle" /\ doing[w] = e

\* The lock of a lane that has crashed expires.
ExpireOrphan(e) ==
  /\ lockedBy[e] # None /\ ~AtWork(e)
  /\ lockedBy' = [lockedBy EXCEPT ![e] = None]
  /\ UNCHANGED <<store, stored, purged, rows, job, attempts, locals, raced, check, faults>>

\* The lock of a lane that is still at work expires.
Overrun(e) ==
  /\ AtWork(e)
  /\ Fault
  /\ lockedBy' = [lockedBy EXCEPT ![e] = None]
  /\ UNCHANGED <<store, stored, purged, rows, job, attempts, locals, raced, check>>

\* The attempts are not reset: one more failure and it is dead again.
RetryDeadLetter(e) ==
  /\ job[e] = "dead"
  /\ Fault
  /\ job' = [job EXCEPT ![e] = "open"]
  /\ UNCHANGED <<store, stored, purged, rows, attempts, lockedBy, locals, raced, check>>

-----------------------------------------------------------------------------
(* PipelineReadinessService: the profile context-assemble.                 *)

Available(A) == {e \in A : e \in stored \ purged}
JobsReady(A) == A # {} /\ \A e \in A : job[e] = "done"
Count(A)     == Cardinality({e \in A : entry[e] # 0})

\* Mutant: the jobs are not looked at.
LayerReady_Count(A, avail, succeeded, n) == avail = A /\ n >= Cardinality(avail)

\* Every event is there, has an entry and a job that has succeeded.
LayerReady(A, avail, succeeded, n) ==
  avail = A /\ n >= Cardinality(avail) /\ succeeded

\* await_ready waits until a check says ready, or until one finds the layer
\* blocked by a job that was given up.
Blocked(A) == \E e \in A : job[e] = "dead"

\* A check is one transaction,
CheckNow(A) ==
  /\ store = "lite"
  /\ asked' = A
  /\ ready' = LayerReady(A, Available(A), JobsReady(Available(A)), Count(Available(A)))
  /\ UNCHANGED <<store, stored, purged, rows, jobs, locals, raced, found, settled,
                 checking, faults>>

\* or one of several statements, each of which sees what is committed by then.
ReadEvents(A) ==
  /\ store = "postgres" /\ checking = "idle"
  /\ asked' = A
  /\ found' = Available(A)
  /\ checking' = "jobs"
  /\ ready' = FALSE
  /\ UNCHANGED <<store, stored, purged, rows, jobs, locals, raced, settled, faults>>

ReadJobs ==
  /\ checking = "jobs"
  /\ settled' = JobsReady(found)
  /\ checking' = "entries"
  /\ UNCHANGED <<store, stored, purged, rows, jobs, locals, raced, asked, found,
                 ready, faults>>

ReadEntries ==
  /\ checking = "entries"
  /\ ready' = LayerReady(asked, found, settled, Count(found))
  /\ found' = {} /\ settled' = FALSE
  /\ checking' = "idle"
  /\ UNCHANGED <<store, stored, purged, rows, jobs, locals, raced, asked, faults>>

-----------------------------------------------------------------------------
LaneStep(w) ==
  \/ \E e \in Payloads : Claim(w, e)
  \/ Append(w) \/ ReadSequence(w) \/ InsertEntry(w) \/ HandlerRaises(w) \/ RecordOutcome(w)

Next ==
  \/ \E e \in Payloads : \/ Deliver(e) \/ PurgeSource(e) \/ ExpireOrphan(e)
                         \/ Overrun(e) \/ RetryDeadLetter(e)
  \/ \E w \in Workers : LaneStep(w) \/ Crash(w)
  \/ \E A \in Questions : CheckNow(A) \/ ReadEvents(A)
  \/ ReadJobs \/ ReadEntries

Spec == Init /\ [][Next]_vars

\* Lanes poll for ever and go on, and locks expire.
Fairness ==
  /\ \A w \in Workers : WF_vars(LaneStep(w))
  /\ \A e \in Payloads : WF_vars(ExpireOrphan(e))

FairSpec == Spec /\ Fairness

-----------------------------------------------------------------------------
\* Type invariant: events, entries, jobs, lanes and the check are of the kinds the tables
\* know; a row is locked only while its job is open.
TypeOK ==
  /\ store    \in Stores
  /\ stored   \in SUBSET Payloads
  /\ purged   \in SUBSET stored
  /\ entry    \in [Payloads -> Nat]
  /\ taken    \in [Threads \cup {None} -> SUBSET Nat]
  /\ job      \in [Payloads -> {"none", "open", "done", "dead"}]
  /\ attempts \in [Payloads -> Nat]
  /\ lockedBy \in [Payloads -> Workers \cup {None}]
  /\ phase    \in [Workers -> {"idle", "append", "insert", "done"}]
  /\ doing    \in [Workers -> Payloads \cup {None}]
  /\ number   \in [Workers -> Nat]
  /\ ok       \in [Workers -> BOOLEAN]
  /\ raced    \in SUBSET Payloads
  /\ asked    \in SUBSET Payloads
  /\ found    \in SUBSET asked
  /\ settled  \in BOOLEAN
  /\ checking \in {"idle", "jobs", "entries"}
  /\ ready    \in BOOLEAN
  /\ faults   \in Nat
  /\ \A e \in Payloads : lockedBy[e] # None => job[e] = "open"

(***************************************************************************)
(* However often a payload or an idempotency key is delivered, one source  *)
(* event stands for it, and that event has its job: before its append,     *)
(* after it, and after a purge, which does not let it in again.            *)
(***************************************************************************)
StoredOnce ==
  /\ \A e, f \in stored : Key[e] # None /\ Key[e] = Key[f] => e = f
  /\ \A e \in stored : job[e] # "none"

(***************************************************************************)
(* An event whose append job has succeeded has an entry, after crashes,    *)
(* expired locks and repeated appends; with Postgres unless an append of   *)
(* another lane to the same thread ran beside it.                          *)
(***************************************************************************)
DoneIsAppended ==
  \A e \in Payloads \ raced : job[e] = "done" => entry[e] # 0

(***************************************************************************)
(* No two events of a thread have the same number, so that the most recent *)
(* entries are well defined: also when two lanes append side by side.      *)
(***************************************************************************)
NumbersAreDistinct ==
  \A e, f \in Payloads :
    /\ e # f /\ entry[e] # 0 /\ entry[e] = entry[f]
    => Thread[e] # Thread[f] \/ Thread[e] = None

(***************************************************************************)
(* The numbers of a thread tell the order of its entries: who inserts one, *)
(* with a number it read before others inserted theirs or not, gives it a  *)
(* number above all that are there.                                        *)
(***************************************************************************)
InOrder ==
  \A e, f \in Payloads :
    /\ entry'[e] # entry[e] /\ Thread[f] = Thread[e] /\ Thread[e] # None
    => entry[f] < entry'[e]

EntriesAreInOrder == [][InOrder]_vars

(***************************************************************************)
(* When a check has said ready, the job of each event asked for has        *)
(* succeeded and the event has its entry, although the check has read      *)
(* events, jobs and entries at different times; and nothing that happens   *)
(* later makes it untrue.                                                  *)
(***************************************************************************)
ReadyIsComplete ==
  ready => \A e \in asked : job[e] = "done" /\ entry[e] # 0

(***************************************************************************)
(* Who awaits readiness of stored events gets an answer: ready or blocked, *)
(* unless one of the events is purged or lost its entry to an append that  *)
(* ran beside its own.                                                     *)
(***************************************************************************)
Settled(A) ==
  \/ A \cap (purged \cup raced) # {}
  \/ LayerReady(A, Available(A), JobsReady(Available(A)), Count(Available(A)))
  \/ Blocked(Available(A))

ReadinessSettles == \A A \in Questions : A \subseteq stored ~> Settled(A)

(***************************************************************************)
(* The append jobs keep the promise of the outbox: a job is done only      *)
(* after its event was appended, or after appends ran side by side; it is  *)
(* given up, opened again by an operator, and never done twice.            *)
(***************************************************************************)
PromisedState(s) ==
  CASE s = "none" -> "absent"
    [] s = "dead" -> "parked"
    [] OTHER      -> s

Promise == INSTANCE AtLeastOnce WITH
  Jobs    <- Payloads,
  state   <- [e \in Payloads |-> PromisedState(job[e])],
  handled <- {e \in Payloads : entry[e] # 0 \/ e \in raced}

KeepsPromise == Promise!Spec

===============================================================================
