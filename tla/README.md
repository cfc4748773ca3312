# MemWing: a verification development

MemWing remembers what is said in the threads of a team: it stores events,
derives memory items, pages and a knowledge graph from them in background jobs,
lets users correct what it has derived, forgets what it is told to forget, and
pushes what matters back. This directory holds TLA+ modules that model the core
of it, the TLC configurations that check them on small instances, and proofs,
checked by TLAPS, of what the modules say for instances of any size.

- [The system](#the-system) - its parts, how they interact, where it is hard
- [The modules](#the-modules) - which module models what, definition by definition
- [The runs](#the-runs) - what is checked, with which bounds and fairness
- [The proofs](#the-proofs) - what is proved, from what, and along which argument
- [Findings](#findings) - where the code does not do what it says
- [Left out](#left-out) - what is not modelled, and why
- [Plan](#plan) - what comes next

`PROJECT.json` maps every definition to the lines it models, lists the hazards
with the properties that cover them, and names for every property a mutation of
the model under which it fails.

## The system

Paths are relative to `src/memwing/`. "UoW" is `unit_of_work.transaction()`:
with the **Lite** store (`infrastructure/db/sqlite_store.py`, a copy of the
in-memory store under `BEGIN IMMEDIATE`) transactions are serial; with
**Postgres** they are read-committed, and what one reads before it locks a row
may have changed when it writes. Both stores are in use, and a property that
holds with one may fail with the other.

```
 platform / agent            control plane (users)              operators
      |                      edit restore approve purge ...        | retry a job
      v                               |                            v
  gateway --one UoW--> source_events  |     +--------------> outbox_jobs
                       outbox_jobs ---|-----+                  | claim (lock, expiry)
                                      |                        v
                                      |              lanes of worker processes
                                      |      evidence | working memory | page | long-term | push
                                      v                        |              |
             memory_items <-- lifecycle transitions <----------+--------------+
             memory_pages <-- rebuilds (LLM between two UoWs)                 |
             graph_write_jobs <-----------------------------------------------+
                    | claim per project
                    v
             graph lane --> graph backend (LLM, minutes) --> memory_graph_links,
                                                            items to needs_review
```

| Component | State | Operations | What is hard | What makes it correct | Module |
|---|---|---|---|---|---|
| Outbox queue (`workers/outbox_worker.py`, `workers/derived_outbox_worker.py`, `workers/runner.py`, the job repositories) | rows of `outbox_jobs`: status, attempts, locked_by, lock_expires_at, next_run_at; the locals of `run_once` | enqueue, claim, mark_succeeded, mark_failed, retry; run_once | handlers run outside transactions while locks expire; one handler run answers for all rows of an aggregate; a lost lock ends a process | at-least-once; an outcome is recorded by the holder only; the retry budget is exact; every job settles | `OutboxQueue`, `AtLeastOnce` |
| Memory lifecycle (`core/lifecycle.py`, `application/lifecycle_service.py`, `control_memory_service.py`) | `memory_items` (status, pinned, lifecycle_revision, removed_at), `memory_versions`, `audit_events` | twelve transitions with idempotency keys; edit; restore of a version | requests in flight twice; replays after the item has changed; four kinds of writers outside the transition table | a key acts once; a replay is not answered from the past; a rejection is final; removed items stay removed | `MemoryLifecycle` |
| Source redaction (`source_redaction_service.py`) | the purge columns of `source_events` | purge_source | rewrites items and flags pages in the same transaction, from rows read without a lock | what stems from a purged event is invalid, in review or flagged | `PurgeSource` or `Purge` of every module it reaches |
| Decay (`decay_service.py`, `workers/decay_worker.py`) | scores of items | a pass over a project | rows read in one transaction are written back in others | undoes nobody's work | `MemoryLifecycle` |
| Page memory (`page_memory_service.py`, `page_memory_rebuild.py`, `control_page_service.py`, `workers/page_memory_worker.py`) | `memory_pages` (version, source_event_ids, needs_rebuild), `memory_page_versions` | trigger, plan, synthesis, commit; edit, restore, manual rebuild | an LLM call between the transaction that reads and the one that writes, during which events arrive, are purged, and other rebuilds and edits commit | purged events are not cited unflagged; no rebuild is undone by an older one, unless a purge meets it at its commit; the history has no gaps | `PageMemory` |
| Graph writing (`graph_write_processor.py`, `workers/graph_write_worker.py`, the graph job repositories) | `graph_write_jobs`, `memory_graph_links`, the marks on items | claim per serialization key, process, extend lock, mark, link, record | minutes of backend work under a lock of 300 s; items marked in transactions of their own | success is complete; one writer per project; an overtaken worker leaves no trace; redelivery undoes no user's decision | `GraphWrite` |
| Ingress (`gateway_service.py`, `remember_event_*.py`, `platform_ingress_service.py`, `control_manual_memory_service.py`) | `source_events`, the scope bindings | remember_event, platform webhooks, manual memories | redelivered webhooks; two keys for one event; purged events delivered again | an event is stored once, with its jobs | `EventIntake` |
| Push (`control_push_service.py`, `push_*.py`, `decision_card_service.py`) | `push_candidates`, their cooldown keys | generate, approve, skip, trigger, send, prepare and acknowledge a card | the send is between two transactions; users, lanes and agents work on one candidate; purges | a key and an approval send one message each; what is shown as sent was sent; what was withdrawn is not sent | `PushDelivery` |
| Working memory (`derived_outbox_worker.py`, `postgres_evidence_repositories.py`) | `working_memory_entries`, numbered per thread | append under the next number | number read, then inserted; redelivery | an event whose job is done has an entry, with a number of its own | `EventIntake` |
| Long-term filter (`long_term_filter_service.py`) | (writes items, graph jobs, candidates) | classify the events of an aggregate | LLM call between two transactions; approvals and cards in others; redelivery; users and purges in between | it adds and activates, and takes nothing back; approved decisions have cards | `LongTermFilter` |
| Model result cache (`infrastructure/llm/caching_*.py`) | `model_result_cache` | get, put, invalidate | lookup, provider and put are apart; equal texts of different events; a put after the invalidation | an entry names all events it was used for; a purge reaches it | `ModelCache` |
| Readiness (`pipeline_readiness_*.py`) | none: a function of events, jobs and rows | check, await_ready | they change while it looks | ready means done, and lasts; who waits is answered | `EventIntake` |
| Reads (`current_truth*.py`, `memory_access_*`, `access_service.py`, `control_projection/`, `scope_resolver.py`) | none but the access audit | search, projections | - | visibility by status and scope | - |
| The edges: HTTP API, connectors, model and graph adapters, vector index, launchers, installer, benchmark, frontend | - | parsing and I/O | a process that ends takes the whole runtime with it | - | `Crash`, `Restart` of `OutboxQueue` |

## The modules

**`OutboxQueue`** has a row of `outbox_jobs` per job and a lane per polling loop;
lanes belong to processes, processes have worker ids. A repository transaction is
one action: `Enqueue`, `Claim` (pending rows first, up to `BatchLimit`),
`RetryDeadLetter`, and `MarkSucceeded`/`MarkFailed` inside `RecordSuccess` and
`RecordFailure`, under the fence `LockedBy` (`_get_locked_job`). A lane's
`run_once` is its locals and the actions between the transactions:
`StartHandler` reads the aggregate's claimed rows (`snapshot`), `HandlerReturns`
has covered them and remembers the aggregate (`seenAggs`), `SkipHandler` is the
early return for the rest of the aggregate, `HandlerRaises` an error. `LoseLock`
is the `OutboxLockOwnershipError` that nobody catches: it passes through
`asyncio.gather` and ends the process, with all lanes. The clock is two booleans
per row, the two comparisons the code makes with it; time passes by `BecomeDue`,
`ExpireOrphan` and, bounded, `Overrun` (a lock that expires under work). `holder`,
`handled` and `redriven` are history variables.
**`AtLeastOnce`** is what whoever enqueues a job may rely on: a job is open, done
or parked; it is done only after it was handled, given up only to be reopened.
`KeepsPromise` is the refinement, here and in `GraphWrite` and `EventIntake`,
whose jobs are rows of queues of their own.

**`MemoryLifecycle`** has the rows of items, their versions and the audit rows by
item and key. `AllowedFrom` and `Target` are the transition table; `Transition`
is the call of the lifecycle service under the row lock, where the audit is read
again; `Rewrite` is shared by `Edit` and `Restore`, which rely on the audit read
before the lock (`seen`). `Serial` picks the store: `Call` and `Purge` are one
step, or `BeginCall`/`FinishCall` and `BeginPurge`/`FinishPurge` are two. The
decay pass is `Scan`, `WriteScore`, `MarkForReview`, in transactions of their own
with either store. `writes` and `effects` count changes, for the properties only.
**`KeyedRequest`** is what an idempotency key promises: granted or refused once and
for all, and an effect only with a grant. `KeysArePromises` says that the lifecycle
implements it for each item and key: `Refused` of the recorded answers are refusals.

**`PageMemory`** has the page of one scope, its versions, its flag, the events and
the rebuilds under way. A rebuild goes through `Trigger` or `RequestByUser`,
`Plan` (the window of the latest live events, and the synthesis, which cites some
of them), the checks `Stale` and then `Commit` or `Drop`. With Postgres the
checks and the commit are `Lock` and `CommitLocked`, both under the page's lock,
for which `Edit`, `Restore` and a purge that finds the page wait, and a purge that
does not find it does not. `Purge` flags the pages that cite the event; the `UPDATE`
that does so waits for the lock of a page that matches as last committed and keeps
it, so that the purge is over for others only at its commit. An `UPDATE` that
matches no page locks none: `PassBy` is that look, `CommitPurge` or `AbortPurge` the
later end of the transaction, and rebuilds and restores that read the event as live
can commit between them. `crossed` is a history variable: the events whose purge a
written page has crossed so.
**`VersionedPage`** is what readers of a page rely on: it shows the last of its
versions, versions are added and never altered, and a flag stays until a rebuild is
published. `IsVersionedPage` is the refinement, for both stores.

**`GraphWrite`** has the rows of `graph_write_jobs` and the workers. `BeginClaim`
is the claim's snapshot with the rows it locks (`SKIP LOCKED` passes over the
rows of a claim that has not committed), `CommitClaim` makes it visible.
`StartRow` takes up the backend's answer for a row, an error or a set of
invalidated items; each item then takes an `ExtendLock` and a `MarkNeedsReview`
(the lifecycle transition under a key made of job and item), after which
`WriteLinks` writes the links under the fence; `RecordSuccess` and
`RecordFailure` record each row when the whole batch has been processed. The
lock extension only checks the lock: it counts from the time of the claim and so
never moves the expiry. `LoseRow` and `FailRow` are the exceptions on the way, some
items marked already. `Confirm` is a user who confirms an item in review.

**`EventIntake`** goes from a delivery to a client who is told that it is ready.
`Deliver` is the storing transaction of `remember_event`, where a payload or its
idempotency key may be known (`Matches`). A lane claims the append job of an event
and appends: `Append` with Lite, where a repeated append gives the entry a new
number while the index keeps the old one; `ReadSequence` and `InsertEntry`, two
statements of a read-committed transaction, with Postgres, where an insert may
find its number taken (`Conflicts`), answers with the other event's entry and is
counted a success, or fails on the primary key when repeated. A readiness check
is `CheckNow`, or `ReadEvents`, `ReadJobs` and `ReadEntries`; `LayerReady` and
`Blocked` are its verdicts. `store` is chosen at the start, so that one run
checks both. `raced` marks the events whose appends ran side by side.

**`PushDelivery`** has the push candidates, their audits by idempotency key, the
send jobs and the senders: users of the control plane and derived lanes. A send is
`BeginSend` (first transaction; or `ReplaySend`, `RefuseSend`, `MissRoute`, which
end it), `Deliver`, `FailToDeliver` or `LoseAnswer` (the platform), and
`RecordSend` (second transaction). A lane reads the candidate when it takes the
job (`Take`, `TakeSettled`), approves it if it is pending (`ApprovePending`) and
then sends as a user does. `Trigger` selects from a window of the candidates
(`Listed`); `RetrySendJob` is an operator's. An agent's card is `ShowCard` for an
approved candidate. For a pending one it is `ReadCard`, where the candidate is listed,
and `PrepareCard`, where its status is updated, unconditionally: with Postgres a skip
or a purge may commit between the two. A purge is two steps for the same reason:
`BeginPurge` reads the latest `PurgeLimit` candidates and what it will make of them,
`CommitPurge` writes it; it can be repeated, under another key. `Approve`, `Skip` and
`AckCard`, which write the same whatever the status has become, are one step, at
their commit. The history variables count messages and approvals, and mark sends
whose outcome is lost (`doubtful`, `crowded`) and candidates withdrawn while nobody
was about to send them, neither a lane nor an unfinished card (`barred`).

**`ModelCache`** has the entries by text, with the events that calls have named
for it, and calls in flight. A call begins with the read of what it asks about
(`Begin`), looks its inputs up one by one (`Hit`, `Miss`, `HitOther`), writes an
entry again that does not name its events, or names them in another order than the
sorted one (`Merge`), asks the provider for what it misses (`Answer`) and stores the
answers (`Store`), each in a transaction of its own. A purge marks and locks the active
entries of its event (`BeginPurge`) and commits later (`CommitPurge`) or fails
(`AbortPurge`); lookups and writes of a marked entry wait for it, others go on, and
`crossed` is the history variable that remembers what they write meanwhile. A call is
`embed_batch`; an adapter of a language model is a call with one input. A purge
replaces the content of its event, but not every text that names it: a memory item
keeps its text, and graph writes send it to the model under the same events after
the purge as before; a prompt of several events is still asked with the content of
one redacted. `Outlives` says for an input which events' purge it survives so, and
`began` is the history variable that remembers what was purged when a call began.

**`LongTermFilter`** has the items, their cards, graph jobs and the audit of the
approvals, and passes over sets of events: `Begin`, `Answer` (the model),
`Save` (with Postgres preceded by a `LookUp` per item, which locks the row it
finds and nothing if it finds none), `Approve` or `Repeat` or `Refuse` for each
item to be approved, `MakeCards`. Passes begin at any time for any events, which
covers whatever the queue delivers; approvals are under the key of the job, so
that a repeated pass meets the audit of the first. `UserMove`, `PurgeSource` and
`GenerateCards` are what others do to the same rows, between any two steps. The
statuses other than candidate and active are one ("withdrawn").

The `MC` modules give the constants finite values, nothing else. Operators named
`X_Something` before `X` are mutations of `X`, used by the mutation entries of
`PROJECT.json` and by no specification.

How the modules fit: the page, graph and redaction modules assume of the queue no
more than what `AtLeastOnce` promises, that a job is delivered any number of
times by any number of workers (`Workers` in `PageMemory` are such deliveries).
`GraphWrite` knows of items what `MemoryLifecycle` does under one key: marked,
stale or rejected; `LongTermFilter` likewise: approved, stale or failed.
`PushDelivery` and `EventIntake` have their part of the queue inside (claim, lock,
outcome, attempts), because their liveness depends on it.

## The runs

| Run | Configuration | Bounds | What it shows |
|---|---|---|---|
| `outbox_queue` | `OutboxQueue.cfg` | 2 jobs of one aggregate, 2 processes with ids of their own, 2 attempts, batches of 2, 1 crash, 1 overrun, 1 operator retry per row | `RetryBudget`, `OnlyTheHolderRecords`, the refinement `KeepsPromise`, and `EveryJobSettles` under fairness |
| `lifecycle_serial` | `LifecycleSerial.cfg` | 1 item of 2 sources, 3 keys, all kinds of calls, 2 purges, serial | `ReplayIsFresh`, `RemovedOnlyRestored`, the refinement `KeysArePromises` |
| `lifecycle_racing` | `LifecycleRacing.cfg` | 1 item, 1 key, 2 concurrent transitions, 1 purge, 2 decay passes, read-committed | the refinement `KeysArePromises`, for transitions |
| `page_memory` | `PageMemory.cfg` | 3 events, a window of 2, 2 workers, 3 rebuilds, 1 edit, purges once there is a page, serial | `PurgedSourcesAreFlagged`, `FlagsAreAnsweredOnce` |
| `page_locked` | `PageLocked.cfg` | 3 events, a window of 1, 2 workers, 3 rebuilds, an edit, a restore, purges at any time (one between its look and its commit), read-committed | the refinement `IsVersionedPage`, `PurgedSlipInOnly`, `RegressesOnlyByPurge` |
| `page_bootstrap` | `PageBootstrap.cfg` | 2 events, purges before the first page | violates `PurgedSourcesAreFlagged` |
| `graph_write` | `GraphWrite.cfg` | 2 jobs of one project (budgets 2 and 1), 2 workers, 1 item, batches of 2, 1 crash, overrun or operator retry | `SuccessIsComplete`, `OvertakenLeavesNoTrace`, `ConfirmedStaysConfirmed`, the refinement `KeepsPromise`, and `EveryJobSettles` under fairness |
| `graph_claims` | `GraphClaims.cfg` | 2 jobs of one project, 2 workers, batches of 1, nothing goes wrong | violates `OneWriterPerProject` |
| `event_intake` | `EventIntake.cfg` | 3 payloads (two of one thread, two of one idempotency key), 2 lanes, both stores, 2 attempts, 1 crash, overrun or operator retry, 1 client | `StoredOnce`, `ReadyIsComplete`, `EntriesAreInOrder`, the refinement `KeepsPromise`, and `ReadinessSettles` under fairness |
| `push_delivery` | `PushDelivery.cfg` | 1 candidate, which cites the event, 2 lanes, 1 user, 2 keys, 2 platforms, 2 attempts, 2 requests (approvals, skips, purges, cards, sends, retries), 1 crash, overrun or lost answer | `OncePerKey`, `OneMessagePerApproval`, `SentWasDelivered`, `WithdrawnIsNotSent`, and `SendJobsSettle` under fairness |
| `model_cache` | `ModelCache.cfg` | 2 events; an event and a memory item with one text, a prompt of both events, one of them redacted; 2 calls of up to 2 inputs, one purge at a time between its look at the entries and its commit | `SourcesAreKept`, `OrphansComeFromOverlaps` |
| `long_term_filter` | `LongTermFilter.cfg` | 2 events, 2 items (a decision of one event; one of both), 2 passes of one job, both stores | `CardsFollowApprovals`, `FilterOnlyAdds` |

`TypeOK` is checked where a module has its first run. Deadlock is not checked:
every module is bounded, and when the bounds are spent and all jobs are settled
nothing is left to do.

**Why the bounds are enough.** A hazard of the queues needs a worker that was
overtaken, the one that overtook it, and a row the first still has in hand besides
the one it lost: two lanes, two rows, one overrun. A second attempt makes failure
both retriable and final. In the graph lane the second job's budget is 1 so that
its first failure is final while the other job's is not. A key's hazards need
a request, something between, and its repetition: three keys let two other requests
come between, so that an item can change away and back. Items share no state (a
purge treats each by itself), so one is enough. A purge's hazards need an item
with a second source. A rebuild's hazards need two rebuilds, one that reads before
the other writes; the third lets a flag or a trigger follow; a window smaller
than the set of events lets events drop out of it, and a purge bring them back:
with a window of 1 a rebuild under the lock can be overtaken by the purge of what it
read (`page_locked` has also been run once with a window of 2); what a purge between its
look and its commit meets, one such purge shows. An append's hazards need two
events of one thread, two lanes, and a redelivery; the third payload repeats the
key of the first. A candidate's hazards need two senders beside each other, a key to
repeat and another one, and a request that reads it (a card, a purge) before another
changes it: two requests, beside a trigger and its job. Candidates share nothing but the windows of a selection and of a purge,
which no property is about: with one candidate `PurgeLimit` leaves none aside. A cache entry's hazards need two calls, one of which
writes after the other or after a purge, for different events of one text, a
batch that mixes hits and misses, and an input that its event's purge takes away
beside one that survives it. A filter's hazards need two passes for one item
and, of the items of a pass, one that is approved when another fails. Larger
instances of the newer modules have been checked once without a change in the
outcome and are not kept for their size: `PushDelivery`, with cards and purges still
in one step, with two candidates (10 million states), three keys and three requests,
two events; `EventIntake` with two faults and one
attempt; `LongTermFilter` with two jobs. Bounds on crashes, overruns,
retries, requests, purges, passes, edits, restores and rebuilds are the `Max...`
constants, in the guards of the actions they bound. The proofs hold for all of them.

**Fairness.** `FairSpec` of `OutboxQueue`: a lane that can go on does
(`asyncio` starves no task, handlers end in a result or an error), a process that
has stopped is started again, and time passes, so that a row becomes due and an
orphaned lock expires. The second is an assumption about the operation of MemWing,
not its code: `runtime_runner.py` ends when one of its processes ends, and leaves
it to an operator (`memwing restart`) or a service manager to start it again. It
is needed: a lost lock ends a process, so that without restarts both processes can
stop with rows still open.
Crashes and overruns are bounded and nothing makes them happen; nor does anything
make a handler succeed, so a job may settle in the dead-letter list.
`FairSpec` of `GraphWrite`: a worker that can go on does (the backend's call has
a timeout, 900 s for each job of the batch) and locks of dead workers expire; a
worker that crashes or loses a lock is idle again at once, which again assumes
that its process is started again. Its fair step is the one
that finds every row due, since a lane polls forever and `next_run_at` passes.
`FairSpec` of `PushDelivery` and `EventIntake`: lanes go on (the platform's client
has a timeout) and locks that nobody at work holds expire; nothing makes a user,
a client, a platform or a purge act. A client's wait ends by its own
timeout in any case; `ReadinessSettles` says that before that it is told ready or
blocked, except for events that were purged or lost their entry to a concurrent
append. Fairness is weak throughout, on the disjunction of a worker's steps: it never
promises that one particular alternative is taken. No liveness is claimed of
items and pages: nothing in the code looks for a page that is flagged.

## The proofs

TLAPS proves, for any sets of jobs, workers, items, events and keys and for any
bounds:

| Module | Theorem | Says | Assumes |
|---|---|---|---|
| `OutboxQueue_proofs` | `TypeCorrect` | `[]TypeOK` | |
| | `BudgetCorrect` | `[]RetryBudget` | |
| | `LiveLockCorrect` | `LiveLockIsRespected` | |
| | `SucceededCorrect`, `FenceCorrect` | `[]SucceededIsHandled`, `[]FenceIsSound` (only the latest claimant passes the lock check) | `DistinctWorkerIds` |
| | `RecordingCorrect`, `SuccessIsFinal` | `OnlyTheHolderRecords`, `SucceededIsFinal` | `DistinctWorkerIds` |
| | `PromiseKept` | the queue implements `AtLeastOnce` | `DistinctWorkerIds` |
| `MemoryLifecycle_proofs` | `TypeCorrect` | `[]TypeOK` | |
| | `KeysActOnce`, `RejectionsLast` | `[]OneEffectPerKey`, `RejectedStaysRejected` | serial transactions, or transitions only |
| | `RequestsKept` | for each item and key, the lifecycle implements `KeyedRequest` | serial transactions, or transitions only |
| | `ReplaysFresh`, `RemovalsLast` | `[]ReplayIsFresh`, `RemovedOnlyRestored` | no decay pass; serial transactions or no purge |
| `PageMemory_proofs` | `TypeCorrect`, `HistoryCorrect` | `[]TypeOK`, `[]HistoryIsComplete` | |
| | `PageIsVersioned` | the page implements `VersionedPage` | |
| | `FlagAnsweredOnce`, `SlipsInOnly` | `FlagsAreAnsweredOnce`, `PurgedSlipInOnly` | |
| | `RegressOnlyByPurge` | `RegressesOnlyByPurge` | |
| | `NoRegress` | the same without exception, `RebuildsDoNotRegress` | serial transactions |
| | `FlaggedCorrect` | `[]PurgedSourcesAreFlagged` | serial transactions, no purge before the first page, no restore |
| `GraphWrite_proofs` | `TypeCorrect` | `[]TypeOK` | |
| | `ClaimsExclusive`, `PromiseKept` | a row is in one open claim at most; the graph lane implements `AtLeastOnce` | |
| | `SuccessComplete`, `OvertakenHarmless`, `ConfirmedLasts` | `SuccessIsComplete`, `OvertakenLeavesNoTrace`, `ConfirmedStaysConfirmed` | |
| `EventIntake_proofs` | `TypeCorrect`, `OneEventPerKey` | `[]TypeOK`, `[]StoredOnce` | |
| | `EntriesAreNumbered`, `AppendIsDone`, `ReadyIsTrue` | `[]NumbersAreDistinct`, `[]DoneIsAppended`, `[]ReadyIsComplete` | |
| | `NumbersTellOrder`, `PromiseKept` | `EntriesAreInOrder`; the append jobs implement `AtLeastOnce` | |
| | `LoneLaneAppends` | an event whose job is done has an entry, without exception | Lite, or one lane |
| `PushDelivery_proofs` | `TypeCorrect`, `KeySendsOnce`, `ApprovalSendsOnce` | `[]TypeOK`, `[]OncePerKey`, `[]OneMessagePerApproval` | |
| | `SentIsTrue`, `WithdrawnStays` | `[]SentWasDelivered`, `WithdrawnIsNotSent` | |
| | `JobsEndForReasons` | a done send job has sent, had nothing to send, or has its outcome recorded; a dead one has had all its attempts, those of its retries among them | |
| | `LoneSenderSendsOnce` | `OncePerKey` and `OneMessagePerApproval` without exception | one sender, no faults |
| `ModelCache_proofs` | `TypeCorrect`, `SourcesKept`, `OrphansOverlap` | `[]TypeOK`, `[]SourcesAreKept`, `OrphansComeFromOverlaps` | |
| `LongTermFilter_proofs` | `TypeCorrect`, `FilterAdds`, `CardsFollow` | `[]TypeOK`, `FilterOnlyAdds`, `[]CardsFollowApprovals` | |
| | `LonePassAdds` | `FilterOnlyAdds` without exception | Lite, or one pass |

Besides the assumptions above the proofs use those of the modules: the constants
have the types their comments give them, attempts and batches are positive, and
`None` is not a row. The assumptions above are where the code needs them: the
violating run `page_bootstrap` shows what happens with early purges, and the
hazards tell what a shared worker id, a restore, a decay pass or a read-committed
purge does.

**The arguments.**
`OutboxQueue`: `SucceededIsHandled` is not inductive. A lane marks a row
succeeded because its aggregate is in `seenAggs`, which says something about the
row only if the row was in the `snapshot` of that handler run, and the snapshot
was taken with the fence as it was then. `IInv` adds `CoverageOK`: each row in
hand that still passes the fence is in the snapshot of the run under way, if it
is of that aggregate, and covered if its aggregate was seen. That in turn needs
`FenceIsSound`: with distinct ids, a row that left and came back under one's own
name was claimed by oneself, so it is not in hand from an earlier claim; the
remaining conjuncts say what a lane that is idle or down holds. `BudgetOK`
strengthens `RetryBudget` by what an operator retry leaves: exactly one failure.
`PromiseKept` maps each step to one of `AtLeastOnce` or a stutter: a row that
becomes succeeded is handled by `SucceededIsHandled`, and no other action moves it.
`MemoryLifecycle`: `KInv` says that an unused key has had no effect; a step adds an
effect only under a key it finds unused and uses it. `RInv` says that no writer
holds rows it read earlier, that `lifecycle_revision` counts the changes, and
that an audit entry carries the revision of its change: hence equal revisions
mean an unchanged item. `KeyStep` says what a step does to a key: nothing, or it
records a refusal, or a grant with one effect; `RequestsKept` reads it as a step
of `KeyedRequest`.
`PageMemory`: `FlaggedInv` adds that each rebuild cites events of the window it
read (`CitesItsWindow`), so that one which commits, its window unchanged, cites no
purged event. `AnswerInv` adds that a rebuild past its checks has the flag in
front of it and is the only one there. `VersionedInv` needs that a rebuild past
its plan cites something, from its own window, so that what it publishes is a
content of `VersionedPage`; an edit or a restore publishes what a version holds.
`SlipInv` adds to `CitesItsWindow` that with serial transactions nobody is between
checks and commit: who passes the checks against a page cites nothing purged
(`CheckedIsClean`), and a purge of an event that the page cites waits for the lock
and keeps it. A purge that passes the page by ends unflagged only if the page has
come to cite the event since, by a write that puts the event into `crossed`
(`PassedStep`: an event of `purging` outside `crossed` is not cited unflagged). So a
purged event becomes cited unflagged only by a step that `PurgedSlipInOnly` names. `RegressesOnlyByPurge` is about counting. Who takes the lock read the window
as it then was, and an event which that leaves aside has `SourceLimit` later ones in
it (`WindowIsFull`, from the latest event left aside, found by the well-foundedness
of `Nat`). `LockedIsFull` keeps this for as long as the lock is held, since only its
holder changes what is covered. If at the commit none of those later events is
purged, they still fill the window, and the event is not in it (`LockedCommit`).
`GraphWrite`: for the refinement a job counts as handled when its links are written.
`ProgressInv` says of each worker that what it has been through is
in the store: items of the current row not in `left` are marked, and a row whose
outcome is "ok" has its links and all its marks; the store never takes a mark or a
link back (`Kept`), so others' steps do not disturb it. `ClaimsOK` says that two
uncommitted claims hold no row together and that a row held is open: a claim that
commits therefore takes no row out of succeeded, which the refinement needs.
`EventIntake`: the number a lane inserts was read earlier. `IndexOK` says that the
index of a thread holds the numbers of its entries and none above them, `AloneOK`
that a lane beside which no other appends to its thread has a number above all of
the index: then its insert conflicts with nothing. That the next number is above
all entries needs that a finite set of numbers has a maximum, which is proved
from the well-foundedness of `Nat` (`FiniteHasMax`); that as many entries as
events means an entry for each, from the cardinality of a subset. `CheckOK` says
that the jobs a check has found succeeded remain so. `NumberingOK` says that the
numbers in use of a thread have no gap, and that below the number a lane has read
everything is in use: what it inserts, if the number is free, is above all entries.
For the refinement an event counts as handled when it has an entry or its append
was raced; `LoneLaneAppends` shows that alone no append is.
`PushDelivery`: `KeysOK` says of a key without doubt that at most one sender
carries it, that it has sent nothing before that sender has, and that a key
without audit and sender has sent nothing; `ApprovalsOK` the same with approvals:
an approved candidate has an approval left to spend, or the sender in flight has.
`BarredOK` says that nobody is about to send a withdrawn candidate, neither a sender
who has read it nor a card that was listed while it was pending; a card is only
read while the candidate is pending, which a withdrawn one is not.
`JobsEndForReasons` needs that lanes use their own key (`LaneKeyOK`), that a
skipped candidate was skipped by somebody or withdrawn by a purge (`SkippedOK`),
that a purge withdraws only what cites its event (`CitedOK`), and that no record,
message or purge is ever taken back (`Grows`).
`ModelCache`: sources of an entry only grow (`Put` unites), so it is enough that
what is served is written in the same step or was read from the entry; `SeenOK`
says that a rewrite holds the events of its own input. `PassedOK` says that a purge
under way has marked every active entry of its event but those written since; hence
its commit leaves only such an entry, and any other orphan is made by a write. `TodoOK` and
`MissesOK` follow the events from the start of the call to that write: those purged
before it began are of inputs that survive it. `IdleOK` is needed where a call
begins anew: nothing is left to store from the last.
`LongTermFilter`: `FreshOK` says that what a transaction has looked up in vain is
still not there, or another looked it up in vain too; hence a write that changes
an active or withdrawn item is one of two such. `ActiveOK` says that what is
active, or was approved, has been active.
The corollaries for one sender, lane or pass show that the history variables in the
exceptions (`doubtful`, `crowded`, `raced`) stay empty there: the exceptions excuse
what concurrency and faults do, and nothing else.

**Only model-checked**: the two `EveryJobSettles`, `SendJobsSettle` and
`ReadinessSettles` (liveness under fairness is out of the prover's reach).

## Findings

Each has a run that shows it; `PROJECT.json` quotes the test or the message that
the code contradicts.

1. `page_bootstrap`: an event purged while a first page is synthesised is cited
   by that page, and no flag says so: the window is compared only if there is a
   page already.
2. `graph_claims`: two concurrent Postgres claims take two jobs of one project;
   each looks for jobs in work before the other's claim is visible.

Other behaviours that the properties except, or that came up in configurations
not kept as runs, are hazards of `PROJECT.json`, with their lines:

- Processes started without `--worker-id` share a name, and the fence compares
  names: after a lock expired, its former holder can record an outcome on the row of
  the new one (`OutboxQueue` with one id for both processes).
- Restoring a version makes a removed item active again, though
  `core/lifecycle.py` calls removed memories terminal; purging the primary source of
  an item makes it invalid, purging another one then puts it back into review.
- Restoring a page version brings purged events back unflagged. With Postgres a
  purge that commits between a rebuild's last look at its window and its write
  leaves the page unflagged, so does one whose look for pages finds none to flag while
  a rebuild that cites the event commits before the purge does, and if the purge brings an earlier event back into the
  window, the page loses it (`PageMemory` with `Serial = FALSE`).
- With Postgres, edits and restores with one key act twice when they are in
  flight together: the audit is read before the row lock and not again.
- With Postgres, two appends to one thread that run side by side lose an entry, and
  the job of the loser is done all the same; an append that is repeated after its
  entry was inserted fails until its job is given up.
- Two senders of one candidate both pass the check before either has recorded its
  message. An undelivered automatic send is not tried again by a later job.
- With Postgres an agent's card approves a candidate that a user skipped, or a purge
  withdrew, after the card had listed it; an open send job then sends it although no
  user has approved it. A purge overwrites likewise what became of a candidate it has
  read.
- A model answer computed before a purge and stored after it is an active entry, and so
  is one about a memory item of purged events, which a graph write sends with its
  text unchanged. A hit whose events are stored unsorted is written again, and made
  active again if a purge came between. With Postgres an entry that is written between a
  purge's look at the entries and its commit is not invalidated either.
- With Postgres two filter passes that look up one absent item both write it, the
  later one over what became of the earlier one's. An approved decision of a pass
  that did not end has no card until somebody generates cards.

## Left out

Inside the modelled components:

- Clock values, backoff times, priorities and thresholds: only the comparisons
  that decide something, as nondeterministic choices. Scores of a decay pass
  likewise.
- The text of items and pages. What a synthesis cites is a choice; that the old
  text of a page is part of the prompt of its rebuild is therefore not seen.
- Scopes: a module is about one scope. Rejections by scope checks change nothing.
- The rejected audits that control operations record before they raise: the
  exception ends the transaction, which takes them back.
- The idempotency keys of the control plane's page operations: they are looked up
  before the page is locked, as those of edits in `MemoryLifecycle` are, and a
  request whose key is found changes nothing.
- In `GraphWrite` a claim's snapshot and its row locks are one step, which leaves
  out the moment in which a row seen as expired is recorded by its old holder
  and then taken all the same. Claims are ordered by serialization key; that a
  busy early project can starve a later one is not in the checked instance.
- Starvation of a queue's rows by rows enqueued later: the rows are finitely many.
- The decay worker is modelled, but the runtime does not start it.
- Linked memory items of a page: only source events are compared by its checks.
- Of a purge: evidence chunks, and the composition of its effects; each module has
  the effect on its own rows, at its commit, and what it has read before only where
  the effect depends on it (`MemoryLifecycle`, `PageMemory`, `PushDelivery`,
  `ModelCache`).
- In `EventIntake`: the other jobs of an event, and the readiness profiles that
  count evidence, pages, items and links. The scope is resolved before; the
  events asked for are read in one step.
- In `PushDelivery`: which items deserve a candidate, the text of the message,
  routing beyond whether there is a platform reference. Approvals, skips and
  acknowledgements with one key are taken one after the other: two of them that both
  look the key up before either commits would both act.
- In `ModelCache`: bypassed inputs, hit counts, and what a prompt holds that the call
  does not name: a filter's prompt quotes memory items of other events, which
  therefore do not reach the entry when they are purged. Whether a stored order is the
  sorted one is a choice at each hit.
- In `LongTermFilter`: scores and contents; that a row which was written over may
  reach the lifecycle revision of an older audit again; empty passes; the audit of the
  outcome. With Postgres the writes of the storing transaction are one step with its
  end.

Not modelled at all, with the reason, in the `components` of `PROJECT.json`:
reads, scope resolution, API and projections (they change no state but the access
audit), connectors, adapters, the vector index and installation (I/O).

## Plan

What was planned for push, ingress, working memory, the filter, the cache and
readiness is done. What would come next:

1. Compositions: a purge with lifecycle, page and cache together (what remains of
   a purged event when all is quiet); the filter with the graph lane.
2. The other readiness profiles, over the states of the components they count.
3. Visibility: which items a scope sees in which status, as operators over the
   reads (`current_truth*.py`, `scope_visibility.py`), checked against each other.
4. The adapter of the graph library: the writes of an episode as steps of their own
   instead of one nondeterministic answer.
5. Proofs: every invariant and action property that a run checks is now stated by a
   theorem, and so are the refinements. What is left to prove comes with the
   compositions, and with an invariant of `LongTermFilter` that ties its revisions to
   its audits.
