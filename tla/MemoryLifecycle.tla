---------------------------- MODULE MemoryLifecycle ----------------------------
(***************************************************************************)
(* The life of memory items under everything that writes their rows: the   *)
(* lifecycle transitions with their idempotency keys, the control plane's  *)
(* edits and version restores, the purge of a source event, and the decay  *)
(* pass.                                                                   *)
(*                                                                         *)
(* With the in-memory store a transaction holds a global lock: Serial.     *)
(* With Postgres (read committed) a transaction is a sequence of           *)
(* statements, and what it read before it locked a row may be stale when   *)
(* it writes: ~Serial splits those transactions where they read.           *)
(***************************************************************************)
EXTENDS Naturals, Sequences

CONSTANTS
  Items, Sources,
  SourcesOf,   \* [Items -> SUBSET Sources], the source_event_ids of an item
  PrimaryOf,   \* [Items -> Sources], its primary_source_event_id
  Keys,        \* idempotency keys of users
  DecayKey,    \* the key of the decay pass: one per item and threshold
  Clients,     \* concurrent calls to the control plane
  Kinds,       \* the kinds of calls the clients make
  Serial,      \* TRUE: the in-memory store, FALSE: Postgres
  MaxPurges,   \* bound: purges with a key of their own
  MaxPasses,   \* bound: decay passes
  None

ASSUME LifecycleConstants ==
  /\ SourcesOf \in [Items -> SUBSET Sources] /\ PrimaryOf \in [Items -> Sources]
  /\ Kinds \subseteq {"transition", "edit", "restore"}
  /\ Serial \in BOOLEAN /\ MaxPurges \in Nat /\ MaxPasses \in Nat
  /\ DecayKey \notin Keys

Statuses == {"candidate", "active", "fading", "needs_review", "archived", "hidden",
             "invalid", "removed"}
PinActions == {"pin", "unpin"}
Actions == {"approve", "archive", "confirm", "hide", "invalidate", "mark_needs_review",
            "remove", "review", "unarchive", "unhide"} \cup PinActions

\* Where an action is allowed from.
AllowedFrom(a) ==
  CASE a = "approve"           -> {"candidate"}
    [] a = "confirm"           -> {"candidate", "fading", "needs_review"}
    [] a = "review"            -> {"fading"}
    [] a = "unarchive"         -> {"archived"}
    [] a = "unhide"            -> {"hidden"}
    [] a = "invalidate"        -> {"active"}
    [] a = "mark_needs_review" -> {"active", "fading", "invalid"}
    [] a \in {"archive", "hide"} -> {"candidate", "active", "fading", "needs_review"}
    [] OTHER                   -> Statuses \ {"removed"}

\* Where it leads.
Target(s, a) ==
  CASE a \in {"approve", "confirm", "review", "unarchive", "unhide"} -> "active"
    [] a = "archive"           -> "archived"
    [] a = "hide"              -> "hidden"
    [] a = "invalidate"        -> "invalid"
    [] a = "mark_needs_review" -> "needs_review"
    [] a = "remove"            -> "removed"
    [] OTHER                   -> s

VARIABLES
  status, pinned, rev, removedAt, \* rows of memory_items (rev: lifecycle_revision)
  versions,                       \* rows of memory_versions: the status of each
  audit,                          \* rows of audit_events by item and key
  redacted,                       \* purged source events
  calls,                          \* Postgres: calls that have read, not yet written
  purge,                          \* Postgres: the purge that has read the rows
  scanned, review,                \* the decay pass: rows it read; the item it marks
  writes, effects,                \* history: changes of an item; those of a key
  purges, passes                  \* counters of the bounds

row   == <<status, pinned, rev, removedAt>>
vars  == <<row, versions, audit, redacted, calls, purge, scanned, review,
           writes, effects, purges, passes>>

AllKeys == Keys \cup {DecayKey}
Row(m) == [status |-> status[m], pinned |-> pinned[m], rev |-> rev[m],
           removedAt |-> removedAt[m]]
NoRows == [m \in Items |-> None]

Init ==
  /\ status    \in [Items -> {"candidate", "active"}]
  /\ pinned    = [m \in Items |-> FALSE]
  /\ rev       = [m \in Items |-> 0]
  /\ removedAt = [m \in Items |-> FALSE]
  /\ versions  = [m \in Items |-> <<>>]
  /\ audit     = [m \in Items |-> [k \in AllKeys |-> None]]
  /\ redacted  = {}
  /\ calls     = [c \in Clients |-> None]
  /\ purge     = None
  /\ scanned   = NoRows
  /\ review    = None
  /\ writes    = [m \in Items |-> 0]
  /\ effects   = [m \in Items |-> [k \in AllKeys |-> 0]]
  /\ purges    = 0
  /\ passes    = 0

-----------------------------------------------------------------------------
(* Writes to a row.                                                        *)

Upsert(m, r) ==
  /\ status'    = [status EXCEPT ![m] = r.status]
  /\ pinned'    = [pinned EXCEPT ![m] = r.pinned]
  /\ rev'       = [rev EXCEPT ![m] = r.rev]
  /\ removedAt' = [removedAt EXCEPT ![m] = r.removedAt]

\* The first audit row under a key stays.
Record(m, k, entry) ==
  audit' = [audit EXCEPT ![m][k] = IF @ = None THEN entry ELSE @]

\* A change of item m by the call with key k.
Effect(m, k) ==
  /\ writes'  = [writes EXCEPT ![m] = @ + 1]
  /\ effects' = [effects EXCEPT ![m][k] = @ + 1]

Entry(stage, a, r, stamp) ==
  [stage |-> stage, action |-> a, status |-> r.status, pinned |-> r.pinned,
   rev |-> r.rev, stamp |-> stamp]

-----------------------------------------------------------------------------
(* LifecycleTransitionService.transition                                   *)

\* Mutant: the revision of the row is not compared.
ReplaySucceeds_NoRevision(m, a, k) ==
  LET e == audit[m][k]
  IN  /\ e # None
      /\ e.stage = "succeeded" /\ e.action = a
      /\ status[m] = e.status
      /\ a \in PinActions => pinned[m] = e.pinned

\* A request whose key is known changes nothing; it is answered with success
\* if the row still is as the first request left it.
ReplaySucceeds(m, a, k) ==
  LET e == audit[m][k]
  IN  /\ e # None
      /\ e.stage = "succeeded" /\ e.action = a
      /\ rev[m] = e.rev
      /\ status[m] = e.status
      /\ a \in PinActions => pinned[m] = e.pinned

Transitioned(m, a) ==
  [status    |-> Target(status[m], a),
   pinned    |-> IF a \in PinActions THEN a = "pin" ELSE pinned[m],
   rev       |-> rev[m] + 1,
   removedAt |-> removedAt[m] \/ a = "remove"]

Succeed(m, a, k) ==
  /\ status[m] \in AllowedFrom(a)
  /\ Upsert(m, Transitioned(m, a))
  /\ versions' = IF a \in PinActions THEN versions
                 ELSE [versions EXCEPT ![m] = Append(@, Target(status[m], a))]
  /\ Record(m, k, Entry("succeeded", a, Transitioned(m, a), writes[m] + 1))
  /\ Effect(m, k)

\* A request that is not allowed is recorded under its key as well.
Reject(m, a, k) ==
  /\ status[m] \notin AllowedFrom(a)
  /\ Record(m, k, Entry("failed", a, Row(m), writes[m]))
  /\ UNCHANGED <<row, versions, writes, effects>>

\* Mutant: the audit read before the row lock is relied upon.
Transition_NoRecheck(m, a, k, seen) ==
  /\ ~seen
  /\ Succeed(m, a, k) \/ Reject(m, a, k)

\* The audit is read again under the row lock.
Transition(m, a, k, seen) ==
  /\ ~seen /\ audit[m][k] = None
  /\ Succeed(m, a, k) \/ Reject(m, a, k)

-----------------------------------------------------------------------------
(* ControlMemoryService.edit_memory and restore_memory_version             *)

\* Mutant: the audit is not consulted.
Rewrite_Unchecked(m, s, k, seen) ==
  LET r == [Row(m) EXCEPT !.status = s, !.rev = @ + 1]
  IN  /\ Upsert(m, r)
      /\ versions' = [versions EXCEPT ![m] = Append(@, s)]
      /\ Record(m, k, Entry("control", "none", r, writes[m] + 1))
      /\ Effect(m, k)

\* seen: the answer of the audit, read before the row was locked.
Rewrite(m, s, k, seen) ==
  LET r == [Row(m) EXCEPT !.status = s, !.rev = @ + 1]
  IN  /\ ~seen
      /\ Upsert(m, r)
      /\ versions' = [versions EXCEPT ![m] = Append(@, s)]
      /\ Record(m, k, Entry("control", "none", r, writes[m] + 1))
      /\ Effect(m, k)

Edit(m, k, seen) == Rewrite(m, status[m], k, seen)

Restore(m, v, k, seen) ==
  /\ v \in DOMAIN versions[m]
  /\ Rewrite(m, versions[m][v], k, seen)

-----------------------------------------------------------------------------
(* Calls.                                                                  *)

Perform(kind, m, k, seen) ==
  /\ \/ kind = "transition" /\ \E a \in Actions : Transition(m, a, k, seen)
     \/ kind = "edit" /\ Edit(m, k, seen)
     \/ kind = "restore" /\ \E v \in DOMAIN versions[m] : Restore(m, v, k, seen)
  /\ UNCHANGED <<redacted, purge, scanned, review, purges, passes>>

\* In-memory: the whole call under the global lock.
Call(kind, m, k) ==
  /\ Serial
  /\ Perform(kind, m, k, audit[m][k] # None)
  /\ UNCHANGED calls

\* Postgres: the audit is read, and then the row lock is waited for.
BeginCall(c, kind, m, k) ==
  /\ ~Serial
  /\ calls[c] = None
  /\ calls' = [calls EXCEPT ![c] = [kind |-> kind, item |-> m, key |-> k,
                                    seen |-> audit[m][k] # None]]
  /\ UNCHANGED <<row, versions, audit, redacted, purge, scanned, review,
                 writes, effects, purges, passes>>

FinishCall(c) ==
  /\ calls[c] # None
  /\ Perform(calls[c].kind, calls[c].item, calls[c].key, calls[c].seen)
  /\ calls' = [calls EXCEPT ![c] = None]

\* The call finds its key used, or fails.
AbandonCall(c) ==
  /\ calls[c] # None
  /\ calls' = [calls EXCEPT ![c] = None]
  /\ UNCHANGED <<row, versions, audit, redacted, purge, scanned, review,
                 writes, effects, purges, passes>>

-----------------------------------------------------------------------------
(* SourceRedactionService.purge_source                                     *)

\* Mutant: removed items are not skipped.
Affected_Removed(s, rows) == {m \in Items : s \in SourcesOf[m]}

Affected(s, rows) == {m \in Items : s \in SourcesOf[m] /\ rows[m].status # "removed"}

\* Mutant: the status is named after the redaction.
RedactedStatus_OtherName(m, s) ==
  IF PrimaryOf[m] = s \/ SourcesOf[m] \subseteq {s} THEN "redacted" ELSE "needs_review"

RedactedStatus(m, s) ==
  IF PrimaryOf[m] = s \/ SourcesOf[m] \subseteq {s} THEN "invalid" ELSE "needs_review"

ApplyPurge(s, rows) ==
  LET hit == Affected(s, rows)
      New(m) == [rows[m] EXCEPT !.status = RedactedStatus(m, s), !.rev = @ + 1]
  IN  /\ redacted'  = redacted \cup {s}
      /\ status'    = [m \in Items |-> IF m \in hit THEN New(m).status ELSE status[m]]
      /\ pinned'    = [m \in Items |-> IF m \in hit THEN New(m).pinned ELSE pinned[m]]
      /\ rev'       = [m \in Items |-> IF m \in hit THEN New(m).rev ELSE rev[m]]
      /\ removedAt' = [m \in Items |-> IF m \in hit THEN New(m).removedAt ELSE removedAt[m]]
      /\ writes'    = [m \in Items |-> IF m \in hit THEN writes[m] + 1 ELSE writes[m]]
      /\ UNCHANGED <<versions, audit, calls, scanned, review, effects, passes>>

Purge(s) ==
  /\ Serial
  /\ purges < MaxPurges
  /\ purges' = purges + 1
  /\ ApplyPurge(s, [m \in Items |-> Row(m)])
  /\ UNCHANGED purge

\* Postgres: list_by_source_event takes no lock.
BeginPurge(s) ==
  /\ ~Serial
  /\ purge = None
  /\ purges < MaxPurges
  /\ purges' = purges + 1
  /\ purge' = [source |-> s, rows |-> [m \in Items |-> Row(m)]]
  /\ UNCHANGED <<row, versions, audit, redacted, calls, scanned, review,
                 writes, effects, passes>>

FinishPurge ==
  /\ purge # None
  /\ ApplyPurge(purge.source, purge.rows)
  /\ purge' = None
  /\ UNCHANGED purges

-----------------------------------------------------------------------------
(* DecayService.process_project: the scan, then for each item a write of   *)
(* the row as it was scanned and a transition, each a transaction.         *)

DecayCandidate(m) == status[m] \in {"active", "fading", "needs_review"} /\ ~removedAt[m]

Scan ==
  /\ scanned = NoRows /\ review = None
  /\ passes < MaxPasses
  /\ \E m \in Items : DecayCandidate(m)
  /\ passes' = passes + 1
  /\ scanned' = [m \in Items |-> IF DecayCandidate(m) THEN Row(m) ELSE None]
  /\ UNCHANGED <<row, versions, audit, redacted, calls, purge, review, writes,
                 effects, purges>>

\* Whether the score is below the threshold is a matter of dates.
WriteScore(m) ==
  LET r == scanned[m]
  IN  /\ review = None
      /\ r # None
      /\ Upsert(m, r)
      /\ writes' = [writes EXCEPT ![m] = IF r = Row(m) THEN @ ELSE @ + 1]
      /\ scanned' = [scanned EXCEPT ![m] = None]
      /\ \/ UNCHANGED review
         \/ ~r.pinned /\ r.status \in {"active", "fading"} /\ review' = m
      /\ UNCHANGED <<versions, audit, redacted, calls, purge, effects, purges, passes>>

\* A rejected or stale transition raises and ends the pass.
MarkForReview ==
  /\ review # None
  /\ \/ /\ audit[review][DecayKey] = None
        /\ \/ Succeed(review, "mark_needs_review", DecayKey) /\ UNCHANGED scanned
           \/ Reject(review, "mark_needs_review", DecayKey) /\ scanned' = NoRows
     \/ /\ audit[review][DecayKey] # None
        /\ scanned' = IF ReplaySucceeds(review, "mark_needs_review", DecayKey)
                        THEN scanned ELSE NoRows
        /\ UNCHANGED <<row, versions, audit, writes, effects>>
  /\ review' = None
  /\ UNCHANGED <<redacted, calls, purge, purges, passes>>

-----------------------------------------------------------------------------
Next ==
  \/ \E kind \in Kinds, m \in Items, k \in Keys :
        \/ Call(kind, m, k)
        \/ \E c \in Clients : BeginCall(c, kind, m, k)
  \/ \E c \in Clients : FinishCall(c) \/ AbandonCall(c)
  \/ \E s \in Sources : Purge(s) \/ BeginPurge(s)
  \/ FinishPurge
  \/ Scan
  \/ \E m \in Items : WriteScore(m)
  \/ MarkForReview

Spec == Init /\ [][Next]_vars

-----------------------------------------------------------------------------
Rows == [status : Statuses, pinned : BOOLEAN, rev : Nat, removedAt : BOOLEAN]
Entries == [stage : {"succeeded", "failed", "control"}, action : Actions \cup {"none"},
            status : Statuses, pinned : BOOLEAN, rev : Nat, stamp : Nat]

ASSUME NoneIsNoEntry == None \notin Entries

\* Type invariant: rows of items, versions and audit, requests and passes under way.
TypeOK ==
  /\ status \in [Items -> Statuses]
  /\ pinned \in [Items -> BOOLEAN]
  /\ rev \in [Items -> Nat]
  /\ removedAt \in [Items -> BOOLEAN]
  /\ versions \in [Items -> Seq(Statuses)]
  /\ audit \in [Items -> [AllKeys -> Entries \cup {None}]]
  /\ redacted \in SUBSET Sources
  /\ calls \in [Clients -> [kind : Kinds, item : Items, key : Keys, seen : BOOLEAN]
                             \cup {None}]
  /\ purge \in [source : Sources, rows : [Items -> Rows]] \cup {None}
  /\ scanned \in [Items -> Rows \cup {None}]
  /\ review \in Items \cup {None}
  /\ writes \in [Items -> Nat]
  /\ effects \in [Items -> [AllKeys -> Nat]]
  /\ purges \in Nat
  /\ passes \in Nat

(***************************************************************************)
(* A repeated request is answered with success only if nothing has changed *)
(* the item since the request was carried out: a change away and back, by  *)
(* whichever of the writers, is noticed.                                   *)
(***************************************************************************)
ReplayIsFresh ==
  \A m \in Items, a \in Actions, k \in AllKeys :
    ReplaySucceeds(m, a, k) => audit[m][k].stamp = writes[m]

(***************************************************************************)
(* The requests with one idempotency key change an item at most once,      *)
(* however often and however concurrently they are sent.                   *)
(***************************************************************************)
OneEffectPerKey == \A m \in Items, k \in AllKeys : effects[m][k] <= 1

(***************************************************************************)
(* A request that was rejected is never carried out later under its key.   *)
(***************************************************************************)
RejectedStaysRejected ==
  [][\A m \in Items, k \in AllKeys :
       audit[m][k] # None /\ audit[m][k].stage = "failed" => effects'[m][k] = effects[m][k]]_vars

(***************************************************************************)
(* A removed item comes back only by an explicit restore of a version: no  *)
(* transition, edit or purge of a source revives it.                       *)
(***************************************************************************)
RemovedOnlyRestored ==
  [][\A m \in Items : status[m] = "removed" /\ status'[m] # "removed" =>
       /\ Len(versions'[m]) = Len(versions[m]) + 1
       /\ \E v \in DOMAIN versions[m] : status'[m] = versions[m][v]]_vars

(***************************************************************************)
(* To whoever sends requests for an item under one key, the lifecycle is a *)
(* KeyedRequest: also when two of them, a decay pass and a purge run at    *)
(* the same time, one answer is given, and it tells whether they had their *)
(* one effect.                                                             *)
(***************************************************************************)
Refused == {e \in Entries : e.stage = "failed"}

Request(m, k) == INSTANCE KeyedRequest WITH
  Grants <- Entries \ Refused, Refusals <- Refused,
  answer <- audit[m][k], effects <- effects[m][k]

KeysArePromises ==
  /\ \A m \in Items, k \in AllKeys : Request(m, k)!Init
  /\ [][\A m \in Items, k \in AllKeys : [Request(m, k)!Next]_(Request(m, k)!vars)]_vars

=============================================================================
