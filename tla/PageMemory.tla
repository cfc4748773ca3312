------------------------------ MODULE PageMemory ------------------------------
(***************************************************************************)
(* The page of one scope (thread, group or project): rebuilt by workers    *)
(* from the latest source events with an LLM call between the transaction  *)
(* that reads and the one that writes, edited and restored by users, and   *)
(* flagged when a source event it cites is purged.                         *)
(*                                                                         *)
(* Serial: a transaction is one step (in-memory store). ~Serial: the       *)
(* writing transaction of a rebuild holds the page's lock from its checks  *)
(* to its commit, and a purge that finds no page to flag commits some time *)
(* after it has looked; either may come between the two of the other       *)
(* (Postgres).                                                             *)
(***************************************************************************)
EXTENDS Naturals, FiniteSets

CONSTANTS
  Events,        \* source events of the scope, ordered by event time
  SourceLimit,   \* source_event_limit: events a rebuild looks at
  Workers,       \* concurrent rebuilds, of jobs or of users
  Serial,
  EarlyPurges,   \* bound: whether events are purged before the first page is there
  MaxEdits, MaxRestores,  \* bounds: edits and restores by users
  MaxRebuilds,   \* bound: rebuilds started
  MaxPurging,    \* bound: purges at once that have looked and not committed
  None

ASSUME PageConstants ==
  /\ Events \subseteq Nat
  /\ SourceLimit \in Nat \ {0}
  /\ Serial \in BOOLEAN /\ EarlyPurges \in BOOLEAN
  /\ MaxEdits \in Nat /\ MaxRestores \in Nat /\ MaxRebuilds \in Nat
  /\ MaxPurging \in Nat

VARIABLES
  arrived,   \* source events stored
  purged,    \* those redacted
  page,      \* the row of memory_pages, or None
  history,   \* rows of memory_page_versions: version -> source_event_ids
  rebuilds,  \* what each worker is at
  covered,   \* history: the events the last rebuild looked at
  edits, restores, started,  \* counters of the bounds
  purging,   \* events whose purge found no page to flag and has not committed yet
  crossed    \* history: those of them since whose look at the pages one was written

pending == <<purging, crossed>>
vars == <<arrived, purged, page, history, rebuilds, covered, edits, restores, started, pending>>

\* list_recent_for_scope: redacted events are left out.
Live == arrived \ purged
Window == {e \in Live : Cardinality({f \in Live : f > e}) < SourceLimit}

Init ==
  /\ arrived  = {}
  /\ purged   = {}
  /\ page     = None
  /\ history  = [v \in {} |-> {}]
  /\ rebuilds = [w \in Workers |-> None]
  /\ covered  = {}
  /\ edits    = 0
  /\ restores = 0
  /\ started  = 0
  /\ purging  = {}
  /\ crossed  = {}

-----------------------------------------------------------------------------
InPhase(w, p) == rebuilds[w] # None /\ rebuilds[w].phase = p

\* The page's row and scope locks, held over more than one step by rebuilds only.
Unlocked == \A w \in Workers : ~InPhase(w, "locked")

\* The first row of a version stays.
Record(v, sources) ==
  history' = [u \in DOMAIN history \cup {v} |->
                IF u \in DOMAIN history THEN history[u] ELSE sources]

\* Mutant: versions count from zero.
WritePage_FromZero(sources, flag) ==
  LET v == IF page = None THEN 0 ELSE page.version + 1
  IN  /\ page' = [version |-> v, sources |-> sources, needsRebuild |-> flag]
      /\ Record(v, sources)

WritePage(sources, flag) ==
  LET v == IF page = None THEN 1 ELSE page.version + 1
  IN  /\ page' = [version |-> v, sources |-> sources, needsRebuild |-> flag]
      /\ Record(v, sources)

\* The purges under way have looked at the pages as they were before.
CrossPurges == crossed' = crossed \cup purging /\ UNCHANGED purging

Arrive(e) ==
  /\ e \notin arrived
  /\ arrived' = arrived \cup {e}
  /\ UNCHANGED <<purged, page, history, rebuilds, covered, edits, restores, started, pending>>

-----------------------------------------------------------------------------
(* SourceRedactionService.purge_source, as far as it is about pages.       *)

Cites(e) == page # None /\ e \in page.sources /\ ~page.needsRebuild

MarkNeedsRebuild(e) ==
  page' = IF Cites(e) THEN [page EXCEPT !.needsRebuild = TRUE] ELSE page

\* The row of the event is locked from its redaction to the commit.
MayPurge(e) ==
  /\ e \in arrived \ purging
  /\ EarlyPurges \/ page # None

\* An update of a row waits for its lock if the row as last committed matches,
\* and keeps it to the commit. With serial transactions the rest is one step too.
Purge(e) ==
  /\ MayPurge(e)
  /\ Serial \/ Cites(e)
  /\ Cites(e) => Unlocked
  /\ purged' = purged \cup {e}
  /\ MarkNeedsRebuild(e)
  /\ UNCHANGED <<arrived, history, rebuilds, covered, edits, restores, started, pending>>

\* The update finds no page to flag and locks none; the commit comes later.
PassBy(e) ==
  /\ ~Serial
  /\ MayPurge(e)
  /\ ~Cites(e)
  /\ Cardinality(purging) < MaxPurging
  /\ purging' = purging \cup {e}
  /\ UNCHANGED <<arrived, purged, page, history, rebuilds, covered, edits, restores, started,
                 crossed>>

EndPurge(e) ==
  /\ e \in purging
  /\ purging' = purging \ {e}
  /\ crossed' = crossed \ {e}
  /\ UNCHANGED <<arrived, page, history, rebuilds, covered, edits, restores, started>>

CommitPurge(e) ==
  /\ EndPurge(e)
  /\ purged' = purged \cup {e}

\* One of the later steps of the transaction fails.
AbortPurge(e) ==
  /\ EndPurge(e)
  /\ UNCHANGED purged

PurgeInSteps(e) == PassBy(e) \/ CommitPurge(e) \/ AbortPurge(e)

-----------------------------------------------------------------------------
(* PageMemoryWorker.maybe_rebuild and PageMemoryService.rebuild            *)

Flagged == page # None /\ page.needsRebuild

Request(w, reason) ==
  /\ rebuilds[w] = None
  /\ started < MaxRebuilds
  /\ started' = started + 1
  /\ rebuilds' = [rebuilds EXCEPT ![w] =
                   [phase |-> "triggered", reason |-> reason, base |-> 0, window |-> {},
                    sources |-> {}]]

\* PageMemoryPolicy.evaluate: a page that is flagged, or enough events that no
\* page covers. Whether these are enough depends on their number and length.
Trigger(w) ==
  /\ arrived # {}
  /\ \/ Flagged /\ Request(w, "needs_rebuild")
     \/ /\ ~Flagged
        /\ Window \ (IF page = None THEN {} ELSE page.sources) # {}
        /\ Request(w, "source_event_trigger")
  /\ UNCHANGED <<arrived, purged, page, history, covered, edits, restores, pending>>

\* ControlPageService.rebuild_page
RequestByUser(w) ==
  /\ page # None
  /\ Request(w, "manual_rebuild")
  /\ UNCHANGED <<arrived, purged, page, history, covered, edits, restores, pending>>

\* PageMemoryRebuildPlanner.plan, and the synthesis, which cites some of the
\* events it is given.
Plan(w) ==
  /\ InPhase(w, "triggered")
  /\ \E sources \in (SUBSET Window) \ {{}} :
       rebuilds' = [rebuilds EXCEPT ![w] =
                     [@ EXCEPT !.phase = "planned", !.window = Window,
                               !.base = IF page = None THEN 0 ELSE page.version,
                               !.sources = sources]]
  /\ UNCHANGED <<arrived, purged, page, history, covered, edits, restores, started, pending>>

\* The planner finds no events, the synthesis fails or is not valid, a crash.
Fail(w) ==
  /\ rebuilds[w] # None
  /\ rebuilds' = [rebuilds EXCEPT ![w] = None]
  /\ UNCHANGED <<arrived, purged, page, history, covered, edits, restores, started, pending>>

\* Mutants: the window is not compared; a flag that is gone is not noticed.
Stale_NoWindow(w) ==
  /\ page # None
  /\ rebuilds[w].reason = "needs_rebuild" /\ ~page.needsRebuild

Stale_NoFlag(w) ==
  /\ page # None
  /\ Window # rebuilds[w].window

\* What the writing transaction checks, if there is a page.
Stale(w) ==
  /\ page # None
  /\ \/ rebuilds[w].reason = "needs_rebuild" /\ ~page.needsRebuild
     \/ Window # rebuilds[w].window

\* Mutant: the version follows that of the page the plan was made from.
Write_PlannedVersion(w) ==
  /\ page' = [version |-> rebuilds[w].base + 1, sources |-> rebuilds[w].sources,
              needsRebuild |-> FALSE]
  /\ Record(rebuilds[w].base + 1, rebuilds[w].sources)
  /\ covered' = rebuilds[w].window
  /\ rebuilds' = [rebuilds EXCEPT ![w] = None]
  /\ CrossPurges
  /\ UNCHANGED <<arrived, purged, edits, restores, started>>

\* PageMemoryCommit.commit
Write(w) ==
  /\ WritePage(rebuilds[w].sources, FALSE)
  /\ covered' = rebuilds[w].window
  /\ rebuilds' = [rebuilds EXCEPT ![w] = None]
  /\ CrossPurges
  /\ UNCHANGED <<arrived, purged, edits, restores, started>>

\* PageMemoryRebuildNoOp
Drop(w) ==
  /\ InPhase(w, "planned") /\ Unlocked
  /\ Stale(w)
  /\ rebuilds' = [rebuilds EXCEPT ![w] = None]
  /\ UNCHANGED <<arrived, purged, page, history, covered, edits, restores, started, pending>>

Commit(w) ==
  /\ Serial
  /\ InPhase(w, "planned")
  /\ ~Stale(w)
  /\ Write(w)

Lock(w) ==
  /\ ~Serial
  /\ InPhase(w, "planned") /\ Unlocked
  /\ ~Stale(w)
  /\ rebuilds' = [rebuilds EXCEPT ![w].phase = "locked"]
  /\ UNCHANGED <<arrived, purged, page, history, covered, edits, restores, started, pending>>

CommitLocked(w) ==
  /\ InPhase(w, "locked")
  /\ Write(w)

-----------------------------------------------------------------------------
(* ControlPageService.edit_page and restore_page_version                   *)

Edit ==
  /\ page # None /\ Unlocked
  /\ edits < MaxEdits
  /\ edits' = edits + 1
  /\ WritePage(page.sources, page.needsRebuild)
  /\ UNCHANGED <<arrived, purged, rebuilds, covered, restores, started, pending>>

\* The flag of the page stays as it is.
Restore(v) ==
  /\ page # None /\ Unlocked
  /\ v \in DOMAIN history
  /\ restores < MaxRestores
  /\ restores' = restores + 1
  /\ WritePage(history[v], page.needsRebuild)
  /\ CrossPurges
  /\ UNCHANGED <<arrived, purged, rebuilds, covered, edits, started>>

-----------------------------------------------------------------------------
RebuildStep(w) ==
  \/ Trigger(w) \/ RequestByUser(w) \/ Plan(w) \/ Fail(w)
  \/ Drop(w) \/ Commit(w) \/ Lock(w) \/ CommitLocked(w)

Next ==
  \/ \E e \in Events : Arrive(e) \/ Purge(e) \/ PurgeInSteps(e)
  \/ \E w \in Workers : RebuildStep(w)
  \/ Edit
  \/ \E v \in DOMAIN history : Restore(v)

Spec == Init /\ [][Next]_vars

-----------------------------------------------------------------------------
Pages == [version : Nat \ {0}, sources : SUBSET Events, needsRebuild : BOOLEAN]
Rebuilds == [phase : {"triggered", "planned", "locked"},
             reason : {"needs_rebuild", "source_event_trigger", "manual_rebuild"},
             base : Nat, window : SUBSET Events, sources : SUBSET Events]

ASSUME NoneIsNoRow == None \notin Pages /\ None \notin Rebuilds

\* Type invariant: the page, its versions and the rebuilds under way.
TypeOK ==
  /\ arrived \in SUBSET Events
  /\ purged \in SUBSET Events
  /\ page \in Pages \cup {None}
  /\ DOMAIN history \subseteq Nat /\ \A v \in DOMAIN history : history[v] \in SUBSET Events
  /\ rebuilds \in [Workers -> Rebuilds \cup {None}]
  /\ covered \in SUBSET Events
  /\ edits \in Nat /\ restores \in Nat /\ started \in Nat
  /\ purging \in SUBSET Events /\ crossed \in SUBSET Events

(***************************************************************************)
(* A page that cites a purged source event is flagged for a rebuild,       *)
(* whatever rebuilds were under way when the event was purged.             *)
(***************************************************************************)
PurgedSourcesAreFlagged ==
  page # None /\ page.sources \cap purged # {} => page.needsRebuild

(***************************************************************************)
(* The versions of a page are without gaps and the last of them is the     *)
(* page: concurrent rebuilds, edits and restores lose no version and take  *)
(* no number twice.                                                        *)
(***************************************************************************)
HistoryIsComplete ==
  /\ page = None => DOMAIN history = {}
  /\ page # None => /\ DOMAIN history = 1 .. page.version
                    /\ history[page.version] = page.sources

(***************************************************************************)
(* With serial transactions a rebuild never takes back what a later one    *)
(* has brought in: of the events still in the window it leaves none aside  *)
(* that were covered. The proofs state it; runs check the next one.        *)
(***************************************************************************)
RebuildsDoNotRegress == [][covered \cap Window' \subseteq covered']_vars

(***************************************************************************)
(* With either store, a rebuild takes back what a later one has brought in *)
(* only if a purge met it at the end: it had the page's lock when a later  *)
(* event of its window was purged, which brought the earlier event back    *)
(* into the window.                                                        *)
(***************************************************************************)
Overtaken(w, e) == CommitLocked(w) /\ \E f \in rebuilds[w].window \cap purged : f > e

RegressesOnlyByPurge ==
  [][\A e \in covered \cap Window' : e \in covered' \/ \E w \in Workers : Overtaken(w, e)]_vars

(***************************************************************************)
(* A flag is answered by one rebuild: of the workers that saw it, those    *)
(* that come after the flag is gone write no page.                         *)
(***************************************************************************)
FlagsAreAnsweredOnce ==
  [][\A w \in Workers :
       /\ rebuilds[w] # None /\ rebuilds[w].reason = "needs_rebuild"
       /\ rebuilds'[w] = None /\ page' # page
       => page.needsRebuild]_vars

(***************************************************************************)
(* The page is a VersionedPage: rebuilds, edits, restores and purges that  *)
(* interleave add versions one after the other and alter none; the page    *)
(* shows the last, and its flag goes only with a rebuild.                  *)
(***************************************************************************)
Shown == INSTANCE VersionedPage WITH
  Contents <- (SUBSET Events) \ {{}},
  last     <- IF page = None THEN 0 ELSE page.version,
  versions <- history,
  shown    <- IF page = None THEN {} ELSE page.sources,
  flagged  <- Flagged

IsVersionedPage == Shown!Spec

(***************************************************************************)
(* With either store, a page comes to cite a purged event without a flag   *)
(* only as the first page of its scope, by a restored version, or by the   *)
(* overlap of two transactions: of a rebuild that held the lock when the   *)
(* purge of the event committed, or of a purge between whose look at the   *)
(* pages and commit the page was written. Who takes the lock of a page     *)
(* takes it with events that are not purged.                               *)
(***************************************************************************)
Unflagged == {e \in purged : page # None /\ e \in page.sources /\ ~page.needsRebuild}

SlipsIn(w) == InPhase(w, "locked") /\ rebuilds'[w] = None

LocksClean ==
  \A w \in Workers :
    ~InPhase(w, "locked") /\ InPhase(w, "locked")' /\ page # None
    => rebuilds[w].sources \cap purged = {}

PurgedSlipInOnly ==
  [][/\ LocksClean
     /\ \/ page = None \/ restores' # restores
        \/ \E w \in Workers : SlipsIn(w)
        \/ Unflagged' \ Unflagged \subseteq crossed]_vars

=============================================================================
