--------------------------- MODULE PageMemory_proofs ---------------------------
(***************************************************************************)
(* Proofs about PageMemory.                                                *)
(***************************************************************************)
EXTENDS PageMemory, FiniteSetTheorems, WellFoundedInduction, TLAPS

LEMMA WindowType == ASSUME TypeOK PROVE Window \in SUBSET Events
BY DEF TypeOK, Window, Live

LEMMA WritePageType ==
  ASSUME TypeOK, NEW sources \in SUBSET Events, NEW flag \in BOOLEAN,
         WritePage(sources, flag)
  PROVE  /\ page' \in Pages
         /\ DOMAIN history' \subseteq Nat
         /\ \A v \in DOMAIN history' : history'[v] \in SUBSET Events
<1> DEFINE n == IF page = None THEN 1 ELSE page.version + 1
<1>1. n \in Nat \ {0}
  BY DEF TypeOK, Pages
<1>2. page' = [version |-> n, sources |-> sources, needsRebuild |-> flag]
  BY DEF WritePage
<1>3. history' = [u \in DOMAIN history \cup {n} |->
                    IF u \in DOMAIN history THEN history[u] ELSE sources]
  BY DEF WritePage, Record
<1> HIDE DEF n
<1> QED
  BY <1>1, <1>2, <1>3 DEF TypeOK, Pages

LEMMA TypeInit == Init => TypeOK
BY DEF Init, TypeOK

LEMMA RebuildFields ==
  ASSUME TypeOK, NEW w \in Workers, rebuilds[w] # None PROVE rebuilds[w] \in Rebuilds
BY DEF TypeOK

LEMMA RebuildType ==
  ASSUME TypeOK, NEW w \in Workers, RebuildStep(w) PROVE TypeOK'
<1>1. ASSUME NEW reason \in {"needs_rebuild", "source_event_trigger", "manual_rebuild"},
             Request(w, reason)
      PROVE  rebuilds' \in [Workers -> Rebuilds \cup {None}] /\ started' \in Nat
  BY <1>1 DEF TypeOK, Request, Rebuilds
<1>2. CASE Trigger(w)
  BY <1>1, <1>2 DEF Trigger, TypeOK, pending
<1>3. CASE RequestByUser(w)
  BY <1>1, <1>3 DEF RequestByUser, TypeOK, pending
<1>4. CASE Plan(w)
  <2>1. PICK sources \in (SUBSET Window) \ {{}} :
          rebuilds' = [rebuilds EXCEPT ![w] =
                        [@ EXCEPT !.phase = "planned", !.window = Window,
                                  !.base = IF page = None THEN 0 ELSE page.version,
                                  !.sources = sources]]
    BY <1>4 DEF Plan
  <2>2. rebuilds[w] \in Rebuilds
    BY <1>4, RebuildFields DEF Plan, InPhase
  <2>3. (IF page = None THEN 0 ELSE page.version) \in Nat
    BY DEF TypeOK, Pages
  <2> DEFINE b == IF page = None THEN 0 ELSE page.version
  <2>4. [rebuilds[w] EXCEPT !.phase = "planned", !.window = Window, !.base = b,
                            !.sources = sources] \in Rebuilds
    <3>1. Window \in SUBSET Events /\ sources \in SUBSET Events
      BY WindowType
    <3> HIDE DEF b
    <3> QED
      BY <2>2, <2>3, <3>1 DEF Rebuilds, b
  <2>5. rebuilds' \in [Workers -> Rebuilds \cup {None}]
    BY <2>1, <2>4 DEF TypeOK
  <2> QED
    BY <1>4, <2>5 DEF Plan, TypeOK, pending
<1>5. CASE Fail(w)
  BY <1>5 DEF Fail, TypeOK, pending
<1>6. CASE Drop(w)
  BY <1>6 DEF Drop, TypeOK, pending
<1>7. CASE Lock(w)
  <2>1. rebuilds[w] \in Rebuilds
    BY <1>7, RebuildFields DEF Lock, InPhase
  <2>2. rebuilds' = [rebuilds EXCEPT ![w].phase = "locked"]
    BY <1>7 DEF Lock
  <2>3. [rebuilds[w] EXCEPT !.phase = "locked"] \in Rebuilds
    BY <2>1 DEF Rebuilds
  <2>4. rebuilds' \in [Workers -> Rebuilds \cup {None}]
    BY <2>2, <2>3 DEF TypeOK
  <2> QED
    BY <1>7, <2>4 DEF Lock, TypeOK, pending
<1>8. CASE Commit(w) \/ CommitLocked(w)
  <2>1. rebuilds[w] \in Rebuilds /\ Write(w)
    BY <1>8, RebuildFields DEF Commit, CommitLocked, InPhase
  <2>2. rebuilds[w].sources \in SUBSET Events /\ rebuilds[w].window \in SUBSET Events
    BY <2>1 DEF Rebuilds
  <2>3. /\ page' \in Pages
        /\ DOMAIN history' \subseteq Nat
        /\ \A v \in DOMAIN history' : history'[v] \in SUBSET Events
    BY <2>1, <2>2, WritePageType DEF Write
  <2> QED
    BY <2>1, <2>2, <2>3 DEF Write, TypeOK, pending, CrossPurges
<1> QED
  BY <1>2, <1>3, <1>4, <1>5, <1>6, <1>7, <1>8 DEF RebuildStep

\* A purge that takes several steps leaves the page and the rebuilds alone.
LEMMA InStepsFrame ==
  ASSUME NEW e \in Events, PurgeInSteps(e)
  PROVE  /\ UNCHANGED <<arrived, page, history, rebuilds, covered, edits, restores, started>>
         /\ purged \subseteq purged'
BY DEF PurgeInSteps, PassBy, CommitPurge, AbortPurge, EndPurge

LEMMA TypeStep == TypeOK /\ [Next]_vars => TypeOK'
<1> SUFFICES ASSUME TypeOK, [Next]_vars PROVE TypeOK'
  OBVIOUS
<1>1. ASSUME NEW e \in Events, Arrive(e) PROVE TypeOK'
  BY <1>1 DEF Arrive, TypeOK, pending
<1>2. ASSUME NEW e \in Events, Purge(e) PROVE TypeOK'
  <2>1. page' \in Pages \cup {None}
    BY <1>2 DEF Purge, MarkNeedsRebuild, Cites, TypeOK, Pages
  <2> QED
    BY <1>2, <2>1 DEF Purge, MayPurge, TypeOK, pending
<1>7. ASSUME NEW e \in Events, PurgeInSteps(e) PROVE TypeOK'
  <2>1. purged' \in SUBSET Events /\ purging' \in SUBSET Events /\ crossed' \in SUBSET Events
    BY <1>7 DEF PurgeInSteps, PassBy, CommitPurge, AbortPurge, EndPurge, TypeOK
  <2> QED
    BY <1>7, <2>1, InStepsFrame DEF TypeOK
<1>3. ASSUME Edit PROVE TypeOK'
  <2>1. page.sources \in SUBSET Events /\ page.needsRebuild \in BOOLEAN
    BY <1>3 DEF Edit, TypeOK, Pages
  <2>2. /\ page' \in Pages
        /\ DOMAIN history' \subseteq Nat
        /\ \A v \in DOMAIN history' : history'[v] \in SUBSET Events
    BY <1>3, <2>1, WritePageType DEF Edit
  <2> QED
    BY <1>3, <2>2 DEF Edit, TypeOK, pending
<1>4. ASSUME NEW v \in DOMAIN history, Restore(v) PROVE TypeOK'
  <2>1. history[v] \in SUBSET Events /\ page.needsRebuild \in BOOLEAN
    BY <1>4 DEF Restore, TypeOK, Pages
  <2>2. /\ page' \in Pages
        /\ DOMAIN history' \subseteq Nat
        /\ \A u \in DOMAIN history' : history'[u] \in SUBSET Events
    BY <1>4, <2>1, WritePageType DEF Restore
  <2> QED
    BY <1>4, <2>2 DEF Restore, TypeOK, CrossPurges
<1>5. CASE UNCHANGED vars
  BY <1>5 DEF vars, pending, TypeOK
<1> QED
  BY <1>1, <1>2, <1>3, <1>4, <1>5, <1>7, RebuildType DEF Next

(***************************************************************************)
(* The state stays well typed, whatever the store and the bounds.          *)
(***************************************************************************)
THEOREM TypeCorrect == Spec => []TypeOK
BY TypeInit, TypeStep, PTL DEF Spec

-----------------------------------------------------------------------------
(* The versions of a page                                                   *)

LEMMA WritePageHistory ==
  ASSUME TypeOK, HistoryIsComplete, NEW sources \in SUBSET Events, NEW flag \in BOOLEAN,
         WritePage(sources, flag)
  PROVE  HistoryIsComplete'
<1>1. page' # None
  BY WritePageType, NoneIsNoRow
<1> DEFINE n == IF page = None THEN 1 ELSE page.version + 1
<1>2. page'.version = n /\ page'.sources = sources
  BY DEF WritePage
<1>3. history' = [u \in DOMAIN history \cup {n} |->
                    IF u \in DOMAIN history THEN history[u] ELSE sources]
  BY DEF WritePage, Record
<1>4. n \in Nat \ {0} /\ DOMAIN history = 1 .. (n - 1)
  <2>1. CASE page = None
    BY <2>1 DEF HistoryIsComplete
  <2>2. CASE page # None
    BY <2>2 DEF HistoryIsComplete, TypeOK, Pages
  <2> QED
    BY <2>1, <2>2
<1> HIDE DEF n
<1>5. DOMAIN history \cup {n} = 1 .. n /\ n \notin DOMAIN history
  BY <1>4
<1>6. DOMAIN history' = 1 .. n /\ history'[n] = sources
  BY <1>3, <1>5
<1> QED
  BY <1>1, <1>2, <1>6 DEF HistoryIsComplete

LEMMA HistoryStep == TypeOK /\ HistoryIsComplete /\ [Next]_vars => HistoryIsComplete'
<1> SUFFICES ASSUME TypeOK, HistoryIsComplete, [Next]_vars PROVE HistoryIsComplete'
  OBVIOUS
<1>1. ASSUME NEW e \in Events, Arrive(e) PROVE HistoryIsComplete'
  BY <1>1 DEF Arrive, HistoryIsComplete
<1>2. ASSUME NEW e \in Events, Purge(e) PROVE HistoryIsComplete'
  <2>1. CASE Cites(e)
    <3>1. page # None /\ page' = [page EXCEPT !.needsRebuild = TRUE] /\ history' = history
      BY <1>2, <2>1 DEF Purge, MarkNeedsRebuild, Cites
    <3>2. page \in Pages
      BY <3>1 DEF TypeOK
    <3>3. page' \in Pages /\ page'.version = page.version /\ page'.sources = page.sources
      BY <3>1, <3>2 DEF Pages
    <3> QED
      BY <3>1, <3>3, NoneIsNoRow DEF HistoryIsComplete
  <2>2. CASE ~Cites(e)
    BY <1>2, <2>2 DEF Purge, MarkNeedsRebuild, HistoryIsComplete
  <2> QED
    BY <2>1, <2>2
<1>3. ASSUME NEW w \in Workers, RebuildStep(w) PROVE HistoryIsComplete'
  <2>1. CASE Write(w) /\ rebuilds[w] # None
    <3>1. rebuilds[w].sources \in SUBSET Events
      BY <2>1, RebuildFields DEF Rebuilds
    <3> QED
      BY <2>1, <3>1, WritePageHistory DEF Write
  <2>2. CASE UNCHANGED <<page, history>>
    BY <2>2 DEF HistoryIsComplete
  <2>3. (Write(w) /\ rebuilds[w] # None) \/ UNCHANGED <<page, history>>
    BY <1>3 DEF RebuildStep, Trigger, RequestByUser, Plan, Fail, Drop, Commit, Lock,
                CommitLocked, InPhase
  <2> QED
    BY <2>1, <2>2, <2>3
<1>4. ASSUME Edit PROVE HistoryIsComplete'
  <2>1. page.sources \in SUBSET Events /\ page.needsRebuild \in BOOLEAN
    BY <1>4 DEF Edit, TypeOK, Pages
  <2> QED
    BY <1>4, <2>1, WritePageHistory DEF Edit
<1>5. ASSUME NEW v \in DOMAIN history, Restore(v) PROVE HistoryIsComplete'
  <2>1. history[v] \in SUBSET Events /\ page.needsRebuild \in BOOLEAN
    BY <1>5 DEF Restore, TypeOK, Pages
  <2> QED
    BY <1>5, <2>1, WritePageHistory DEF Restore
<1>6. CASE UNCHANGED vars
  BY <1>6 DEF vars, pending, HistoryIsComplete
<1>7. ASSUME NEW e \in Events, PurgeInSteps(e) PROVE HistoryIsComplete'
  BY <1>7, InStepsFrame DEF HistoryIsComplete
<1> QED
  BY <1>1, <1>2, <1>3, <1>4, <1>5, <1>6, <1>7 DEF Next

(***************************************************************************)
(* The versions of a page are without gaps and end with the page, for      *)
(* either store and any number of rebuilds, edits and restores.            *)
(***************************************************************************)
THEOREM HistoryCorrect == Spec => []HistoryIsComplete
<1>1. Init => HistoryIsComplete
  BY DEF Init, HistoryIsComplete
<1> QED
  BY <1>1, TypeCorrect, HistoryStep, PTL DEF Spec

-----------------------------------------------------------------------------
(* Purged sources are flagged. What must be known of the rebuilds that are  *)
(* under way: they cite events of their window, some once they are planned, *)
(* and none stands between its checks and its commit.                       *)

CitesItsWindow(w) ==
  rebuilds[w] # None =>
    /\ rebuilds[w].sources \subseteq rebuilds[w].window
    /\ rebuilds[w].phase # "triggered" => rebuilds[w].sources # {}

FlaggedInv ==
  /\ TypeOK
  /\ restores = 0
  /\ page = None => purged = {}
  /\ Unlocked
  /\ \A w \in Workers : CitesItsWindow(w)
  /\ PurgedSourcesAreFlagged
  /\ purging = {}

\* A worker's step leaves every rebuild citing events of its window.
LEMMA CitesStep ==
  ASSUME TypeOK, NEW w \in Workers, RebuildStep(w), \A u \in Workers : CitesItsWindow(u)
  PROVE  \A u \in Workers : CitesItsWindow(u)'
<1> SUFFICES ASSUME NEW u \in Workers PROVE CitesItsWindow(u)'
  OBVIOUS
<1>1. ASSUME NEW reason, Request(w, reason) PROVE CitesItsWindow(u)'
  BY <1>1 DEF Request, CitesItsWindow, TypeOK
<1>2. CASE Trigger(w) \/ RequestByUser(w)
  BY <1>1, <1>2 DEF Trigger, RequestByUser
<1>3. CASE Plan(w)
  <2>1. PICK sources \in (SUBSET Window) \ {{}} :
          rebuilds' = [rebuilds EXCEPT ![w] =
                        [@ EXCEPT !.phase = "planned", !.window = Window,
                                  !.base = IF page = None THEN 0 ELSE page.version,
                                  !.sources = sources]]
    BY <1>3 DEF Plan
  <2>2. rebuilds[w] \in Rebuilds
    BY <1>3, RebuildFields DEF Plan, InPhase
  <2>3. rebuilds'[w].sources = sources /\ rebuilds'[w].window = Window
    BY <2>1, <2>2 DEF TypeOK, Rebuilds
  <2>4. u # w => rebuilds'[u] = rebuilds[u]
    BY <2>1 DEF TypeOK
  <2> QED
    BY <2>3, <2>4 DEF CitesItsWindow
<1>4. CASE rebuilds' = [rebuilds EXCEPT ![w] = None]
  BY <1>4 DEF CitesItsWindow, TypeOK
<1>5. CASE Lock(w)
  <2>1. rebuilds[w] \in Rebuilds /\ rebuilds' = [rebuilds EXCEPT ![w].phase = "locked"]
    BY <1>5, RebuildFields DEF Lock, InPhase
  <2>2. rebuilds'[w].sources = rebuilds[w].sources /\ rebuilds'[w].window = rebuilds[w].window
    BY <2>1 DEF TypeOK, Rebuilds
  <2>3. u # w => rebuilds'[u] = rebuilds[u]
    BY <2>1 DEF TypeOK
  <2>4. rebuilds[w] # None /\ rebuilds[w].phase = "planned"
    BY <1>5 DEF Lock, InPhase
  <2> QED
    BY <2>2, <2>3, <2>4 DEF CitesItsWindow
<1> QED
  BY <1>2, <1>3, <1>4, <1>5 DEF RebuildStep, Fail, Drop, Commit, CommitLocked, Write

\* With serial transactions no worker is ever between its checks and its commit.
LEMMA SerialUnlocked ==
  ASSUME Serial, TypeOK, Unlocked, [Next]_vars PROVE Unlocked'
<1> SUFFICES ASSUME NEW u \in Workers PROVE ~InPhase(u, "locked")'
  BY DEF Unlocked
<1>1. CASE UNCHANGED rebuilds
  BY <1>1 DEF Unlocked, InPhase
<1>2. ASSUME NEW w \in Workers, RebuildStep(w) PROVE ~InPhase(u, "locked")'
  <2>1. ASSUME NEW reason, Request(w, reason) PROVE ~InPhase(u, "locked")'
    BY <2>1 DEF Request, InPhase, Unlocked, TypeOK
  <2>2. CASE Trigger(w) \/ RequestByUser(w)
    BY <2>1, <2>2 DEF Trigger, RequestByUser
  <2>3. CASE Plan(w)
    <3>1. PICK sources \in (SUBSET Window) \ {{}} :
            rebuilds' = [rebuilds EXCEPT ![w] =
                          [@ EXCEPT !.phase = "planned", !.window = Window,
                                    !.base = IF page = None THEN 0 ELSE page.version,
                                    !.sources = sources]]
      BY <2>3 DEF Plan
    <3>2. rebuilds[w] \in Rebuilds
      BY <2>3, RebuildFields DEF Plan, InPhase
    <3>3. rebuilds'[w].phase = "planned"
      BY <3>1, <3>2 DEF TypeOK, Rebuilds
    <3>4. u # w => rebuilds'[u] = rebuilds[u]
      BY <3>1 DEF TypeOK
    <3> QED
      BY <3>3, <3>4 DEF InPhase, Unlocked
  <2>4. CASE rebuilds' = [rebuilds EXCEPT ![w] = None]
    BY <2>4 DEF InPhase, Unlocked, TypeOK
  <2> QED
    BY <1>2, <2>2, <2>3, <2>4
    DEF RebuildStep, Fail, Drop, Commit, Lock, CommitLocked, Write, Unlocked
<1> QED
  BY <1>1, <1>2, InStepsFrame DEF Next, Arrive, Purge, Edit, Restore, vars

LEMMA FlaggedStep ==
  ASSUME Serial, ~EarlyPurges, MaxRestores = 0, FlaggedInv, [Next]_vars
  PROVE  FlaggedInv'
<1> USE DEF FlaggedInv
<1>0. purging' = {}
  <2>1. \A e \in Events : ~PurgeInSteps(e)
    BY DEF PurgeInSteps, PassBy, CommitPurge, AbortPurge, EndPurge
  <2> QED
    BY <2>1
    DEF Next, Arrive, Purge, RebuildStep, Trigger, RequestByUser, Plan, Fail, Drop, Commit,
        Lock, CommitLocked, Write, Edit, Restore, CrossPurges, vars, pending
<1>1. TypeOK' /\ Unlocked'
  BY TypeStep, SerialUnlocked
<1>2. ASSUME NEW e \in Events, Arrive(e) PROVE FlaggedInv'
  BY <1>0, <1>1, <1>2 DEF Arrive, CitesItsWindow, PurgedSourcesAreFlagged
<1>3. ASSUME NEW e \in Events, Purge(e) PROVE FlaggedInv'
  <2>1. page # None /\ page \in Pages
    BY <1>3 DEF Purge, MayPurge, TypeOK
  <2>2. CASE Cites(e)
    <3>1. page' \in Pages /\ page'.needsRebuild
      BY <1>3, <2>1, <2>2 DEF Purge, MarkNeedsRebuild, Pages
    <3>2. page' # None
      BY <3>1, NoneIsNoRow
    <3> QED
      BY <1>0, <1>1, <1>3, <3>1, <3>2 DEF Purge, CitesItsWindow, PurgedSourcesAreFlagged
  <2>3. CASE ~Cites(e)
    <3>1. page' = page /\ purged' = purged \cup {e}
      BY <1>3, <2>3 DEF Purge, MarkNeedsRebuild
    <3>2. e \notin page.sources \/ page.needsRebuild
      BY <2>1, <2>3 DEF Cites
    <3> QED
      BY <1>0, <1>1, <1>3, <2>1, <3>1, <3>2 DEF Purge, CitesItsWindow, PurgedSourcesAreFlagged
  <2> QED
    BY <2>2, <2>3
<1>4. ASSUME NEW w \in Workers, RebuildStep(w) PROVE FlaggedInv'
  <2>1. \A u \in Workers : CitesItsWindow(u)'
    BY <1>4, CitesStep
  <2>2. CASE UNCHANGED <<page, purged, restores>>
    BY <1>0, <1>1, <2>1, <2>2 DEF PurgedSourcesAreFlagged
  <2>3. CASE Commit(w)
    <3>1. rebuilds[w] \in Rebuilds /\ CitesItsWindow(w) /\ rebuilds[w] # None
      BY <2>3, RebuildFields DEF Commit, InPhase
    <3>2. page' \in Pages /\ page'.sources = rebuilds[w].sources
      <4>1. rebuilds[w].sources \in SUBSET Events
        BY <3>1 DEF Rebuilds
      <4> QED
        BY <2>3, <4>1, WritePageType DEF Commit, Write, WritePage
    <3>3. rebuilds[w].sources \cap purged = {}
      <4>1. CASE page = None
        BY <4>1
      <4>2. CASE page # None
        <5>1. Window = rebuilds[w].window
          BY <2>3, <4>2 DEF Commit, Stale
        <5> QED
          BY <3>1, <5>1 DEF CitesItsWindow, Window, Live
      <4> QED
        BY <4>1, <4>2
    <3>4. purged' = purged /\ restores' = restores /\ page' # None
      BY <2>3, <3>2, NoneIsNoRow DEF Commit, Write
    <3> QED
      BY <1>0, <1>1, <2>1, <3>2, <3>3, <3>4 DEF PurgedSourcesAreFlagged
  <2> QED
    BY <1>4, <2>2, <2>3
    DEF RebuildStep, Trigger, RequestByUser, Plan, Fail, Drop, Lock, CommitLocked, Unlocked
<1>5. ASSUME Edit PROVE FlaggedInv'
  <2>1. page.sources \in SUBSET Events /\ page.needsRebuild \in BOOLEAN
    BY <1>5 DEF Edit, TypeOK, Pages
  <2>2. page' # None
    BY <1>5, <2>1, WritePageType, NoneIsNoRow DEF Edit
  <2>3. page'.sources = page.sources /\ page'.needsRebuild = page.needsRebuild
    BY <1>5 DEF Edit, WritePage
  <2> QED
    BY <1>0, <1>1, <1>5, <2>2, <2>3 DEF Edit, CitesItsWindow, PurgedSourcesAreFlagged
<1>6. ASSUME NEW v \in DOMAIN history, Restore(v) PROVE FlaggedInv'
  BY <1>6 DEF Restore
<1>7. CASE UNCHANGED vars
  BY <1>0, <1>1, <1>7 DEF vars, CitesItsWindow, PurgedSourcesAreFlagged
<1>8. ASSUME NEW e \in Events, PurgeInSteps(e) PROVE FALSE
  BY <1>8 DEF PurgeInSteps, PassBy, CommitPurge, AbortPurge, EndPurge
<1> QED
  BY <1>2, <1>3, <1>4, <1>5, <1>6, <1>7, <1>8 DEF Next

(***************************************************************************)
(* With serial transactions, and while no event is purged before the first *)
(* page is there and no version is restored, a page that cites a purged    *)
(* event is flagged, for any events, window and number of rebuilds. The    *)
(* runs of early purges and of restores show why these are excluded; with  *)
(* read-committed transactions a purge can fall between the last look of a *)
(* rebuild at its window and its write.                                    *)
(***************************************************************************)
THEOREM FlaggedCorrect ==
  ASSUME Serial, ~EarlyPurges, MaxRestores = 0 PROVE Spec => []PurgedSourcesAreFlagged
<1>1. Init => FlaggedInv
  BY TypeInit DEF Init, FlaggedInv, Unlocked, InPhase, CitesItsWindow, PurgedSourcesAreFlagged
<1>2. FlaggedInv /\ [Next]_vars => FlaggedInv'
  BY FlaggedStep
<1>3. FlaggedInv => PurgedSourcesAreFlagged
  BY DEF FlaggedInv
<1> QED
  BY <1>1, <1>2, <1>3, PTL DEF Spec

-----------------------------------------------------------------------------
(* Rebuilds do not regress.                                                 *)

\* There is never no page again.
LEMMA PageStays == ASSUME TypeOK, [Next]_vars, page # None PROVE page' # None
<1>1. page.sources \in SUBSET Events /\ page.needsRebuild \in BOOLEAN
  BY DEF TypeOK, Pages
<1>2. ASSUME NEW sources \in SUBSET Events, NEW flag \in BOOLEAN, WritePage(sources, flag)
      PROVE  page' # None
  BY <1>2, WritePageType, NoneIsNoRow
<1>3. ASSUME NEW e \in Events, Purge(e) PROVE page' # None
  <2>1. [page EXCEPT !.needsRebuild = TRUE] \in Pages
    BY DEF TypeOK, Pages
  <2> QED
    BY <1>3, <2>1, NoneIsNoRow DEF Purge, MarkNeedsRebuild
<1>4. ASSUME NEW w \in Workers, RebuildStep(w) PROVE page' # None
  <2>1. CASE Write(w) /\ rebuilds[w] # None
    <3>1. rebuilds[w].sources \in SUBSET Events
      BY <2>1, RebuildFields DEF Rebuilds
    <3> QED
      BY <2>1, <3>1, <1>2 DEF Write
  <2>2. (Write(w) /\ rebuilds[w] # None) \/ UNCHANGED page
    BY <1>4 DEF RebuildStep, Trigger, RequestByUser, Plan, Fail, Drop, Commit, Lock,
                CommitLocked, InPhase
  <2> QED
    BY <2>1, <2>2
<1>5. ASSUME Edit PROVE page' # None
  BY <1>1, <1>2, <1>5 DEF Edit
<1>6. ASSUME NEW v \in DOMAIN history, Restore(v) PROVE page' # None
  <2>1. history[v] \in SUBSET Events
    BY DEF TypeOK
  <2> QED
    BY <1>1, <1>2, <1>6, <2>1 DEF Restore
<1> QED
  BY <1>3, <1>4, <1>5, <1>6, InStepsFrame DEF Next, Arrive, vars

RegressInv == TypeOK /\ Unlocked /\ (page = None => covered = {})

LEMMA RegressStep ==
  ASSUME Serial, RegressInv, [Next]_vars
  PROVE  RegressInv' /\ (covered \cap Window' \subseteq covered' \/ UNCHANGED vars)
<1> USE DEF RegressInv
<1>1. TypeOK' /\ Unlocked'
  BY TypeStep, SerialUnlocked
<1>2. ASSUME NEW w \in Workers, Commit(w)
      PROVE  page' # None /\ covered \cap Window' \subseteq covered'
  <2>1. rebuilds[w] \in Rebuilds
    BY <1>2, RebuildFields DEF Commit, InPhase
  <2>2. page' # None
    BY <1>2, <2>1, WritePageType, NoneIsNoRow DEF Commit, Write, Rebuilds
  <2>3. page # None => Window' = covered'
    BY <1>2 DEF Commit, Write, Stale, Window, Live
  <2> QED
    BY <2>2, <2>3
<1>3. CASE UNCHANGED covered /\ (page' = None => page = None)
  BY <1>1, <1>3
<1>4. ASSUME NEW e \in Events, Arrive(e) \/ Purge(e)
      PROVE  UNCHANGED covered /\ (page' = None => page = None)
  <2>1. page # None => page \in Pages
    BY DEF TypeOK
  <2>2. page # None => [page EXCEPT !.needsRebuild = TRUE] \in Pages
    BY <2>1 DEF Pages
  <2> QED
    BY <1>4, <2>2, NoneIsNoRow DEF Arrive, Purge, MarkNeedsRebuild
<1>5. ASSUME Edit \/ (\E v \in DOMAIN history : Restore(v))
      PROVE  UNCHANGED covered
  BY <1>5 DEF Edit, Restore
<1>6. ASSUME Edit \/ (\E v \in DOMAIN history : Restore(v)) PROVE page # None /\ page' # None
  <2>1. page # None
    BY <1>6 DEF Edit, Restore
  <2>2. page.sources \in SUBSET Events /\ page.needsRebuild \in BOOLEAN
    BY <2>1 DEF TypeOK, Pages
  <2>3. \A v \in DOMAIN history : history[v] \in SUBSET Events
    BY DEF TypeOK
  <2> QED
    BY <1>6, <2>1, <2>2, <2>3, WritePageType, NoneIsNoRow DEF Edit, Restore
<1>7. ASSUME NEW w \in Workers, RebuildStep(w), ~Commit(w) PROVE UNCHANGED <<page, covered>>
  BY <1>7 DEF RebuildStep, Trigger, RequestByUser, Plan, Fail, Drop, Lock, CommitLocked, Unlocked
<1> QED
  BY <1>1, <1>2, <1>3, <1>4, <1>5, <1>6, <1>7, InStepsFrame DEF Next, vars

(***************************************************************************)
(* With serial transactions a rebuild never takes back what a later one    *)
(* has brought in.                                                         *)
(***************************************************************************)
THEOREM NoRegress == ASSUME Serial PROVE Spec => RebuildsDoNotRegress
<1> DEFINE A == covered \cap Window' \subseteq covered'
<1>1. Init => RegressInv
  BY TypeInit DEF Init, RegressInv, Unlocked, InPhase
<1>2. RegressInv /\ [Next]_vars => RegressInv' /\ [A]_vars
  BY RegressStep
<1> QED
  BY <1>1, <1>2, PTL DEF Spec, RebuildsDoNotRegress

-----------------------------------------------------------------------------
(* A flag is answered once.                                                 *)

AnswersFlag(w) == rebuilds[w] # None /\ rebuilds[w].reason = "needs_rebuild"

AnswerInv ==
  /\ TypeOK
  /\ Serial => Unlocked
  /\ \A u, w \in Workers : InPhase(u, "locked") /\ InPhase(w, "locked") => u = w
  /\ \A w \in Workers : AnswersFlag(w) => page # None
  /\ \A w \in Workers : AnswersFlag(w) /\ InPhase(w, "locked") => page.needsRebuild

\* What a worker's step does to its own row, and that it leaves the others alone.
LEMMA WorkerFrame ==
  ASSUME TypeOK, NEW w \in Workers, RebuildStep(w)
  PROVE  /\ \A u \in Workers \ {w} : rebuilds'[u] = rebuilds[u]
         /\ InPhase(w, "locked")' => Lock(w)
         /\ AnswersFlag(w)' => AnswersFlag(w) \/ (Flagged /\ UNCHANGED page)
<1>1. ASSUME NEW reason, Request(w, reason)
      PROVE  /\ \A u \in Workers \ {w} : rebuilds'[u] = rebuilds[u]
             /\ ~InPhase(w, "locked")'
             /\ rebuilds'[w].reason = reason
  BY <1>1 DEF Request, InPhase, TypeOK
<1>2. CASE Trigger(w)
  BY <1>1, <1>2 DEF Trigger, AnswersFlag
<1>3. CASE RequestByUser(w)
  BY <1>1, <1>3 DEF RequestByUser, AnswersFlag
<1>4. CASE Plan(w)
  <2>1. PICK sources \in (SUBSET Window) \ {{}} :
          rebuilds' = [rebuilds EXCEPT ![w] =
                        [@ EXCEPT !.phase = "planned", !.window = Window,
                                  !.base = IF page = None THEN 0 ELSE page.version,
                                  !.sources = sources]]
    BY <1>4 DEF Plan
  <2>2. rebuilds[w] \in Rebuilds /\ rebuilds[w] # None
    BY <1>4, RebuildFields DEF Plan, InPhase
  <2>3. rebuilds'[w].phase = "planned" /\ rebuilds'[w].reason = rebuilds[w].reason
    BY <2>1, <2>2 DEF TypeOK, Rebuilds
  <2>4. \A u \in Workers \ {w} : rebuilds'[u] = rebuilds[u]
    BY <2>1 DEF TypeOK
  <2> QED
    BY <2>2, <2>3, <2>4 DEF InPhase, AnswersFlag
<1>5. CASE Lock(w)
  <2>1. rebuilds[w] \in Rebuilds /\ rebuilds[w] # None
    BY <1>5, RebuildFields DEF Lock, InPhase
  <2>2. rebuilds'[w].reason = rebuilds[w].reason
    BY <1>5, <2>1 DEF Lock, TypeOK, Rebuilds
  <2>3. \A u \in Workers \ {w} : rebuilds'[u] = rebuilds[u]
    BY <1>5 DEF Lock, TypeOK
  <2> QED
    BY <1>5, <2>1, <2>2, <2>3 DEF AnswersFlag
<1>6. CASE rebuilds' = [rebuilds EXCEPT ![w] = None]
  BY <1>6 DEF InPhase, AnswersFlag, TypeOK
<1> QED
  BY <1>2, <1>3, <1>4, <1>5, <1>6 DEF RebuildStep, Fail, Drop, Commit, CommitLocked, Write

LEMMA AnswerStep ==
  ASSUME AnswerInv, [Next]_vars
  PROVE  AnswerInv' /\ (UNCHANGED vars \/ \A w \in Workers :
                          AnswersFlag(w) /\ rebuilds'[w] = None /\ page' # page
                          => page.needsRebuild)
<1> USE DEF AnswerInv
<1> DEFINE Once == \A w \in Workers :
                     AnswersFlag(w) /\ rebuilds'[w] = None /\ page' # page
                     => page.needsRebuild
<1>1. TypeOK' /\ (Serial => Unlocked')
  BY TypeStep, SerialUnlocked
<1>2. page # None => page' # None
  <2>1. page' \in Pages \cup {None}
    BY <1>1 DEF TypeOK
  <2> QED
    BY <2>1, PageStays
<1>3. ASSUME UNCHANGED rebuilds,
             \/ Unlocked
             \/ page.needsRebuild => page'.needsRebuild
      PROVE  AnswerInv'
  BY <1>1, <1>2, <1>3 DEF AnswersFlag, InPhase, Unlocked
<1>4. ASSUME NEW e \in Events, Arrive(e) \/ Purge(e) PROVE AnswerInv' /\ Once
  <2>1. page.needsRebuild => page'.needsRebuild
    <3>1. ~Cites(e) \/ ~page.needsRebuild
      BY DEF Cites
    <3> QED
      BY <1>4, <3>1 DEF Arrive, Purge, MarkNeedsRebuild
  <2>2. UNCHANGED rebuilds
    BY <1>4 DEF Arrive, Purge
  <2> QED
    BY <1>3, <2>1, <2>2 DEF AnswersFlag
<1>5. ASSUME Edit \/ (\E v \in DOMAIN history : Restore(v)) PROVE AnswerInv' /\ Once
  BY <1>3, <1>5 DEF Edit, Restore, AnswersFlag
<1>6. ASSUME NEW w \in Workers, RebuildStep(w) PROVE AnswerInv' /\ Once
  <2>1. /\ \A u \in Workers \ {w} : rebuilds'[u] = rebuilds[u]
        /\ InPhase(w, "locked")' => Lock(w)
        /\ AnswersFlag(w)' => AnswersFlag(w) \/ (Flagged /\ UNCHANGED page)
    BY <1>6, WorkerFrame
  <2>2. \A u \in Workers : AnswersFlag(u)' => page' # None
    BY <1>2, <2>1 DEF AnswersFlag, Flagged
  <2>3. Lock(w) => Unlocked /\ ~Stale(w) /\ UNCHANGED page
    BY DEF Lock
  <2>4. \A u \in Workers : InPhase(u, "locked")' /\ u # w => InPhase(u, "locked")
    BY <2>1 DEF InPhase
  <2>5. \A u, x \in Workers : (InPhase(u, "locked") /\ InPhase(x, "locked"))' => u = x
    BY <2>1, <2>3, <2>4 DEF Unlocked
  <2>6. CASE Commit(w) \/ CommitLocked(w)
    <3>1. \A u \in Workers : ~InPhase(u, "locked")'
      BY <2>1, <2>4, <2>6 DEF Commit, CommitLocked, Lock, Unlocked, InPhase
    <3>2. AnswersFlag(w) => page.needsRebuild
      <4>1. CASE Commit(w)
        BY <4>1 DEF Commit, Stale, AnswersFlag
      <4>2. CASE CommitLocked(w)
        BY <4>2 DEF CommitLocked
      <4> QED
        BY <2>6, <4>1, <4>2
    <3>3. Once
      BY <2>1, <3>2 DEF AnswersFlag
    <3> QED
      BY <1>1, <2>2, <2>5, <3>1, <3>3
  <2>7. CASE UNCHANGED page
    <3>1. \A u \in Workers : (AnswersFlag(u) /\ InPhase(u, "locked"))' => page.needsRebuild
      <4>1. Lock(w) /\ AnswersFlag(w)' => page.needsRebuild
        BY <2>1, <2>3 DEF Stale, AnswersFlag, Flagged
      <4>2. \A u \in Workers \ {w} : AnswersFlag(u)' => AnswersFlag(u)
        BY <2>1 DEF AnswersFlag
      <4> QED
        BY <2>1, <2>4, <4>1, <4>2
    <3> QED
      BY <1>1, <2>2, <2>5, <2>7, <3>1
  <2> QED
    BY <1>6, <2>6, <2>7
    DEF RebuildStep, Trigger, RequestByUser, Plan, Fail, Drop, Lock
<1>7. CASE UNCHANGED vars
  BY <1>3, <1>7 DEF vars
<1>8. ASSUME NEW e \in Events, PurgeInSteps(e) PROVE AnswerInv' /\ Once
  BY <1>3, <1>8, InStepsFrame DEF AnswersFlag
<1> QED
  BY <1>4, <1>5, <1>6, <1>7, <1>8 DEF Next

(***************************************************************************)
(* Of the rebuilds that were asked for by one flag, one writes the page,   *)
(* for either store and any number of workers.                             *)
(***************************************************************************)
THEOREM FlagAnsweredOnce == Spec => FlagsAreAnsweredOnce
<1> DEFINE A == \A w \in Workers :
                  /\ rebuilds[w] # None /\ rebuilds[w].reason = "needs_rebuild"
                  /\ rebuilds'[w] = None /\ page' # page
                  => page.needsRebuild
<1>1. Init => AnswerInv
  BY TypeInit DEF Init, AnswerInv, Unlocked, InPhase, AnswersFlag
<1>2. AnswerInv /\ [Next]_vars => AnswerInv' /\ [A]_vars
  BY AnswerStep DEF AnswersFlag
<1> QED
  BY <1>1, <1>2, PTL DEF Spec, FlagsAreAnsweredOnce

-----------------------------------------------------------------------------
(* The page is a VersionedPage.                                             *)

LEMMA AddsVersion ==
  ASSUME TypeOK, HistoryIsComplete, NEW sources \in SUBSET Events, NEW flag \in BOOLEAN,
         WritePage(sources, flag)
  PROVE  Shown!Add(sources) /\ (flag => Flagged') /\ (~flag => ~Flagged')
<1> DEFINE n == IF page = None THEN 1 ELSE page.version + 1
<1>1. page' # None
  BY WritePageType, NoneIsNoRow
<1>2. page' = [version |-> n, sources |-> sources, needsRebuild |-> flag]
  BY DEF WritePage
<1>3. history' = [u \in DOMAIN history \cup {n} |->
                    IF u \in DOMAIN history THEN history[u] ELSE sources]
  BY DEF WritePage, Record
<1>4. /\ n \in Nat \ {0} /\ DOMAIN history = 1 .. (n - 1)
      /\ (IF page = None THEN 0 ELSE page.version) = n - 1
  <2>1. CASE page = None
    BY <2>1 DEF HistoryIsComplete
  <2>2. CASE page # None
    BY <2>2 DEF HistoryIsComplete, TypeOK, Pages
  <2> QED
    BY <2>1, <2>2
<1>5. (IF page' = None THEN 0 ELSE page'.version) = n /\ (IF page' = None THEN {} ELSE page'.sources) = sources
  BY <1>1, <1>2
<1> HIDE DEF n
<1>6. DOMAIN history \cup {n} = 1 .. n /\ \A u \in 1 .. n : u \in DOMAIN history <=> u # n
  BY <1>4
<1>7. history' = [u \in 1 .. n |-> IF u = n THEN sources ELSE history[u]]
  BY <1>3, <1>6
<1>8. (n - 1) + 1 = n
  BY <1>4
<1>9. Shown!Add(sources)
  BY <1>4, <1>5, <1>7, <1>8, Zenon DEF Shown!Add
<1>10. (flag => Flagged') /\ (~flag => ~Flagged')
  BY <1>1, <1>2 DEF Flagged
<1> QED
  BY <1>9, <1>10

VersionedInv == TypeOK /\ HistoryIsComplete /\ \A w \in Workers : CitesItsWindow(w)

LEMMA RebuildsCite ==
  ASSUME TypeOK, \A w \in Workers : CitesItsWindow(w), [Next]_vars
  PROVE  \A w \in Workers : CitesItsWindow(w)'
<1>1. CASE UNCHANGED rebuilds
  BY <1>1 DEF CitesItsWindow
<1>2. CASE \E w \in Workers : RebuildStep(w)
  BY <1>2, CitesStep
<1> QED
  BY <1>1, <1>2, InStepsFrame DEF Next, Arrive, Purge, Edit, Restore, vars

LEMMA ShownStep ==
  ASSUME VersionedInv, [Next]_vars
  PROVE  Shown!Next \/ UNCHANGED Shown!vars
<1> USE DEF VersionedInv
<1>1. CASE UNCHANGED <<page, history>>
  BY <1>1 DEF Shown!vars, Flagged
<1>2. ASSUME NEW w \in Workers, Write(w), rebuilds[w] # None, rebuilds[w].phase # "triggered"
      PROVE  Shown!Next
  <2>1. rebuilds[w] \in Rebuilds
    BY <1>2, RebuildFields
  <2>2. rebuilds[w].sources \in (SUBSET Events) \ {{}}
    BY <1>2, <2>1 DEF Rebuilds, CitesItsWindow
  <2>3. Shown!Add(rebuilds[w].sources) /\ ~Flagged'
    BY <1>2, <2>2, AddsVersion DEF Write
  <2>4. Shown!Publish(rebuilds[w].sources)
    BY <2>3 DEF Shown!Publish, Flagged
  <2> QED
    BY <2>2, <2>4, Zenon DEF Shown!Next
<1>3. ASSUME NEW v \in DOMAIN history, page # None, WritePage(history[v], page.needsRebuild)
      PROVE  Shown!Next
  <2>1. history[v] \in SUBSET Events /\ page.needsRebuild \in BOOLEAN
    BY <1>3 DEF TypeOK, Pages
  <2>2. /\ Shown!Add(history[v])
        /\ page.needsRebuild => Flagged'
        /\ ~page.needsRebuild => ~Flagged'
    BY <1>3, <2>1, AddsVersion
  <2>3. Flagged' <=> Flagged
    BY <1>3, <2>2 DEF Flagged
  <2>4. Shown!Revise(v)
    BY <2>2, <2>3 DEF Shown!Revise, Flagged
  <2>5. v \in 1 .. (IF page = None THEN 0 ELSE page.version)
    BY <1>3 DEF HistoryIsComplete
  <2> QED
    BY <2>4, <2>5, Zenon DEF Shown!Next
<1>4. ASSUME NEW e \in Events, Purge(e) PROVE Shown!Next \/ UNCHANGED <<page, history>>
  <2>1. CASE Cites(e)
    <3>1. page # None /\ page' = [page EXCEPT !.needsRebuild = TRUE] /\ history' = history
      BY <1>4, <2>1 DEF Purge, MarkNeedsRebuild, Cites
    <3>2. page \in Pages
      BY <3>1 DEF TypeOK
    <3>3. page' \in Pages /\ page'.version = page.version /\ page'.sources = page.sources
          /\ page'.needsRebuild
      BY <3>1, <3>2 DEF Pages
    <3>4. page' # None /\ Flagged' /\ page.version # 0
      BY <3>2, <3>3, NoneIsNoRow DEF Flagged, Pages
    <3>5. Shown!Flag
      BY <3>1, <3>3, <3>4 DEF Shown!Flag, Flagged
    <3> QED
      BY <3>5, Zenon DEF Shown!Next
  <2>2. CASE ~Cites(e)
    BY <1>4, <2>2 DEF Purge, MarkNeedsRebuild
  <2> QED
    BY <2>1, <2>2
<1>5. ASSUME Edit PROVE Shown!Next
  <2>1. page.version \in DOMAIN history /\ history[page.version] = page.sources
    BY <1>5 DEF Edit, HistoryIsComplete, TypeOK, Pages
  <2> QED
    BY <1>3, <1>5, <2>1 DEF Edit
<1>6. ASSUME NEW v \in DOMAIN history, Restore(v) PROVE Shown!Next
  BY <1>3, <1>6 DEF Restore
<1>7. ASSUME NEW w \in Workers, RebuildStep(w) PROVE Shown!Next \/ UNCHANGED <<page, history>>
  <2>1. \/ Write(w) /\ rebuilds[w] # None /\ rebuilds[w].phase # "triggered"
        \/ UNCHANGED <<page, history>>
    BY <1>7 DEF RebuildStep, Trigger, RequestByUser, Plan, Fail, Drop, Commit, Lock,
                CommitLocked, InPhase
  <2> QED
    BY <1>2, <2>1
<1> QED
  BY <1>1, <1>4, <1>5, <1>6, <1>7, InStepsFrame DEF Next, Arrive, vars

(***************************************************************************)
(* The page implements a VersionedPage, for either store and any number of *)
(* workers, edits, restores and purges.                                    *)
(***************************************************************************)
THEOREM PageIsVersioned == Spec => IsVersionedPage
<1>1. Init => VersionedInv
  BY TypeInit DEF Init, VersionedInv, HistoryIsComplete, CitesItsWindow
<1>2. VersionedInv /\ [Next]_vars => VersionedInv'
  BY TypeStep, HistoryStep, RebuildsCite DEF VersionedInv
<1>3. VersionedInv /\ [Next]_vars => [Shown!Next]_Shown!vars
  BY ShownStep
<1>4. Init => Shown!Init
  BY DEF Init, Shown!Init, Flagged
<1> QED
  BY <1>1, <1>2, <1>3, <1>4, PTL DEF Spec, IsVersionedPage, Shown!Spec

-----------------------------------------------------------------------------
(* Where a purged event can slip into a page.                               *)

SlipInv ==
  /\ TypeOK
  /\ Serial => Unlocked
  /\ \A w \in Workers : CitesItsWindow(w)
  /\ \A e \in purging \ crossed : ~Cites(e)

\* A rebuild that passed the checks against a page cites no purged event.
LEMMA CheckedIsClean ==
  ASSUME NEW w \in Workers, CitesItsWindow(w), rebuilds[w] # None, page # None, ~Stale(w)
  PROVE  rebuilds[w].sources \cap purged = {}
BY DEF CitesItsWindow, Stale, Window, Live

LEMMA LocksCleanStep ==
  ASSUME SlipInv, [Next]_vars PROVE LocksClean
<1> SUFFICES ASSUME NEW w \in Workers, ~InPhase(w, "locked"), InPhase(w, "locked")', page # None
             PROVE  rebuilds[w].sources \cap purged = {}
  BY DEF LocksClean
<1>1. rebuilds' # rebuilds
  BY DEF InPhase
<1>2. PICK u \in Workers : RebuildStep(u)
  BY <1>1, InStepsFrame DEF Next, Arrive, Purge, Edit, Restore, vars
<1>3. /\ \A x \in Workers \ {u} : rebuilds'[x] = rebuilds[x]
      /\ InPhase(u, "locked")' => Lock(u)
  BY <1>2, WorkerFrame DEF SlipInv
<1>4. Lock(w)
  BY <1>3 DEF InPhase
<1> QED
  BY <1>4, CheckedIsClean DEF Lock, InPhase, SlipInv

\* What a purge has passed by does not cite its event before the page is written.
LEMMA PassedStep ==
  ASSUME SlipInv, [Next]_vars PROVE \A e \in purging' \ crossed' : ~Cites(e)'
<1> SUFFICES ASSUME NEW e \in purging' \ crossed' PROVE ~Cites(e)'
  OBVIOUS
<1> USE DEF SlipInv
<1>0. page # None => page \in Pages
  BY DEF TypeOK
<1>1. CASE UNCHANGED <<page, pending>>
  BY <1>1 DEF Cites, pending
<1>2. CASE CrossPurges
  BY <1>2 DEF CrossPurges
<1>3. ASSUME NEW d \in Events, Purge(d) PROVE ~Cites(e)'
  <2>1. CASE Cites(d)
    BY <1>0, <1>3, <2>1 DEF Purge, MarkNeedsRebuild, Cites, Pages
  <2>2. CASE ~Cites(d)
    BY <1>1, <1>3, <2>2 DEF Purge, MarkNeedsRebuild
  <2> QED
    BY <2>1, <2>2
<1>4. ASSUME NEW d \in Events, PurgeInSteps(d) PROVE ~Cites(e)'
  <2>1. Cites(e)' => Cites(e)
    BY <1>4, InStepsFrame DEF Cites
  <2>2. ~Cites(e)
    BY <1>4 DEF PurgeInSteps, PassBy, CommitPurge, AbortPurge, EndPurge
  <2> QED
    BY <2>1, <2>2
<1>5. CASE Edit
  <2>1. /\ UNCHANGED pending /\ page # None
        /\ page'.sources = page.sources /\ page'.needsRebuild = page.needsRebuild
    BY <1>5 DEF Edit, WritePage
  <2> QED
    BY <2>1 DEF Cites, pending
<1> QED
  BY <1>1, <1>2, <1>3, <1>4, <1>5
  DEF Next, Arrive, RebuildStep, Trigger, RequestByUser, Plan, Fail, Drop, Commit, Lock,
      CommitLocked, Write, Restore, vars

LEMMA SlipStep ==
  ASSUME SlipInv, [Next]_vars
  PROVE  \/ page = None \/ restores' # restores
         \/ \E w \in Workers : SlipsIn(w)
         \/ Unflagged' \ Unflagged \subseteq crossed
<1> SUFFICES ASSUME page # None, restores' = restores, \A w \in Workers : ~SlipsIn(w)
             PROVE  Unflagged' \ Unflagged \subseteq crossed
  OBVIOUS
<1> USE DEF SlipInv
<1>0. page \in Pages
  BY DEF TypeOK
<1>1. CASE UNCHANGED <<page, purged>>
  BY <1>1 DEF Unflagged
<1>2. ASSUME NEW e \in Events, Purge(e) PROVE Unflagged' \ Unflagged \subseteq crossed
  <2>1. CASE Cites(e)
    <3>1. page'.needsRebuild
      BY <1>0, <1>2, <2>1 DEF Purge, MarkNeedsRebuild, Pages
    <3> QED
      BY <3>1 DEF Unflagged
  <2>2. CASE ~Cites(e)
    BY <1>2, <2>2 DEF Purge, MarkNeedsRebuild, Cites, Unflagged
  <2> QED
    BY <2>1, <2>2
<1>3. ASSUME Edit PROVE Unflagged' \ Unflagged \subseteq crossed
  <2>1. /\ purged' = purged
        /\ page'.sources = page.sources /\ page'.needsRebuild = page.needsRebuild
    BY <1>3 DEF Edit, WritePage
  <2> QED
    BY <2>1 DEF Unflagged
<1>4. ASSUME NEW v \in DOMAIN history, Restore(v) PROVE FALSE
  <2>1. restores \in Nat /\ restores' = restores + 1
    BY <1>4 DEF Restore, TypeOK
  <2> QED
    BY <2>1
<1>5. ASSUME NEW w \in Workers, RebuildStep(w) PROVE Unflagged' \ Unflagged \subseteq crossed
  <2>1. CASE Commit(w)
    <3>1. rebuilds[w] # None /\ ~Stale(w) /\ purged' = purged /\ page'.sources = rebuilds[w].sources
      BY <2>1 DEF Commit, InPhase, Write, WritePage
    <3>2. rebuilds[w].sources \cap purged = {}
      BY <3>1, CheckedIsClean
    <3> QED
      BY <3>1, <3>2 DEF Unflagged
  <2>2. CASE CommitLocked(w)
    <3>1. rebuilds' = [rebuilds EXCEPT ![w] = None]
      BY <2>2 DEF CommitLocked, Write
    <3>2. rebuilds'[w] = None
      BY <3>1 DEF TypeOK
    <3> QED
      BY <2>2, <3>2 DEF CommitLocked, SlipsIn
  <2>3. Commit(w) \/ CommitLocked(w) \/ UNCHANGED <<page, purged>>
    BY <1>5 DEF RebuildStep, Trigger, RequestByUser, Plan, Fail, Drop, Lock
  <2> QED
    BY <1>1, <2>1, <2>2, <2>3
<1>6. ASSUME NEW e \in Events, PurgeInSteps(e) PROVE Unflagged' \ Unflagged \subseteq crossed
  <2>1. CASE purged' = purged
    BY <1>1, <1>6, <2>1, InStepsFrame
  <2>2. CASE CommitPurge(e)
    <3>1. e \in purging /\ purged' = purged \cup {e} /\ page' = page
      BY <2>2 DEF CommitPurge, EndPurge
    <3>2. e \in crossed \/ ~Cites(e)
      BY <3>1
    <3> QED
      BY <3>1, <3>2 DEF Unflagged, Cites
  <2> QED
    BY <1>6, <2>1, <2>2 DEF PurgeInSteps, PassBy, AbortPurge
<1> QED
  BY <1>1, <1>2, <1>3, <1>4, <1>5, <1>6 DEF Next, Arrive, vars

(***************************************************************************)
(* For either store, and with restores and early purges: a purged event is *)
(* cited unflagged only by a first page, by a restored version, by a       *)
(* rebuild that held the lock when the purge committed, or by a page that  *)
(* was written between the purge's look at the pages and its commit.       *)
(***************************************************************************)
THEOREM SlipsInOnly == Spec => PurgedSlipInOnly
<1> DEFINE A == /\ LocksClean
                /\ \/ page = None \/ restores' # restores
                   \/ \E w \in Workers : SlipsIn(w)
                   \/ Unflagged' \ Unflagged \subseteq crossed
<1>1. Init => SlipInv
  BY TypeInit DEF Init, SlipInv, Unlocked, InPhase, CitesItsWindow
<1>2. SlipInv /\ [Next]_vars => SlipInv' /\ [A]_vars
  BY TypeStep, SerialUnlocked, RebuildsCite, LocksCleanStep, PassedStep, SlipStep DEF SlipInv
<1> QED
  BY <1>1, <1>2, PTL DEF Spec, PurgedSlipInOnly

-----------------------------------------------------------------------------
(* Only a purge makes a rebuild regress.                                    *)

Less == {p \in Nat \X Nat : p[1] < p[2]}

LEMMA LessWellFounded == IsWellFoundedOn(Less, Nat)
<1>1. IsWellFoundedOn(OpToRel(<, Nat), Nat)
  BY NatLessThanWellFounded, Zenon
<1>2. Less = OpToRel(<, Nat)
  BY Zenon DEF Less, OpToRel
<1> QED
  BY <1>1, <1>2

Later(S, e) == {f \in S : f > e}

\* The window is full above each event that it leaves aside: take the latest of
\* these from e on, which has as many later events as the window has places and
\* none of them left aside.
LEMMA WindowIsFull ==
  ASSUME TypeOK, IsFiniteSet(arrived), NEW e \in Live \ Window
  PROVE  Cardinality(Later(Window, e)) >= SourceLimit
<1> DEFINE Aside == {x \in Live \ Window : x >= e}
           Sizes == {n \in Nat : \E x \in Aside : Cardinality(Later(Live, x)) = n}
<1>1. Live \in SUBSET Nat /\ IsFiniteSet(Live) /\ SourceLimit \in Nat
  <2>1. IsFiniteSet(arrived \ purged)
    BY FS_Subset
  <2> QED
    BY <2>1, PageConstants DEF Live, TypeOK
<1>2. \A x \in Live : /\ IsFiniteSet(Later(Live, x))
                      /\ Cardinality(Later(Live, x)) \in Nat
  <2>1. \A x : Later(Live, x) \in SUBSET Live
    BY DEF Later
  <2> QED
    BY <1>1, <2>1, FS_Subset, FS_CardinalityType
<1>3. e \in Aside
  BY <1>1
<1>4. PICK n \in Sizes : \A k \in Sizes : ~(<<k, n>> \in Less)
  <2>1. Sizes # {}
    BY <1>2, <1>3
  <2>2. Sizes \subseteq Nat
    OBVIOUS
  <2> HIDE DEF Sizes
  <2> QED
    BY <2>1, <2>2, LessWellFounded, WFMin
<1>5. PICK x \in Aside : Cardinality(Later(Live, x)) = n
  OBVIOUS
<1>6. ASSUME NEW y \in Later(Live, x) PROVE y \in Later(Window, e)
  <2>1. y \in Live /\ y > x /\ y > e /\ x \in Nat /\ y \in Nat
    <3>1. y \in Live /\ y > x
      BY <1>6, Zenon DEF Later
    <3>2. x \in Nat /\ y \in Nat /\ e \in Nat /\ x >= e
      BY <1>1, <3>1
    <3> QED
      BY <3>1, <3>2
  <2>2. Cardinality(Later(Live, y)) < n
    <3>1. Later(Live, y) \in SUBSET Later(Live, x)
      <4> SUFFICES ASSUME NEW z \in Later(Live, y) PROVE z \in Later(Live, x)
        OBVIOUS
      <4>1. z \in Live /\ z > y
        BY Zenon DEF Later
      <4>2. z > x
        BY <1>1, <2>1, <4>1
      <4> QED
        BY <4>1, <4>2, Zenon DEF Later
    <3>2. y \in Later(Live, x) /\ y \notin Later(Live, y)
      <4>1. ~(y > y)
        BY <2>1
      <4> QED
        BY <1>6, <4>1, Zenon DEF Later
    <3>3. Later(Live, y) # Later(Live, x)
      BY <3>2
    <3>4. Cardinality(Later(Live, y)) < Cardinality(Later(Live, x))
      <4>1. /\ Cardinality(Later(Live, y)) <= Cardinality(Later(Live, x))
            /\ Cardinality(Later(Live, y)) = Cardinality(Later(Live, x))
               => Later(Live, y) = Later(Live, x)
        BY <1>2, <1>5, <3>1, FS_Subset
      <4> QED
        BY <1>2, <1>5, <2>1, <3>3, <4>1
    <3> QED
      BY <1>5, <3>4
  <2>3. y \in Window
    <3>1. SUFFICES ASSUME y \notin Window PROVE FALSE
      OBVIOUS
    <3>2. y \in Aside
      BY <1>1, <2>1, <3>1
    <3>3. Cardinality(Later(Live, y)) \in Sizes
      BY <1>2, <2>1, <3>2
    <3>4. <<Cardinality(Later(Live, y)), n>> \in Less
      BY <1>2, <1>4, <2>1, <2>2 DEF Less
    <3> QED
      BY <1>4, <3>3, <3>4
  <2> QED
    BY <2>1, <2>3 DEF Later
<1>7. Cardinality(Later(Live, x)) >= SourceLimit
  <2>1. x \in Live /\ ~(Cardinality(Later(Live, x)) < SourceLimit)
    BY <1>5 DEF Window, Later
  <2> QED
    BY <1>1, <1>2, <2>1
<1>8. /\ IsFiniteSet(Later(Window, e)) /\ Cardinality(Later(Window, e)) \in Nat
      /\ Cardinality(Later(Live, x)) <= Cardinality(Later(Window, e))
  <2>1. Later(Window, e) \in SUBSET Live
    BY DEF Later, Window
  <2>2. Later(Live, x) \in SUBSET Later(Window, e)
    BY <1>6
  <2> QED
    BY <1>1, <2>1, <2>2, FS_Subset, FS_CardinalityType
<1> QED
  BY <1>1, <1>2, <1>5, <1>7, <1>8

\* A rebuild that has the lock looked at as many events as a rebuild may, each
\* later than any covered event that it left aside and that is not purged.
LockedIsFull(w) ==
  InPhase(w, "locked") =>
    \A e \in covered \ (rebuilds[w].window \cup purged) :
      Cardinality(Later(rebuilds[w].window, e)) >= SourceLimit

OneLock == \A u, w \in Workers : InPhase(u, "locked") /\ InPhase(w, "locked") => u = w

WindowsArrived ==
  \A w \in Workers : rebuilds[w] # None => rebuilds[w].window \subseteq arrived

OvertakeInv ==
  /\ TypeOK
  /\ IsFiniteSet(arrived)
  /\ covered \subseteq arrived
  /\ page = None => covered = {}
  /\ Serial => Unlocked
  /\ OneLock
  /\ WindowsArrived
  /\ \A w \in Workers : LockedIsFull(w)

\* The window of a rebuild is set by Plan and else stays.
LEMMA WindowFrame ==
  ASSUME TypeOK, NEW w \in Workers, RebuildStep(w)
  PROVE  rebuilds'[w] # None =>
           \/ rebuilds'[w].window \in {{}, Window}
           \/ rebuilds[w] # None /\ rebuilds'[w].window = rebuilds[w].window
<1>1. ASSUME NEW reason, Request(w, reason) PROVE rebuilds'[w].window = {}
  BY <1>1 DEF Request, TypeOK
<1>2. CASE Trigger(w) \/ RequestByUser(w)
  BY <1>1, <1>2 DEF Trigger, RequestByUser
<1>3. CASE Plan(w)
  <2>1. PICK sources \in (SUBSET Window) \ {{}} :
          rebuilds' = [rebuilds EXCEPT ![w] =
                        [@ EXCEPT !.phase = "planned", !.window = Window,
                                  !.base = IF page = None THEN 0 ELSE page.version,
                                  !.sources = sources]]
    BY <1>3 DEF Plan
  <2>2. rebuilds[w] \in Rebuilds
    BY <1>3, RebuildFields DEF Plan, InPhase
  <2> QED
    BY <2>1, <2>2 DEF TypeOK, Rebuilds
<1>4. CASE Lock(w)
  <2>1. rebuilds[w] \in Rebuilds /\ rebuilds[w] # None
    BY <1>4, RebuildFields DEF Lock, InPhase
  <2> QED
    BY <1>4, <2>1 DEF Lock, TypeOK, Rebuilds
<1>5. CASE rebuilds' = [rebuilds EXCEPT ![w] = None]
  BY <1>5 DEF TypeOK
<1> QED
  BY <1>2, <1>3, <1>4, <1>5 DEF RebuildStep, Fail, Drop, Commit, CommitLocked, Write

\* Who takes the lock leaves aside only what the window is full above.
LEMMA LockIsFull ==
  ASSUME OvertakeInv, NEW w \in Workers, Lock(w) PROVE LockedIsFull(w)'
<1> USE DEF OvertakeInv
<1>1. rebuilds[w] \in Rebuilds /\ rebuilds[w] # None
  BY RebuildFields DEF Lock, InPhase
<1>2. rebuilds'[w].window = rebuilds[w].window
  BY <1>1 DEF Lock, TypeOK, Rebuilds
<1>3. UNCHANGED <<arrived, purged, page, covered>>
  BY DEF Lock
<1>4. ASSUME NEW e \in covered \ (rebuilds[w].window \cup purged)
      PROVE  Cardinality(Later(rebuilds[w].window, e)) >= SourceLimit
  <2>1. page # None
    BY <1>4
  <2>2. Window = rebuilds[w].window
    BY <2>1 DEF Lock, Stale
  <2>3. e \in Live \ Window
    BY <1>4, <2>2 DEF Live
  <2> QED
    BY <2>2, <2>3, WindowIsFull
<1> QED
  BY <1>2, <1>3, <1>4 DEF LockedIsFull

\* Without a purge in its window, the commit that has the lock leaves out of the
\* window nothing that was covered.
LEMMA LockedCommit ==
  ASSUME OvertakeInv, NEW w \in Workers, CommitLocked(w),
         NEW e \in covered \cap Window', ~Overtaken(w, e)
  PROVE  e \in covered'
<1> USE DEF OvertakeInv
<1> DEFINE window == rebuilds[w].window
<1>1. SUFFICES ASSUME e \notin covered' PROVE FALSE
  OBVIOUS
<1>2. covered' = window /\ Window' = Window /\ InPhase(w, "locked")
  BY DEF CommitLocked, Write, Window, Live
<1>3. e \in Live /\ Cardinality(Later(Live, e)) < SourceLimit
  BY <1>2 DEF Window, Later
<1>4. Cardinality(Later(window, e)) >= SourceLimit
  BY <1>1, <1>2, <1>3 DEF LockedIsFull, Live
<1>5. Later(window, e) \in SUBSET Later(Live, e)
  <2>1. window \subseteq arrived
    BY <1>2 DEF WindowsArrived, InPhase
  <2>2. \A f \in window : f > e => f \notin purged
    BY DEF Overtaken
  <2> QED
    BY <2>1, <2>2 DEF Later, Live
<1>6. /\ Cardinality(Later(window, e)) <= Cardinality(Later(Live, e))
      /\ Cardinality(Later(window, e)) \in Nat /\ Cardinality(Later(Live, e)) \in Nat
  <2>1. Later(Live, e) \in SUBSET arrived
    BY DEF Later, Live
  <2> HIDE DEF window
  <2> QED
    BY <1>5, <2>1, FS_Subset, FS_CardinalityType
<1>7. SourceLimit \in Nat
  BY PageConstants
<1> HIDE DEF window
<1> QED
  BY <1>3, <1>4, <1>6, <1>7

LEMMA OvertakeStep ==
  ASSUME OvertakeInv, [Next]_vars
  PROVE  /\ OvertakeInv'
         /\ \/ UNCHANGED vars
            \/ \A e \in covered \cap Window' :
                 e \in covered' \/ \E w \in Workers : Overtaken(w, e)
<1> USE DEF OvertakeInv
<1> DEFINE Regress == \A e \in covered \cap Window' :
                        e \in covered' \/ \E w \in Workers : Overtaken(w, e)
<1>1. TypeOK' /\ (Serial => Unlocked')
  BY TypeStep, SerialUnlocked
<1>2. page # None => page' # None
  BY PageStays
<1>3. arrived \subseteq arrived' /\ IsFiniteSet(arrived')
  <2>1. arrived' = arrived \/ \E e \in Events : arrived' = arrived \cup {e}
    BY InStepsFrame DEF Next, Arrive, Purge, RebuildStep, Trigger, RequestByUser, Plan, Fail, Drop,
           Commit, Lock, CommitLocked, Write, Edit, Restore, vars
  <2> QED
    BY <2>1, FS_AddElement
<1>4. CASE UNCHANGED <<rebuilds, covered>> /\ purged \subseteq purged'
  <2>1. OneLock' /\ WindowsArrived'
    BY <1>3, <1>4 DEF OneLock, WindowsArrived, InPhase
  <2>2. \A w \in Workers : LockedIsFull(w)'
    BY <1>4 DEF LockedIsFull, InPhase
  <2>3. covered' \subseteq arrived' /\ (page' = None => covered' = {})
    BY <1>2, <1>3, <1>4
  <2> QED
    BY <1>1, <1>3, <1>4, <2>1, <2>2, <2>3
<1>5. ASSUME NEW w \in Workers, RebuildStep(w) PROVE OvertakeInv' /\ Regress
  <2>1. /\ \A u \in Workers \ {w} : rebuilds'[u] = rebuilds[u]
        /\ InPhase(w, "locked")' => Lock(w)
    BY <1>5, WorkerFrame
  <2>2. \A u \in Workers : InPhase(u, "locked")' /\ u # w => InPhase(u, "locked")
    BY <2>1 DEF InPhase
  <2>3. Lock(w) => Unlocked
    BY DEF Lock
  <2>4. OneLock'
    BY <2>1, <2>2, <2>3 DEF Unlocked, OneLock
  <2>5. WindowsArrived'
    <3> SUFFICES ASSUME NEW u \in Workers, rebuilds'[u] # None
                 PROVE  rebuilds'[u].window \subseteq arrived'
      BY DEF WindowsArrived
    <3>1. CASE u # w
      BY <1>3, <2>1, <3>1 DEF WindowsArrived
    <3>2. CASE u = w
      <4>1. Window \subseteq arrived
        BY DEF Window, Live
      <4>2. \/ rebuilds'[w].window \in {{}, Window}
            \/ rebuilds[w] # None /\ rebuilds'[w].window = rebuilds[w].window
        BY <1>5, <3>2, WindowFrame
      <4> QED
        BY <1>3, <3>2, <4>1, <4>2 DEF WindowsArrived
    <3> QED
      BY <3>1, <3>2
  <2>6. CASE Commit(w) \/ CommitLocked(w)
    <3>1. rebuilds[w] \in Rebuilds /\ rebuilds[w] # None /\ Write(w)
      BY <2>6, RebuildFields DEF Commit, CommitLocked, InPhase
    <3>2. page' # None
      BY <3>1, WritePageType, NoneIsNoRow DEF Write, Rebuilds
    <3>3. covered' = rebuilds[w].window
      BY <3>1 DEF Write
    <3>4. covered' \subseteq arrived'
      BY <1>3, <3>1, <3>3 DEF WindowsArrived
    <3>5. \A u \in Workers : ~InPhase(u, "locked")'
      BY <2>1, <2>2, <2>6 DEF Commit, CommitLocked, Lock, OneLock, Unlocked, InPhase
    <3>6. OvertakeInv'
      BY <1>1, <1>3, <2>4, <2>5, <3>2, <3>4, <3>5 DEF LockedIsFull
    <3>7. CASE Commit(w)
      <4>1. page # None => Window' = covered'
        BY <3>7 DEF Commit, Write, Stale, Window, Live
      <4> QED
        BY <3>6, <4>1
    <3>8. CASE CommitLocked(w)
      BY <3>6, <3>8, LockedCommit
    <3> QED
      BY <2>6, <3>7, <3>8
  <2>7. CASE UNCHANGED <<page, covered, purged>>
    <3>1. Lock(w) => LockedIsFull(w)'
      BY LockIsFull
    <3>2. \A u \in Workers : LockedIsFull(u)'
      BY <2>1, <2>7, <3>1 DEF LockedIsFull, InPhase
    <3> QED
      BY <1>1, <1>3, <2>4, <2>5, <2>7, <3>2
  <2> QED
    BY <1>5, <2>6, <2>7
    DEF RebuildStep, Trigger, RequestByUser, Plan, Fail, Drop, Lock
<1> QED
  BY <1>4, <1>5, InStepsFrame DEF Next, Arrive, Purge, Edit, Restore, vars

(***************************************************************************)
(* For either store, any window and any number of workers: a rebuild takes *)
(* back what a later one has brought in only if a later event of its       *)
(* window was purged while it held the lock.                               *)
(***************************************************************************)
THEOREM RegressOnlyByPurge == Spec => RegressesOnlyByPurge
<1> DEFINE A == \A e \in covered \cap Window' :
                  e \in covered' \/ \E w \in Workers : Overtaken(w, e)
<1>1. Init => OvertakeInv
  <2>1. IsFiniteSet({})
    BY FS_EmptySet
  <2> QED
    BY <2>1, TypeInit DEF Init, OvertakeInv, Unlocked, InPhase, OneLock, WindowsArrived,
                          LockedIsFull
<1>2. OvertakeInv /\ [Next]_vars => OvertakeInv' /\ [A]_vars
  BY OvertakeStep
<1> QED
  BY <1>1, <1>2, PTL DEF Spec, RegressesOnlyByPurge

================================================================================
