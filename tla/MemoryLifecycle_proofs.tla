------------------------ MODULE MemoryLifecycle_proofs ------------------------
(***************************************************************************)
(* Proofs about MemoryLifecycle.                                           *)
(***************************************************************************)
EXTENDS MemoryLifecycle, TLAPS

\* What the types of a change of one item comprise.
RowsOK ==
  /\ status \in [Items -> Statuses]
  /\ pinned \in [Items -> BOOLEAN]
  /\ rev \in [Items -> Nat]
  /\ removedAt \in [Items -> BOOLEAN]

ChangesOK ==
  /\ RowsOK
  /\ versions \in [Items -> Seq(Statuses)]
  /\ audit \in [Items -> [AllKeys -> Entries \cup {None}]]
  /\ writes \in [Items -> Nat]
  /\ effects \in [Items -> [AllKeys -> Nat]]

(***************************************************************************)
(* Types of the parts of a change.                                         *)
(***************************************************************************)
LEMMA RowType == ASSUME TypeOK, NEW m \in Items PROVE Row(m) \in Rows
BY DEF TypeOK, Row, Rows

LEMMA TargetType ==
  ASSUME NEW s \in Statuses, NEW a PROVE Target(s, a) \in Statuses
BY DEF Target, Statuses, PinActions

LEMMA TransitionedType ==
  ASSUME TypeOK, NEW m \in Items, NEW a PROVE Transitioned(m, a) \in Rows
<1>1. Target(status[m], a) \in Statuses
  BY TargetType DEF TypeOK
<1>2. (IF a \in PinActions THEN a = "pin" ELSE pinned[m]) \in BOOLEAN
  BY DEF TypeOK
<1>3. rev[m] + 1 \in Nat
  BY DEF TypeOK
<1>4. (removedAt[m] \/ a = "remove") \in BOOLEAN
  OBVIOUS
<1> QED
  BY <1>1, <1>2, <1>3, <1>4 DEF Transitioned, Rows

LEMMA UpsertType ==
  ASSUME TypeOK, NEW m \in Items, NEW r \in Rows, Upsert(m, r) PROVE RowsOK'
<1>1. /\ r.status \in Statuses /\ r.pinned \in BOOLEAN
      /\ r.rev \in Nat /\ r.removedAt \in BOOLEAN
  BY DEF Rows
<1> QED
  BY <1>1 DEF TypeOK, RowsOK, Upsert

LEMMA RecordType ==
  ASSUME TypeOK, NEW m \in Items, NEW k \in AllKeys, NEW e \in Entries, Record(m, k, e)
  PROVE  audit' \in [Items -> [AllKeys -> Entries \cup {None}]]
BY DEF TypeOK, Record

LEMMA EffectType ==
  ASSUME TypeOK, NEW m \in Items, NEW k \in AllKeys, Effect(m, k)
  PROVE  /\ writes' \in [Items -> Nat]
         /\ effects' \in [Items -> [AllKeys -> Nat]]
BY DEF TypeOK, Effect

LEMMA EntryType ==
  ASSUME NEW g \in {"succeeded", "failed", "control"}, NEW a \in Actions \cup {"none"},
         NEW r \in Rows, NEW n \in Nat
  PROVE  Entry(g, a, r, n) \in Entries
BY DEF Entry, Entries, Rows

LEMMA VersionType ==
  ASSUME TypeOK, NEW m \in Items, NEW s \in Statuses,
         versions' = [versions EXCEPT ![m] = Append(@, s)]
  PROVE  versions' \in [Items -> Seq(Statuses)]
BY DEF TypeOK

LEMMA SucceedType ==
  ASSUME TypeOK, NEW m \in Items, NEW a \in Actions, NEW k \in AllKeys, Succeed(m, a, k)
  PROVE  ChangesOK'
<1>1. Transitioned(m, a) \in Rows
  BY TransitionedType
<1>2. RowsOK'
  BY <1>1, UpsertType DEF Succeed
<1>3. writes[m] + 1 \in Nat
  BY DEF TypeOK
<1>4. Entry("succeeded", a, Transitioned(m, a), writes[m] + 1) \in Entries
  BY <1>1, <1>3, EntryType
<1>5. audit' \in [Items -> [AllKeys -> Entries \cup {None}]]
  BY <1>4, RecordType DEF Succeed
<1>6. versions' \in [Items -> Seq(Statuses)]
  <2>1. CASE a \in PinActions
    BY <2>1 DEF Succeed, TypeOK
  <2>2. CASE a \notin PinActions
    <3>1. Target(status[m], a) \in Statuses
      BY TargetType DEF TypeOK
    <3> QED
      BY <2>2, <3>1, VersionType DEF Succeed
  <2> QED
    BY <2>1, <2>2
<1> QED
  BY <1>2, <1>5, <1>6, EffectType DEF Succeed, ChangesOK

LEMMA RejectType ==
  ASSUME TypeOK, NEW m \in Items, NEW a \in Actions, NEW k \in AllKeys, Reject(m, a, k)
  PROVE  ChangesOK'
<1>1. Row(m) \in Rows /\ writes[m] \in Nat
  BY RowType DEF TypeOK
<1>2. Entry("failed", a, Row(m), writes[m]) \in Entries
  BY <1>1, EntryType
<1>3. audit' \in [Items -> [AllKeys -> Entries \cup {None}]]
  BY <1>2, RecordType DEF Reject
<1> QED
  BY <1>3 DEF Reject, row, ChangesOK, RowsOK, TypeOK

LEMMA RestatusedType ==
  ASSUME NEW r \in Rows, NEW s \in Statuses
  PROVE  [r EXCEPT !.status = s, !.rev = @ + 1] \in Rows
<1>1. r.rev + 1 \in Nat
  BY DEF Rows
<1> QED
  BY <1>1 DEF Rows

LEMMA RewriteType ==
  ASSUME TypeOK, NEW m \in Items, NEW s \in Statuses, NEW k \in AllKeys, NEW seen,
         Rewrite(m, s, k, seen)
  PROVE  ChangesOK'
<1> DEFINE r == [Row(m) EXCEPT !.status = s, !.rev = @ + 1]
<1>1. r \in Rows
  <2>1. Row(m) \in Rows
    BY RowType
  <2> QED
    BY <2>1, RestatusedType
<1>2. Upsert(m, r) /\ Record(m, k, Entry("control", "none", r, writes[m] + 1))
  BY DEF Rewrite
<1>3. RowsOK'
  BY <1>1, <1>2, UpsertType
<1>4. writes[m] + 1 \in Nat
  BY DEF TypeOK
<1>5. Entry("control", "none", r, writes[m] + 1) \in Entries
  BY <1>1, <1>4, EntryType
<1>6. audit' \in [Items -> [AllKeys -> Entries \cup {None}]]
  BY <1>2, <1>5, RecordType
<1>7. versions' \in [Items -> Seq(Statuses)]
  BY VersionType DEF Rewrite
<1> QED
  BY <1>3, <1>6, <1>7, EffectType DEF Rewrite, ChangesOK

LEMMA PerformType ==
  ASSUME TypeOK, NEW m \in Items, NEW k \in AllKeys, NEW kind, NEW seen,
         Perform(kind, m, k, seen)
  PROVE  ChangesOK'
<1>1. ASSUME NEW a \in Actions, Transition(m, a, k, seen) PROVE ChangesOK'
  BY <1>1, SucceedType, RejectType DEF Transition
<1>2. ASSUME Edit(m, k, seen) PROVE ChangesOK'
  <2>1. status[m] \in Statuses
    BY DEF TypeOK
  <2> QED
    BY <1>2, <2>1, RewriteType DEF Edit
<1>3. ASSUME NEW v \in DOMAIN versions[m], Restore(m, v, k, seen) PROVE ChangesOK'
  <2>1. versions[m] \in Seq(Statuses)
    BY DEF TypeOK
  <2>2. versions[m][v] \in Statuses
    BY <2>1
  <2> QED
    BY <1>3, <2>2, RewriteType DEF Restore
<1> QED
  BY <1>1, <1>2, <1>3 DEF Perform

LEMMA ApplyPurgeType ==
  ASSUME TypeOK, NEW s \in Sources, NEW rows \in [Items -> Rows], ApplyPurge(s, rows)
  PROVE  ChangesOK' /\ redacted' \in SUBSET Sources
<1> DEFINE New(m) == [rows[m] EXCEPT !.status = RedactedStatus(m, s), !.rev = @ + 1]
<1>1. \A m \in Items : New(m) \in Rows
  <2> SUFFICES ASSUME NEW m \in Items PROVE New(m) \in Rows
    OBVIOUS
  <2>1. RedactedStatus(m, s) \in Statuses
    BY DEF RedactedStatus, Statuses
  <2>2. rows[m] \in Rows
    OBVIOUS
  <2> QED
    BY <2>1, <2>2, RestatusedType
<1>2. \A m \in Items : /\ New(m).status \in Statuses /\ New(m).pinned \in BOOLEAN
                       /\ New(m).rev \in Nat /\ New(m).removedAt \in BOOLEAN
  BY <1>1 DEF Rows
<1> HIDE DEF New
<1>3. status' \in [Items -> Statuses]
  BY <1>2 DEF ApplyPurge, New, TypeOK
<1>4. pinned' \in [Items -> BOOLEAN]
  BY <1>2 DEF ApplyPurge, New, TypeOK
<1>5. rev' \in [Items -> Nat]
  BY <1>2 DEF ApplyPurge, New, TypeOK
<1>6. removedAt' \in [Items -> BOOLEAN]
  BY <1>2 DEF ApplyPurge, New, TypeOK
<1>7. writes' \in [Items -> Nat]
  BY DEF ApplyPurge, TypeOK
<1> QED
  BY <1>3, <1>4, <1>5, <1>6, <1>7 DEF ApplyPurge, ChangesOK, RowsOK, TypeOK

(***************************************************************************)
(* Type correctness.                                                       *)
(***************************************************************************)
RestOK ==
  /\ redacted \in SUBSET Sources
  /\ calls \in [Clients -> [kind : Kinds, item : Items, key : Keys, seen : BOOLEAN]
                             \cup {None}]
  /\ purge \in [source : Sources, rows : [Items -> Rows]] \cup {None}
  /\ scanned \in [Items -> Rows \cup {None}]
  /\ review \in Items \cup {None}
  /\ purges \in Nat
  /\ passes \in Nat

LEMMA TypeParts == TypeOK <=> ChangesOK /\ RestOK
BY DEF TypeOK, ChangesOK, RowsOK, RestOK

LEMMA TypeInit == Init => TypeOK
<1> SUFFICES ASSUME Init PROVE TypeOK
  OBVIOUS
<1>1. status \in [Items -> Statuses] /\ versions \in [Items -> Seq(Statuses)]
  BY DEF Init, Statuses
<1>2. audit \in [Items -> [AllKeys -> Entries \cup {None}]]
  BY DEF Init
<1>3. ChangesOK
  BY <1>1, <1>2 DEF Init, ChangesOK, RowsOK
<1>4. RestOK
  BY DEF Init, RestOK, NoRows
<1> QED
  BY <1>3, <1>4, TypeParts

LEMMA UnchangedType ==
  ASSUME TypeOK, UNCHANGED <<row, versions, audit, writes, effects>> PROVE ChangesOK'
BY DEF TypeOK, ChangesOK, RowsOK, row

LEMMA CallType ==
  ASSUME TypeOK, NEW kind \in Kinds, NEW m \in Items, NEW k \in Keys
  PROVE  /\ Call(kind, m, k) => TypeOK'
         /\ \A c \in Clients : BeginCall(c, kind, m, k) => TypeOK'
<1>1. k \in AllKeys
  BY DEF AllKeys
<1>2. ASSUME Call(kind, m, k) PROVE TypeOK'
  <2>1. ChangesOK'
    BY <1>1, <1>2, PerformType DEF Call
  <2>2. RestOK'
    BY <1>2 DEF Call, Perform, RestOK, TypeOK
  <2> QED
    BY <2>1, <2>2, TypeParts DEF TypeOK, ChangesOK, RestOK, RowsOK
<1>3. ASSUME NEW c \in Clients, BeginCall(c, kind, m, k) PROVE TypeOK'
  <2>1. ChangesOK'
    BY <1>3, UnchangedType DEF BeginCall
  <2>2. RestOK'
    BY <1>3 DEF BeginCall, RestOK, TypeOK
  <2> QED
    BY <2>1, <2>2, TypeParts DEF TypeOK, ChangesOK, RestOK, RowsOK
<1> QED
  BY <1>2, <1>3

LEMMA ClientType ==
  ASSUME TypeOK, NEW c \in Clients
  PROVE  FinishCall(c) \/ AbandonCall(c) => TypeOK'
<1>1. ASSUME FinishCall(c) PROVE TypeOK'
  <2>1. calls[c] \in [kind : Kinds, item : Items, key : Keys, seen : BOOLEAN]
    BY <1>1 DEF FinishCall, TypeOK
  <2>2. calls[c].item \in Items /\ calls[c].key \in AllKeys
    BY <2>1 DEF AllKeys
  <2>3. ChangesOK'
    BY <1>1, <2>2, PerformType DEF FinishCall
  <2>4. RestOK'
    BY <1>1 DEF FinishCall, Perform, RestOK, TypeOK
  <2> QED
    BY <2>3, <2>4, TypeParts DEF TypeOK, ChangesOK, RestOK, RowsOK
<1>2. ASSUME AbandonCall(c) PROVE TypeOK'
  <2>1. ChangesOK'
    BY <1>2, UnchangedType DEF AbandonCall
  <2>2. RestOK'
    BY <1>2 DEF AbandonCall, RestOK, TypeOK
  <2> QED
    BY <2>1, <2>2, TypeParts DEF TypeOK, ChangesOK, RestOK, RowsOK
<1> QED
  BY <1>1, <1>2

LEMMA PurgeType ==
  ASSUME TypeOK
  PROVE  /\ \A s \in Sources : Purge(s) \/ BeginPurge(s) => TypeOK'
         /\ FinishPurge => TypeOK'
<1> DEFINE rows == [m \in Items |-> Row(m)]
<1>1. rows \in [Items -> Rows]
  BY RowType
<1>2. ASSUME NEW s \in Sources, Purge(s) PROVE TypeOK'
  <2>1. ApplyPurge(s, rows)
    BY <1>2 DEF Purge
  <2>2. ChangesOK' /\ redacted' \in SUBSET Sources
    BY <1>1, <2>1, ApplyPurgeType
  <2>3. RestOK'
    BY <1>2, <2>2 DEF Purge, ApplyPurge, RestOK, TypeOK
  <2> QED
    BY <2>2, <2>3, TypeParts DEF TypeOK, ChangesOK, RestOK, RowsOK
<1>3. ASSUME NEW s \in Sources, BeginPurge(s) PROVE TypeOK'
  <2>1. ChangesOK'
    BY <1>3, UnchangedType DEF BeginPurge
  <2>2. RestOK'
    BY <1>1, <1>3 DEF BeginPurge, RestOK, TypeOK
  <2> QED
    BY <2>1, <2>2, TypeParts DEF TypeOK, ChangesOK, RestOK, RowsOK
<1>4. ASSUME FinishPurge PROVE TypeOK'
  <2>1. purge \in [source : Sources, rows : [Items -> Rows]]
    BY <1>4 DEF FinishPurge, TypeOK
  <2>2. ChangesOK' /\ redacted' \in SUBSET Sources
    BY <1>4, <2>1, ApplyPurgeType DEF FinishPurge
  <2>3. RestOK'
    BY <1>4, <2>2 DEF FinishPurge, ApplyPurge, RestOK, TypeOK
  <2> QED
    BY <2>2, <2>3, TypeParts DEF TypeOK, ChangesOK, RestOK, RowsOK
<1> QED
  BY <1>2, <1>3, <1>4

LEMMA DecayType ==
  ASSUME TypeOK
  PROVE  /\ Scan => TypeOK'
         /\ \A m \in Items : WriteScore(m) => TypeOK'
         /\ MarkForReview => TypeOK'
<1>1. ASSUME Scan PROVE TypeOK'
  <2>1. ChangesOK'
    BY <1>1, UnchangedType DEF Scan
  <2>2. scanned' \in [Items -> Rows \cup {None}]
    BY <1>1, RowType DEF Scan
  <2>3. RestOK'
    BY <1>1, <2>2 DEF Scan, RestOK, TypeOK
  <2> QED
    BY <2>1, <2>3, TypeParts DEF TypeOK, ChangesOK, RestOK, RowsOK
<1>2. ASSUME NEW m \in Items, WriteScore(m) PROVE TypeOK'
  <2>1. scanned[m] \in Rows
    BY <1>2 DEF WriteScore, TypeOK
  <2>2. RowsOK'
    BY <1>2, <2>1, UpsertType DEF WriteScore
  <2>3. writes' \in [Items -> Nat]
    BY <1>2 DEF WriteScore, TypeOK
  <2>4. ChangesOK'
    BY <1>2, <2>2, <2>3 DEF WriteScore, ChangesOK, TypeOK
  <2>5. RestOK'
    BY <1>2 DEF WriteScore, RestOK, TypeOK
  <2> QED
    BY <2>4, <2>5, TypeParts DEF TypeOK, ChangesOK, RestOK, RowsOK
<1>3. ASSUME MarkForReview PROVE TypeOK'
  <2>1. review \in Items /\ DecayKey \in AllKeys /\ "mark_needs_review" \in Actions
    BY <1>3 DEF MarkForReview, TypeOK, AllKeys, Actions
  <2>2. ChangesOK'
    <3>1. CASE Succeed(review, "mark_needs_review", DecayKey)
      BY <2>1, <3>1, SucceedType
    <3>2. CASE Reject(review, "mark_needs_review", DecayKey)
      BY <2>1, <3>2, RejectType
    <3>3. CASE UNCHANGED <<row, versions, audit, writes, effects>>
      BY <3>3, UnchangedType
    <3> QED
      BY <1>3, <3>1, <3>2, <3>3 DEF MarkForReview
  <2>3. scanned' \in [Items -> Rows \cup {None}]
    BY <1>3 DEF MarkForReview, NoRows, TypeOK
  <2>4. RestOK'
    BY <1>3, <2>3 DEF MarkForReview, RestOK, TypeOK
  <2> QED
    BY <2>2, <2>4, TypeParts DEF TypeOK, ChangesOK, RestOK, RowsOK
<1> QED
  BY <1>1, <1>2, <1>3

LEMMA TypeStep == TypeOK /\ [Next]_vars => TypeOK'
<1> SUFFICES ASSUME TypeOK, [Next]_vars PROVE TypeOK'
  OBVIOUS
<1>1. CASE UNCHANGED vars
  BY <1>1 DEF vars, row, TypeOK
<1>2. CASE Next
  BY <1>2, CallType, ClientType, PurgeType, DecayType, Zenon DEF Next
<1> QED
  BY <1>1, <1>2

(***************************************************************************)
(* Whatever the store and the bounds, the state stays well typed.          *)
(***************************************************************************)
THEOREM TypeCorrect == Spec => []TypeOK
BY TypeInit, TypeStep, PTL DEF Spec

(***************************************************************************)
(* Keys. A step leaves a key as it is, or uses an unused one: for a        *)
(* refusal without an effect, or for another answer with one.              *)
(***************************************************************************)
KeyStep ==
  \A m \in Items, k \in AllKeys :
    \/ audit'[m][k] = audit[m][k] /\ effects'[m][k] = effects[m][k]
    \/ /\ audit[m][k] = None
       /\ \/ audit'[m][k] \in Refused /\ effects'[m][k] = effects[m][k]
          \/ audit'[m][k] \in Entries \ Refused /\ effects'[m][k] = effects[m][k] + 1

NoCalls == \A c \in Clients : calls[c] = None

KInv ==
  /\ TypeOK
  /\ Serial => NoCalls
  /\ \A m \in Items, k \in AllKeys :
       effects[m][k] <= 1 /\ (audit[m][k] = None => effects[m][k] = 0)

LEMMA KeyUnchanged ==
  ASSUME UNCHANGED <<audit, effects>> PROVE KeyStep
BY DEF KeyStep

LEMMA KeyUsed ==
  ASSUME TypeOK, NEW m \in Items, NEW k \in AllKeys, NEW e \in Entries,
         audit[m][k] = None, Record(m, k, e),
         \/ e.stage = "failed" /\ UNCHANGED effects
         \/ e.stage # "failed" /\ effects' = [effects EXCEPT ![m][k] = @ + 1]
  PROVE  KeyStep
<1>1. e \in Refused <=> e.stage = "failed"
  BY DEF Refused
<1>2. audit'[m][k] = e
  BY DEF Record, TypeOK
<1>3. \A i \in Items, q \in AllKeys :
        i # m \/ q # k => audit'[i][q] = audit[i][q]
  BY DEF Record, TypeOK
<1>4. CASE e.stage = "failed" /\ UNCHANGED effects
  BY <1>1, <1>2, <1>3, <1>4 DEF KeyStep
<1>5. CASE e.stage # "failed" /\ effects' = [effects EXCEPT ![m][k] = @ + 1]
  <2>1. effects'[m][k] = effects[m][k] + 1
    BY <1>5 DEF TypeOK
  <2>2. \A i \in Items, q \in AllKeys :
          i # m \/ q # k => effects'[i][q] = effects[i][q]
    BY <1>5 DEF TypeOK
  <2> QED
    BY <1>1, <1>2, <1>3, <1>5, <2>1, <2>2 DEF KeyStep
<1> QED
  BY <1>4, <1>5

LEMMA TransitionKey ==
  ASSUME TypeOK, NEW m \in Items, NEW a \in Actions, NEW k \in AllKeys,
         audit[m][k] = None, Succeed(m, a, k) \/ Reject(m, a, k)
  PROVE  KeyStep
<1>1. writes[m] \in Nat /\ writes[m] + 1 \in Nat /\ Row(m) \in Rows
  BY RowType DEF TypeOK
<1>2. CASE Succeed(m, a, k)
  <2>1. Entry("succeeded", a, Transitioned(m, a), writes[m] + 1) \in Entries
    BY <1>1, TransitionedType, EntryType
  <2> QED
    BY <1>2, <2>1, KeyUsed DEF Succeed, Effect, Entry
<1>3. CASE Reject(m, a, k)
  <2>1. Entry("failed", a, Row(m), writes[m]) \in Entries
    BY <1>1, EntryType
  <2> QED
    BY <1>3, <2>1, KeyUsed DEF Reject, Entry
<1> QED
  BY <1>2, <1>3

LEMMA RewriteKey ==
  ASSUME TypeOK, NEW m \in Items, NEW s \in Statuses, NEW k \in AllKeys, NEW seen,
         audit[m][k] = None, Rewrite(m, s, k, seen)
  PROVE  KeyStep
<1> DEFINE r == [Row(m) EXCEPT !.status = s, !.rev = @ + 1]
<1>1. r \in Rows
  <2>1. Row(m) \in Rows
    BY RowType
  <2> QED
    BY <2>1, RestatusedType
<1>2. writes[m] + 1 \in Nat
  BY DEF TypeOK
<1>3. Entry("control", "none", r, writes[m] + 1) \in Entries
  BY <1>1, <1>2, EntryType
<1>4. Record(m, k, Entry("control", "none", r, writes[m] + 1))
  BY DEF Rewrite
<1> QED
  BY <1>3, <1>4, KeyUsed DEF Rewrite, Effect, Entry

LEMMA PerformKey ==
  ASSUME TypeOK, NEW m \in Items, NEW k \in AllKeys, NEW kind, NEW seen,
         Perform(kind, m, k, seen),
         kind = "transition" \/ (seen = FALSE => audit[m][k] = None)
  PROVE  KeyStep
<1>1. ASSUME NEW a \in Actions, Transition(m, a, k, seen) PROVE KeyStep
  BY <1>1, TransitionKey DEF Transition
<1>2. ASSUME kind # "transition", Edit(m, k, seen) PROVE KeyStep
  <2>1. status[m] \in Statuses
    BY DEF TypeOK
  <2>2. audit[m][k] = None
    BY <1>2 DEF Edit, Rewrite
  <2> QED
    BY <1>2, <2>1, <2>2, RewriteKey DEF Edit
<1>3. ASSUME kind # "transition", NEW v \in DOMAIN versions[m], Restore(m, v, k, seen)
      PROVE  KeyStep
  <2>1. versions[m] \in Seq(Statuses)
    BY DEF TypeOK
  <2>2. versions[m][v] \in Statuses
    BY <2>1
  <2>3. audit[m][k] = None
    BY <1>3 DEF Restore, Rewrite
  <2> QED
    BY <1>3, <2>2, <2>3, RewriteKey DEF Restore
<1> QED
  BY <1>1, <1>2, <1>3 DEF Perform

LEMMA NextKey ==
  ASSUME Serial \/ Kinds = {"transition"}, KInv, [Next]_vars PROVE KeyStep
<1> TypeOK
  BY DEF KInv
<1>1. ASSUME NEW kind \in Kinds, NEW m \in Items, NEW k \in Keys, Call(kind, m, k)
      PROVE  KeyStep
  <2>1. k \in AllKeys
    BY DEF AllKeys
  <2> QED
    BY <1>1, <2>1, PerformKey DEF Call
<1>2. ASSUME NEW c \in Clients, FinishCall(c) PROVE KeyStep
  <2>1. calls[c] \in [kind : Kinds, item : Items, key : Keys, seen : BOOLEAN]
    BY <1>2 DEF FinishCall, TypeOK
  <2>2. ~Serial
    BY <1>2 DEF FinishCall, KInv, NoCalls
  <2>3. calls[c].kind = "transition"
    BY <2>1, <2>2
  <2>4. calls[c].item \in Items /\ calls[c].key \in AllKeys
    BY <2>1 DEF AllKeys
  <2> QED
    BY <1>2, <2>3, <2>4, PerformKey DEF FinishCall
<1>3. ASSUME MarkForReview PROVE KeyStep
  <2>1. review \in Items /\ DecayKey \in AllKeys /\ "mark_needs_review" \in Actions
    BY <1>3 DEF MarkForReview, TypeOK, AllKeys, Actions
  <2>2. CASE audit[review][DecayKey] = None
    BY <1>3, <2>1, <2>2, TransitionKey DEF MarkForReview
  <2>3. CASE audit[review][DecayKey] # None
    BY <1>3, <2>3, KeyUnchanged DEF MarkForReview
  <2> QED
    BY <2>2, <2>3
<1>4. ASSUME NEW kind, NEW m, NEW k, NEW c, BeginCall(c, kind, m, k) PROVE KeyStep
  BY <1>4, KeyUnchanged DEF BeginCall
<1>5. ASSUME NEW c, AbandonCall(c) PROVE KeyStep
  BY <1>5, KeyUnchanged DEF AbandonCall
<1>6. ASSUME NEW s, Purge(s) PROVE KeyStep
  BY <1>6, KeyUnchanged DEF Purge, ApplyPurge
<1>7. ASSUME NEW s, BeginPurge(s) PROVE KeyStep
  BY <1>7, KeyUnchanged DEF BeginPurge
<1>8. ASSUME FinishPurge PROVE KeyStep
  BY <1>8, KeyUnchanged DEF FinishPurge, ApplyPurge
<1>9. ASSUME Scan PROVE KeyStep
  BY <1>9, KeyUnchanged DEF Scan
<1>10. ASSUME NEW m, WriteScore(m) PROVE KeyStep
  BY <1>10, KeyUnchanged DEF WriteScore
<1>11. CASE UNCHANGED vars
  BY <1>11, KeyUnchanged DEF vars
<1> QED
  BY <1>1, <1>2, <1>3, <1>4, <1>5, <1>6, <1>7, <1>8, <1>9, <1>10, <1>11, Zenon DEF Next

\* With serial transactions no call is in flight between two steps.
LEMMA NoCallsStep ==
  ASSUME TypeOK, Serial, NoCalls, [Next]_vars PROVE NoCalls'
<1>1. ASSUME NEW c \in Clients, FinishCall(c) \/ AbandonCall(c) PROVE FALSE
  BY <1>1 DEF FinishCall, AbandonCall, NoCalls
<1>2. ASSUME NEW kind, NEW m, NEW k, NEW c, BeginCall(c, kind, m, k) PROVE FALSE
  BY <1>2 DEF BeginCall
<1>3. UNCHANGED calls
  BY <1>1, <1>2, Zenon
     DEF Next, vars, Call, Purge, BeginPurge, FinishPurge, ApplyPurge, Scan, WriteScore,
         MarkForReview
<1> QED
  BY <1>3 DEF NoCalls

LEMMA KInvInit == Init => KInv
<1> SUFFICES ASSUME Init PROVE KInv
  OBVIOUS
<1>1. TypeOK
  BY TypeInit
<1>2. NoCalls
  BY DEF Init, NoCalls
<1>3. \A m \in Items, k \in AllKeys : effects[m][k] = 0
  BY DEF Init
<1> QED
  BY <1>1, <1>2, <1>3 DEF KInv

LEMMA KInvStep ==
  ASSUME Serial \/ Kinds = {"transition"} PROVE KInv /\ [Next]_vars => KInv'
<1> SUFFICES ASSUME KInv, [Next]_vars PROVE KInv'
  OBVIOUS
<1>1. TypeOK /\ TypeOK'
  BY TypeStep DEF KInv
<1>2. Serial => NoCalls'
  BY <1>1, NoCallsStep DEF KInv
<1>3. ASSUME NEW m \in Items, NEW k \in AllKeys
      PROVE  effects'[m][k] <= 1 /\ (audit'[m][k] = None => effects'[m][k] = 0)
  <2>1. effects[m][k] \in Nat /\ effects[m][k] <= 1
    BY <1>1 DEF KInv, TypeOK
  <2>2. audit[m][k] = None => effects[m][k] = 0
    BY DEF KInv
  <2>3. \/ effects'[m][k] = effects[m][k] /\ (audit'[m][k] = None => audit[m][k] = None)
        \/ /\ audit[m][k] = None /\ audit'[m][k] # None
           /\ effects'[m][k] = effects[m][k] + 1
    BY NextKey, NoneIsNoEntry DEF KeyStep, Refused
  <2> QED
    BY <2>1, <2>2, <2>3
<1> QED
  BY <1>1, <1>2, <1>3 DEF KInv

(***************************************************************************)
(* A key changes an item at most once: with serial transactions for every  *)
(* kind of call, with read-committed ones for the transitions, which look  *)
(* at the audit again under the row lock.                                  *)
(***************************************************************************)
THEOREM KeysActOnce ==
  ASSUME Serial \/ Kinds = {"transition"} PROVE Spec => []OneEffectPerKey
<1>1. KInv => OneEffectPerKey
  BY DEF KInv, OneEffectPerKey
<1>2. Spec => []KInv
  BY KInvInit, KInvStep, PTL DEF Spec
<1> QED
  BY <1>1, <1>2, PTL

(***************************************************************************)
(* Under the same condition a request that was rejected stays without      *)
(* effect, whatever the item has become.                                   *)
(***************************************************************************)
THEOREM RejectionsLast ==
  ASSUME Serial \/ Kinds = {"transition"} PROVE Spec => RejectedStaysRejected
<1> DEFINE Held ==
      \A m \in Items, k \in AllKeys :
        audit[m][k] # None /\ audit[m][k].stage = "failed" => effects'[m][k] = effects[m][k]
<1>1. KInv /\ [Next]_vars => [Held]_vars
  BY NextKey DEF KeyStep
<1>2. Spec => []KInv
  BY KInvInit, KInvStep, PTL DEF Spec
<1> QED
  BY <1>1, <1>2, PTL DEF Spec, RejectedStaysRejected

(***************************************************************************)
(* Under the same condition the lifecycle implements a KeyedRequest for    *)
(* each item and key, for any number of clients, passes and purges.        *)
(***************************************************************************)
LEMMA RequestInit ==
  ASSUME Init, NEW m \in Items, NEW k \in AllKeys PROVE Request(m, k)!Init
BY DEF Init, Request!Init

LEMMA RequestStep ==
  ASSUME KeyStep, NEW m \in Items, NEW k \in AllKeys
  PROVE  [Request(m, k)!Next]_(Request(m, k)!vars)
<1>1. CASE audit'[m][k] = audit[m][k] /\ effects'[m][k] = effects[m][k]
  BY <1>1 DEF Request!vars
<1>2. CASE audit[m][k] = None /\ audit'[m][k] \in Refused /\ effects'[m][k] = effects[m][k]
  BY <1>2 DEF Request!Next, Request!Refuse
<1>3. CASE /\ audit[m][k] = None /\ audit'[m][k] \in Entries \ Refused
           /\ effects'[m][k] = effects[m][k] + 1
  BY <1>3 DEF Request!Next, Request!Grant
<1> QED
  BY <1>1, <1>2, <1>3 DEF KeyStep

\* What an idempotency key promises is kept for each item and key: one answer, never
\* altered, and an effect only in the step that records a grant.  Writers that read
\* the audit before they lock the row break it, so they are left out or serial.
THEOREM RequestsKept ==
  ASSUME Serial \/ Kinds = {"transition"} PROVE Spec => KeysArePromises
<1> DEFINE Inits == \A m \in Items, k \in AllKeys : Request(m, k)!Init
           Steps == \A m \in Items, k \in AllKeys : [Request(m, k)!Next]_(Request(m, k)!vars)
<1>1. Init => Inits
  BY RequestInit
<1>2. KInv /\ [Next]_vars => [Steps]_vars
  BY NextKey, RequestStep
<1>3. Spec => []KInv
  BY KInvInit, KInvStep, PTL DEF Spec
<1> HIDE DEF Inits, Steps
<1>4. Spec => Inits /\ [][Steps]_vars
  BY <1>1, <1>2, <1>3, PTL DEF Spec
<1> QED
  BY <1>4 DEF KeysArePromises, Inits, Steps

(***************************************************************************)
(* Rows. Where no writer holds a row it read in an earlier step, every     *)
(* change counts the revision up, and an audit entry carries the revision  *)
(* of the change it reports.                                               *)
(***************************************************************************)
NothingStale ==
  /\ purge = None
  /\ scanned = NoRows
  /\ review = None
  /\ passes = 0
  /\ purges \in Nat

RevisionsCount ==
  /\ \A m \in Items : rev[m] = writes[m]
  /\ \A m \in Items, k \in AllKeys :
       audit[m][k] # None => audit[m][k].rev = audit[m][k].stamp

RInv == TypeOK /\ NothingStale /\ RevisionsCount

\* The steps left once nothing stale is held.
CurrentStep ==
  \/ \E kind \in Kinds, m \in Items, k \in AllKeys : \E seen : Perform(kind, m, k, seen)
  \/ \E s \in Sources : ApplyPurge(s, [m \in Items |-> Row(m)])
  \/ UNCHANGED <<row, versions, audit, writes, effects>>

LEMMA CurrentSteps ==
  ASSUME MaxPasses = 0, Serial \/ MaxPurges = 0, TypeOK, NothingStale, [Next]_vars
  PROVE  CurrentStep /\ NothingStale'
<1>1. ASSUME Scan PROVE FALSE
  BY <1>1, LifecycleConstants DEF Scan, NothingStale
<1>2. ASSUME NEW m \in Items, WriteScore(m) PROVE FALSE
  BY <1>2 DEF WriteScore, NothingStale, NoRows
<1>3. ASSUME MarkForReview PROVE FALSE
  BY <1>3 DEF MarkForReview, NothingStale
<1>4. ASSUME FinishPurge PROVE FALSE
  BY <1>4 DEF FinishPurge, NothingStale
<1>5. ASSUME NEW s \in Sources, BeginPurge(s) PROVE FALSE
  BY <1>5, LifecycleConstants DEF BeginPurge, NothingStale
<1>6. ASSUME NEW kind \in Kinds, NEW m \in Items, NEW k \in Keys, Call(kind, m, k)
      PROVE  CurrentStep /\ NothingStale'
  <2>1. k \in AllKeys
    BY DEF AllKeys
  <2>2. Perform(kind, m, k, audit[m][k] # None)
    BY <1>6 DEF Call
  <2>3. CurrentStep
    BY <2>1, <2>2 DEF CurrentStep
  <2> QED
    BY <2>2, <2>3 DEF Perform, NothingStale
<1>7. ASSUME NEW c \in Clients, FinishCall(c) PROVE CurrentStep /\ NothingStale'
  <2>1. calls[c] \in [kind : Kinds, item : Items, key : Keys, seen : BOOLEAN]
    BY <1>7 DEF FinishCall, TypeOK
  <2>2. calls[c].kind \in Kinds /\ calls[c].item \in Items /\ calls[c].key \in AllKeys
    BY <2>1 DEF AllKeys
  <2>3. Perform(calls[c].kind, calls[c].item, calls[c].key, calls[c].seen)
    BY <1>7 DEF FinishCall
  <2>4. CurrentStep
    BY <2>2, <2>3 DEF CurrentStep
  <2> QED
    BY <2>3, <2>4 DEF Perform, NothingStale
<1>8. ASSUME NEW s \in Sources, Purge(s) PROVE CurrentStep /\ NothingStale'
  BY <1>8 DEF Purge, ApplyPurge, CurrentStep, NothingStale
<1>9. ASSUME NEW kind, NEW m, NEW k, NEW c, BeginCall(c, kind, m, k)
      PROVE  CurrentStep /\ NothingStale'
  BY <1>9 DEF BeginCall, CurrentStep, NothingStale
<1>10. ASSUME NEW c, AbandonCall(c) PROVE CurrentStep /\ NothingStale'
  BY <1>10 DEF AbandonCall, CurrentStep, NothingStale
<1>11. CASE UNCHANGED vars
  BY <1>11 DEF vars, CurrentStep, NothingStale
<1> QED
  BY <1>1, <1>2, <1>3, <1>4, <1>5, <1>6, <1>7, <1>8, <1>9, <1>10, <1>11, Zenon DEF Next

LEMMA CountedChange ==
  ASSUME TypeOK, RevisionsCount, NEW m \in Items, NEW k \in AllKeys, NEW e \in Entries,
         rev' = [rev EXCEPT ![m] = @ + 1], writes' = [writes EXCEPT ![m] = @ + 1],
         Record(m, k, e), e.rev = rev[m] + 1, e.stamp = writes[m] + 1
  PROVE  RevisionsCount'
<1>1. \A i \in Items : rev'[i] = writes'[i]
  BY DEF TypeOK, RevisionsCount
<1>2. \A i \in Items, q \in AllKeys : audit'[i][q] = audit[i][q] \/ audit'[i][q] = e
  BY DEF TypeOK, Record
<1>3. e.rev = e.stamp
  BY DEF RevisionsCount
<1> QED
  BY <1>1, <1>2, <1>3 DEF RevisionsCount

LEMMA PerformCounts ==
  ASSUME TypeOK, RevisionsCount, NEW m \in Items, NEW k \in AllKeys, NEW kind, NEW seen,
         Perform(kind, m, k, seen)
  PROVE  RevisionsCount'
<1>1. ASSUME NEW a \in Actions, Succeed(m, a, k) PROVE RevisionsCount'
  <2> DEFINE e == Entry("succeeded", a, Transitioned(m, a), writes[m] + 1)
  <2>1. e \in Entries
    BY TransitionedType, EntryType DEF TypeOK
  <2>2. Transitioned(m, a).rev = rev[m] + 1
    BY DEF Transitioned
  <2>3. e.rev = rev[m] + 1 /\ e.stamp = writes[m] + 1
    BY <2>2 DEF Entry
  <2>4. Record(m, k, e)
    BY <1>1 DEF Succeed
  <2>5. rev' = [rev EXCEPT ![m] = @ + 1]
    BY <1>1, <2>2 DEF Succeed, Upsert
  <2>6. writes' = [writes EXCEPT ![m] = @ + 1]
    BY <1>1 DEF Succeed, Effect
  <2> HIDE DEF e
  <2> QED
    BY <2>1, <2>3, <2>4, <2>5, <2>6, CountedChange
<1>2. ASSUME NEW a \in Actions, Reject(m, a, k) PROVE RevisionsCount'
  <2> DEFINE e == Entry("failed", a, Row(m), writes[m])
  <2>1. e.rev = e.stamp
    BY DEF Entry, Row, RevisionsCount
  <2>2. Record(m, k, e) /\ UNCHANGED <<rev, writes>>
    BY <1>2 DEF Reject, row
  <2> HIDE DEF e
  <2>3. \A i \in Items, q \in AllKeys : audit'[i][q] = audit[i][q] \/ audit'[i][q] = e
    BY <2>2 DEF TypeOK, Record
  <2> QED
    BY <2>1, <2>2, <2>3 DEF RevisionsCount
<1>3. ASSUME NEW s \in Statuses, Rewrite(m, s, k, seen) PROVE RevisionsCount'
  <2> DEFINE r == [Row(m) EXCEPT !.status = s, !.rev = @ + 1]
  <2> DEFINE e == Entry("control", "none", r, writes[m] + 1)
  <2>1. r \in Rows
    <3>1. Row(m) \in Rows
      BY RowType
    <3> QED
      BY <3>1, RestatusedType
  <2>2. writes[m] + 1 \in Nat
    BY DEF TypeOK
  <2>3. e \in Entries
    BY <2>1, <2>2, EntryType
  <2>4. r.rev = rev[m] + 1
    BY DEF Row
  <2>5. e.rev = rev[m] + 1 /\ e.stamp = writes[m] + 1
    BY <2>4 DEF Entry
  <2>6. Upsert(m, r) /\ Record(m, k, e) /\ Effect(m, k)
    BY <1>3 DEF Rewrite
  <2> HIDE DEF e, r
  <2>7. rev' = [rev EXCEPT ![m] = @ + 1]
    BY <2>4, <2>6 DEF Upsert
  <2> QED
    BY <2>3, <2>5, <2>6, <2>7, CountedChange DEF Effect
<1>4. status[m] \in Statuses /\ \A v \in DOMAIN versions[m] : versions[m][v] \in Statuses
  <2>1. versions[m] \in Seq(Statuses)
    BY DEF TypeOK
  <2> QED
    BY <2>1 DEF TypeOK
<1> QED
  BY <1>1, <1>2, <1>3, <1>4 DEF Perform, Transition, Edit, Restore

LEMMA PurgeCounts ==
  ASSUME TypeOK, RevisionsCount, NEW s \in Sources,
         ApplyPurge(s, [m \in Items |-> Row(m)])
  PROVE  RevisionsCount'
<1> DEFINE rows == [m \in Items |-> Row(m)]
<1> DEFINE hit == Affected(s, rows)
<1>1. ASSUME NEW m \in Items PROVE rev'[m] = writes'[m]
  <2>1. Row(m).rev = rev[m]
    BY DEF Row
  <2>2. [rows[m] EXCEPT !.status = RedactedStatus(m, s), !.rev = @ + 1].rev = rev[m] + 1
    BY DEF Row
  <2>3. rev'[m] = IF m \in hit THEN rev[m] + 1 ELSE rev[m]
    BY <2>2 DEF ApplyPurge
  <2>4. writes'[m] = IF m \in hit THEN writes[m] + 1 ELSE writes[m]
    BY DEF ApplyPurge
  <2> QED
    BY <2>3, <2>4 DEF RevisionsCount
<1> QED
  BY <1>1 DEF RevisionsCount, ApplyPurge

LEMMA RInvInit == Init => RInv
<1> SUFFICES ASSUME Init PROVE RInv
  OBVIOUS
<1>1. NothingStale
  BY DEF Init, NothingStale
<1>2. RevisionsCount
  BY DEF Init, RevisionsCount
<1> QED
  BY <1>1, <1>2, TypeInit DEF RInv

LEMMA RInvStep ==
  ASSUME MaxPasses = 0, Serial \/ MaxPurges = 0 PROVE RInv /\ [Next]_vars => RInv'
<1> SUFFICES ASSUME RInv, [Next]_vars PROVE RInv'
  OBVIOUS
<1>1. TypeOK /\ TypeOK'
  BY TypeStep DEF RInv
<1>2. CurrentStep /\ NothingStale'
  BY CurrentSteps DEF RInv
<1>3. RevisionsCount'
  <2>1. CASE UNCHANGED <<row, versions, audit, writes, effects>>
    BY <2>1 DEF RInv, RevisionsCount, row
  <2> QED
    BY <1>1, <1>2, <2>1, PerformCounts, PurgeCounts DEF CurrentStep, RInv
<1> QED
  BY <1>1, <1>2, <1>3 DEF RInv

(***************************************************************************)
(* Without a decay pass, and without read-committed purges, a repeated     *)
(* request is answered with success only while nothing has changed since.  *)
(***************************************************************************)
THEOREM ReplaysFresh ==
  ASSUME MaxPasses = 0, Serial \/ MaxPurges = 0 PROVE Spec => []ReplayIsFresh
<1>1. RInv => ReplayIsFresh
  BY DEF RInv, RevisionsCount, ReplayIsFresh, ReplaySucceeds
<1>2. Spec => []RInv
  BY RInvInit, RInvStep, PTL DEF Spec
<1> QED
  BY <1>1, <1>2, PTL

\* A step of a writer that holds nothing stale revives an item only as a restore.
LEMMA OnlyRestores ==
  ASSUME TypeOK, CurrentStep, NEW m \in Items, status[m] = "removed", status'[m] # "removed"
  PROVE  /\ Len(versions'[m]) = Len(versions[m]) + 1
         /\ \E v \in DOMAIN versions[m] : status'[m] = versions[m][v]
<1>1. ASSUME NEW a \in Actions, NEW i \in Items, NEW k, Succeed(i, a, k) PROVE FALSE
  <2>1. i = m
    BY <1>1 DEF Succeed, Upsert, TypeOK
  <2>2. "removed" \notin AllowedFrom(a)
    BY DEF AllowedFrom, Actions, PinActions
  <2> QED
    BY <1>1, <2>1, <2>2 DEF Succeed
<1>2. ASSUME NEW a, NEW i, NEW k, Reject(i, a, k) PROVE FALSE
  BY <1>2 DEF Reject, row
<1>3. ASSUME NEW i \in Items, NEW k, NEW seen, Edit(i, k, seen) PROVE FALSE
  BY <1>3 DEF Edit, Rewrite, Upsert, Row, TypeOK
<1>4. ASSUME NEW s \in Sources, ApplyPurge(s, [i \in Items |-> Row(i)]) PROVE FALSE
  BY <1>4 DEF ApplyPurge, Affected, Row, TypeOK
<1>5. ASSUME NEW i \in Items, NEW k, NEW seen, NEW v \in DOMAIN versions[i],
             Restore(i, v, k, seen)
      PROVE  /\ Len(versions'[m]) = Len(versions[m]) + 1
             /\ \E u \in DOMAIN versions[m] : status'[m] = versions[m][u]
  <2> DEFINE r == [Row(i) EXCEPT !.status = versions[i][v], !.rev = @ + 1]
  <2>1. r.status = versions[i][v]
    BY DEF Row
  <2>2. Upsert(i, r) /\ versions' = [versions EXCEPT ![i] = Append(@, versions[i][v])]
    BY <1>5 DEF Restore, Rewrite
  <2> HIDE DEF r
  <2>3. i = m
    BY <2>2 DEF Upsert, TypeOK
  <2>4. status'[m] = versions[m][v]
    BY <2>1, <2>2, <2>3 DEF Upsert, TypeOK
  <2>5. versions[m] \in Seq(Statuses) /\ versions'[m] = Append(versions[m], versions[m][v])
    BY <2>2, <2>3 DEF TypeOK
  <2> QED
    BY <2>3, <2>4, <2>5
<1>6. ~ UNCHANGED <<row, versions, audit, writes, effects>>
  BY DEF row
<1> QED
  BY <1>1, <1>2, <1>3, <1>4, <1>5, <1>6 DEF CurrentStep, Perform, Transition

(***************************************************************************)
(* Under the same condition only a restore of a version brings a removed   *)
(* item back.                                                              *)
(***************************************************************************)
THEOREM RemovalsLast ==
  ASSUME MaxPasses = 0, Serial \/ MaxPurges = 0 PROVE Spec => RemovedOnlyRestored
<1> DEFINE Kept ==
      \A m \in Items : status[m] = "removed" /\ status'[m] # "removed" =>
        /\ Len(versions'[m]) = Len(versions[m]) + 1
        /\ \E v \in DOMAIN versions[m] : status'[m] = versions[m][v]
<1>1. RInv /\ [Next]_vars => [Kept]_vars
  BY CurrentSteps, OnlyRestores DEF RInv
<1>2. Spec => []RInv
  BY RInvInit, RInvStep, PTL DEF Spec
<1> QED
  BY <1>1, <1>2, PTL DEF Spec, RemovedOnlyRestored

==============================================================================
