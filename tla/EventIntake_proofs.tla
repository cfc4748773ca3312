-------------------------- MODULE EventIntake_proofs --------------------------
(***************************************************************************)
(* Proofs about EventIntake.                                               *)
(***************************************************************************)
EXTENDS EventIntake, FiniteSetTheorems, WellFoundedInduction, TLAPS

-----------------------------------------------------------------------------
(* Finite sets: a set of numbers has a greatest one, a part as large as the  *)
(* whole is the whole.                                                       *)

HasMax(S) == \E m \in S : \A n \in S : n <= m

Less == {p \in Nat \X Nat : p[1] < p[2]}

LEMMA LessWellFounded == IsWellFoundedOn(Less, Nat)
<1>1. IsWellFoundedOn(OpToRel(<, Nat), Nat)
  BY NatLessThanWellFounded, Zenon
<1>2. Less = OpToRel(<, Nat)
  BY Zenon DEF Less, OpToRel
<1> QED
  BY <1>1, <1>2

\* A smallest set without a greatest element would have one: remove an element.
LEMMA FiniteHasMax ==
  ASSUME NEW S \in SUBSET Nat, IsFiniteSet(S), S # {}
  PROVE  HasMax(S)
<1> DEFINE Bad == {n \in Nat : \E T \in SUBSET Nat :
                     IsFiniteSet(T) /\ T # {} /\ Cardinality(T) = n /\ ~HasMax(T)}
<1> SUFFICES Bad = {}
  BY FS_CardinalityType
<1>1. SUFFICES ASSUME Bad # {} PROVE FALSE
  OBVIOUS
<1>2. PICK n \in Bad : \A k \in Bad : ~(<<k, n>> \in Less)
  BY <1>1, LessWellFounded, WFMin
<1>3. PICK T \in SUBSET Nat : IsFiniteSet(T) /\ T # {} /\ Cardinality(T) = n /\ ~HasMax(T)
  OBVIOUS
<1>4. PICK x \in T : TRUE
  BY <1>3
<1>5. /\ IsFiniteSet(T \ {x}) /\ T \ {x} \in SUBSET Nat
      /\ Cardinality(T \ {x}) \in Nat /\ Cardinality(T \ {x}) = n - 1
  BY <1>3, <1>4, FS_RemoveElement, FS_CardinalityType
<1>6. n - 1 \notin Bad
  <2>1. n \in Nat /\ n - 1 \in Nat
    BY <1>5
  <2>2. <<n - 1, n>> \in Less
    BY <2>1 DEF Less
  <2> QED
    BY <1>2, <2>2
<1>7. T \ {x} = {} \/ HasMax(T \ {x})
  BY <1>5, <1>6
<1>8. HasMax(T)
  BY <1>4, <1>7 DEF HasMax
<1> QED
  BY <1>3, <1>8

LEMMA MaxIsBound ==
  ASSUME NEW S \in SUBSET Nat, IsFiniteSet(S), S # {}
  PROVE  Max(S) \in S /\ \A n \in S : n <= Max(S)
<1>1. \E m \in S : \A n \in S : m >= n
  BY FiniteHasMax DEF HasMax
<1>2. Max(S) \in S /\ \A n \in S : Max(S) >= n
  BY <1>1, Zenon DEF Max
<1> QED
  BY <1>2

\* The next number of a thread is above each of its entries.
LEMMA NextIsAbove ==
  ASSUME entry \in [Payloads -> Nat], NEW t
  PROVE  /\ NextSequence(t) \in Nat \ {0}
         /\ \A e \in InThread(t) : entry[e] < NextSequence(t)
<1> DEFINE I == InThread(t)
           N == {entry[e] : e \in I}
           f == [e \in I |-> entry[e]]
<1>1. IsFiniteSet(I)
  BY IntakeConstants, FS_Subset DEF InThread
<1>2. f \in Surjection(I, N)
  BY DEF Surjection
<1>3. IsFiniteSet(N)
  BY <1>1, <1>2, FS_Surjection
<1>4. IsFiniteSet(N \cup {0})
  BY <1>3, FS_AddElement
<1>5. N \cup {0} \in SUBSET Nat /\ N \cup {0} # {}
  BY DEF InThread
<1>6. Max(N \cup {0}) \in Nat /\ \A n \in N \cup {0} : n <= Max(N \cup {0})
  BY <1>4, <1>5, MaxIsBound
<1>7. NextSequence(t) = Max(N \cup {0}) + 1
  BY DEF NextSequence
<1>8. \A e \in I : entry[e] \in N /\ entry[e] \in Nat
  BY DEF InThread
<1> HIDE DEF I, N
<1>9. \A e \in I : entry[e] < NextSequence(t)
  BY <1>6, <1>7, <1>8
<1>10. NextSequence(t) \in Nat \ {0}
  BY <1>6, <1>7
<1> QED
  BY <1>9, <1>10 DEF I

\* If the layer is ready, each event has an entry and a job that has succeeded.
LEMMA ReadyLayer ==
  ASSUME NEW A \in SUBSET Payloads, NEW avail, NEW succeeded \in BOOLEAN,
         LayerReady(A, avail, succeeded, Count(avail))
  PROVE  avail = A /\ succeeded /\ \A e \in A : entry[e] # 0
<1> DEFINE C == {e \in A : entry[e] # 0}
<1>1. avail = A /\ succeeded /\ Cardinality(C) >= Cardinality(A)
  BY DEF LayerReady, Count
<1>2. IsFiniteSet(A)
  BY IntakeConstants, FS_Subset
<1>3. C \in SUBSET A
  OBVIOUS
<1>4. IsFiniteSet(C) /\ Cardinality(C) <= Cardinality(A) /\ (Cardinality(A) = Cardinality(C) => A = C)
  BY <1>2, <1>3, FS_Subset
<1>5. Cardinality(C) \in Nat /\ Cardinality(A) \in Nat
  BY <1>2, <1>4, FS_CardinalityType
<1>6. A = C
  BY <1>1, <1>4, <1>5
<1> QED
  BY <1>1, <1>6

-----------------------------------------------------------------------------
\* One disjunct for each action.
Step ==
  \/ \E e \in Payloads : Deliver(e)
  \/ \E e \in Payloads : PurgeSource(e)
  \/ \E e \in Payloads : ExpireOrphan(e)
  \/ \E e \in Payloads : Overrun(e)
  \/ \E e \in Payloads : RetryDeadLetter(e)
  \/ \E w \in Workers, e \in Payloads : Claim(w, e)
  \/ \E w \in Workers : Append(w)
  \/ \E w \in Workers : ReadSequence(w)
  \/ \E w \in Workers : InsertEntry(w)
  \/ \E w \in Workers : HandlerRaises(w)
  \/ \E w \in Workers : RecordOutcome(w)
  \/ \E w \in Workers : Crash(w)
  \/ \E A \in Questions : CheckNow(A)
  \/ \E A \in Questions : ReadEvents(A)
  \/ ReadJobs
  \/ ReadEntries

LEMMA NextIsStep == Next => Step
<1>1. ASSUME NEW w \in Workers, LaneStep(w) PROVE Step
  BY <1>1 DEF LaneStep, Step
<1> QED
  BY <1>1 DEF Next, Step

-----------------------------------------------------------------------------
(* Types, and what a lane at work and a job are.                             *)

\* A lane at work has an event, and what it has read is a number; only stored
\* events have jobs.  With Lite a check has no steps.
BusyOK ==
  /\ \A w \in Workers : phase[w] # "idle" => doing[w] \in Payloads
  /\ \A w \in Workers : phase[w] = "insert" => store = "postgres" /\ number[w] # 0
  /\ \A w \in Workers : ok[w] => phase[w] = "done"
  /\ \A e \in Payloads : job[e] # "none" => e \in stored
  /\ store = "lite" => checking = "idle"
  /\ checking = "idle" => found = {}

Basics == TypeOK /\ BusyOK

LocalsType ==
  /\ phase  \in [Workers -> {"idle", "append", "insert", "done"}]
  /\ doing  \in [Workers -> Payloads \cup {None}]
  /\ number \in [Workers -> Nat]
  /\ ok     \in [Workers -> BOOLEAN]

RowsType ==
  /\ entry \in [Payloads -> Nat]
  /\ taken \in [Threads \cup {None} -> SUBSET Nat]

JobsType ==
  /\ job      \in [Payloads -> {"none", "open", "done", "dead"}]
  /\ attempts \in [Payloads -> Nat]
  /\ lockedBy \in [Payloads -> Workers \cup {None}]
  /\ \A e \in Payloads : lockedBy[e] # None => job[e] = "open"

RestType ==
  /\ store    \in Stores
  /\ stored   \in SUBSET Payloads
  /\ purged   \in SUBSET stored
  /\ raced    \in SUBSET Payloads
  /\ asked    \in SUBSET Payloads
  /\ found    \in SUBSET asked
  /\ settled  \in BOOLEAN
  /\ checking \in {"idle", "jobs", "entries"}
  /\ ready    \in BOOLEAN
  /\ faults   \in Nat

LEMMA TypeParts == TypeOK <=> RestType /\ RowsType /\ JobsType /\ LocalsType
BY DEF TypeOK, RestType, RowsType, JobsType, LocalsType

LEMMA BasicsInit == Init => Basics
<1> SUFFICES ASSUME Init PROVE Basics
  OBVIOUS
<1>1. RestType /\ LocalsType
  BY DEF Init, RestType, LocalsType
<1>2. RowsType /\ JobsType
  BY DEF Init, RowsType, JobsType
<1>3. BusyOK
  BY DEF Init, BusyOK
<1> QED
  BY <1>1, <1>2, <1>3, TypeParts DEF Basics

LEMMA AppendEntryRows ==
  ASSUME RowsType, NEW e \in Payloads, NEW n \in Nat, AppendEntry(e, n)
  PROVE  /\ RowsType'
         /\ Inserts(e, n) =>
              /\ \A f \in Payloads : entry'[f] = IF f = e THEN n ELSE entry[f]
              /\ \A t \in Threads \cup {None} :
                   taken'[t] = IF t = Thread[e] THEN taken[t] \cup {n} ELSE taken[t]
         /\ ~Inserts(e, n) => UNCHANGED rows
<1>1. Thread[e] \in Threads \cup {None}
  BY IntakeConstants
<1>2. CASE Inserts(e, n)
  <2>1. /\ entry' = [entry EXCEPT ![e] = n]
        /\ taken' = [taken EXCEPT ![Thread[e]] = @ \cup {n}]
    BY <1>2 DEF AppendEntry
  <2>2. entry' \in [Payloads -> Nat] /\ \A f \in Payloads : entry'[f] = IF f = e THEN n ELSE entry[f]
    BY <2>1 DEF RowsType
  <2>3. /\ taken' \in [Threads \cup {None} -> SUBSET Nat]
        /\ \A t \in Threads \cup {None} :
             taken'[t] = IF t = Thread[e] THEN taken[t] \cup {n} ELSE taken[t]
    BY <1>1, <2>1 DEF RowsType
  <2> QED
    BY <1>2, <2>2, <2>3 DEF RowsType
<1>3. CASE ~Inserts(e, n)
  BY <1>3 DEF AppendEntry, RowsType, rows
<1> QED
  BY <1>2, <1>3

LEMMA AppendsBoolean == \A e, n : Appends(e, n) \in BOOLEAN
BY DEF Appends, Inserts, Conflicts

LEMMA HandlerEndsLocals ==
  ASSUME LocalsType, NEW w \in Workers, NEW good \in BOOLEAN, HandlerEnds(w, good)
  PROVE  /\ LocalsType'
         /\ doing' = doing
         /\ phase'[w] = "done" /\ ok'[w] = good
         /\ \A v \in Workers \ {w} : /\ phase'[v] = phase[v] /\ ok'[v] = ok[v]
                                     /\ number'[v] = number[v]
BY DEF HandlerEnds, LocalsType

LEMMA LeaveLocals ==
  ASSUME LocalsType, NEW w \in Workers, Leave(w)
  PROVE  /\ LocalsType'
         /\ phase'[w] = "idle" /\ ~ok'[w]
         /\ \A v \in Workers \ {w} : /\ phase'[v] = phase[v] /\ ok'[v] = ok[v]
                                     /\ number'[v] = number[v] /\ doing'[v] = doing[v]
BY DEF Leave, LocalsType

LEMMA OutcomeJobs ==
  ASSUME Basics, NEW w \in Workers, RecordOutcome(w)
  PROVE  /\ JobsType'
         /\ \A e \in Payloads :
              /\ job'[e] # "none" => job[e] # "none"
              /\ job[e] # "none" => job'[e] # "none"
              /\ job[e] = "done" => job'[e] = "done"
              /\ job'[e] = "done" /\ job[e] # "done" => ok[w] /\ e = doing[w]
<1>1. doing[w] \in Payloads
  BY DEF Basics, BusyOK, RecordOutcome
<1>2. CASE lockedBy[doing[w]] # w
  BY <1>2 DEF RecordOutcome, jobs, Basics, TypeOK, JobsType
<1>3. CASE lockedBy[doing[w]] = w
  <2> DEFINE e == doing[w]
             n == IF ok[w] THEN attempts[e] ELSE Failed(e)
             new == IF ok[w] THEN "done" ELSE IF n < MaxAttempts THEN "open" ELSE "dead"
  <2>1. job[e] = "open"
    BY <1>1, <1>3, IntakeConstants DEF Basics, TypeOK
  <2>2. /\ job' = [job EXCEPT ![e] = new]
        /\ attempts' = [attempts EXCEPT ![e] = n]
        /\ lockedBy' = [lockedBy EXCEPT ![e] = None]
    BY <1>3 DEF RecordOutcome
  <2>3. n \in Nat /\ new \in {"open", "done", "dead"} /\ (new = "done" => ok[w])
    BY <1>1 DEF Basics, TypeOK, Failed
  <2> HIDE DEF n, new
  <2>4. JobsType'
    BY <1>1, <2>2, <2>3 DEF Basics, TypeOK, JobsType
  <2> QED
    BY <1>1, <2>1, <2>2, <2>3, <2>4 DEF Basics, TypeOK
<1> QED
  BY <1>2, <1>3

LEMMA RestStep ==
  ASSUME Basics, [Next]_vars
  PROVE  RestType'
<1>1. ASSUME NEW e \in Payloads, Deliver(e) PROVE RestType'
  BY <1>1 DEF Deliver, Basics, TypeOK, RestType, check
<1>2. ASSUME NEW e \in Payloads, PurgeSource(e) PROVE RestType'
  BY <1>2 DEF PurgeSource, Basics, TypeOK, RestType, check
<1>3. ASSUME NEW e \in Payloads, ExpireOrphan(e) PROVE RestType'
  BY <1>3 DEF ExpireOrphan, Basics, TypeOK, RestType, check
<1>4. ASSUME NEW e \in Payloads, Overrun(e) PROVE RestType'
  BY <1>4 DEF Overrun, Basics, TypeOK, RestType, check, Fault
<1>5. ASSUME NEW e \in Payloads, RetryDeadLetter(e) PROVE RestType'
  BY <1>5 DEF RetryDeadLetter, Basics, TypeOK, RestType, check, Fault
<1>6. ASSUME NEW w \in Workers, NEW e \in Payloads, Claim(w, e) PROVE RestType'
  BY <1>6 DEF Claim, Basics, TypeOK, RestType, check, Claimable
<1>7. ASSUME NEW w \in Workers, Append(w) PROVE RestType'
  BY <1>7 DEF Append, Basics, TypeOK, RestType, check, HandlerEnds
<1>8. ASSUME NEW w \in Workers, ReadSequence(w) PROVE RestType'
  BY <1>8 DEF ReadSequence, Basics, TypeOK, RestType, check, BusyOK, Beside
<1>9. ASSUME NEW w \in Workers, InsertEntry(w) PROVE RestType'
  BY <1>9 DEF InsertEntry, Basics, TypeOK, RestType, check, HandlerEnds
<1>10. ASSUME NEW w \in Workers, HandlerRaises(w) PROVE RestType'
  BY <1>10 DEF HandlerRaises, Basics, TypeOK, RestType, check, HandlerEnds
<1>11. ASSUME NEW w \in Workers, RecordOutcome(w) PROVE RestType'
  BY <1>11 DEF RecordOutcome, Basics, TypeOK, RestType, check, Leave
<1>12. ASSUME NEW w \in Workers, Crash(w) PROVE RestType'
  BY <1>12 DEF Crash, Basics, TypeOK, RestType, check, Leave, Fault
<1>13. ASSUME NEW A \in Questions, CheckNow(A) PROVE RestType'
  BY <1>13, IntakeConstants DEF CheckNow, Basics, TypeOK, RestType, check, LayerReady, JobsReady, BusyOK
<1>14. ASSUME NEW A \in Questions, ReadEvents(A) PROVE RestType'
  BY <1>14, IntakeConstants DEF ReadEvents, Basics, TypeOK, RestType, check, Available
<1>15. ASSUME ReadJobs PROVE RestType'
  BY <1>15 DEF ReadJobs, Basics, TypeOK, RestType, check, JobsReady
<1>16. ASSUME ReadEntries PROVE RestType'
  BY <1>16 DEF ReadEntries, Basics, TypeOK, RestType, check, LayerReady
<1>17. ASSUME UNCHANGED vars PROVE RestType'
  BY <1>17 DEF vars, rows, jobs, locals, check, Basics, TypeOK, RestType
<1> QED
  BY NextIsStep, <1>1, <1>2, <1>3, <1>4, <1>5, <1>6, <1>7, <1>8, <1>9, <1>10, <1>11, <1>12, <1>13, <1>14, <1>15, <1>16, <1>17 DEF Step

LEMMA RowsStep ==
  ASSUME Basics, [Next]_vars
  PROVE  RowsType'
<1>1. ASSUME NEW e \in Payloads, Deliver(e) PROVE RowsType'
  BY <1>1 DEF Deliver, Basics, TypeOK, RowsType, rows
<1>2. ASSUME NEW e \in Payloads, PurgeSource(e) PROVE RowsType'
  BY <1>2 DEF PurgeSource, Basics, TypeOK, RowsType, rows
<1>3. ASSUME NEW e \in Payloads, ExpireOrphan(e) PROVE RowsType'
  BY <1>3 DEF ExpireOrphan, Basics, TypeOK, RowsType, rows
<1>4. ASSUME NEW e \in Payloads, Overrun(e) PROVE RowsType'
  BY <1>4 DEF Overrun, Basics, TypeOK, RowsType, rows, Fault
<1>5. ASSUME NEW e \in Payloads, RetryDeadLetter(e) PROVE RowsType'
  BY <1>5 DEF RetryDeadLetter, Basics, TypeOK, RowsType, rows, Fault
<1>6. ASSUME NEW w \in Workers, NEW e \in Payloads, Claim(w, e) PROVE RowsType'
  BY <1>6 DEF Claim, Basics, TypeOK, RowsType, rows, Claimable
<1>7. ASSUME NEW w \in Workers, Append(w) PROVE RowsType'
  <2>1. doing[w] \in Payloads /\ NextSequence(Thread[doing[w]]) \in Nat
    BY <1>7, NextIsAbove DEF Append, Basics, BusyOK, TypeOK
  <2> QED
    BY <1>7, <2>1, AppendEntryRows DEF Append, Basics, TypeOK, RowsType
<1>8. ASSUME NEW w \in Workers, ReadSequence(w) PROVE RowsType'
  BY <1>8 DEF ReadSequence, Basics, TypeOK, RowsType, rows
<1>9. ASSUME NEW w \in Workers, InsertEntry(w) PROVE RowsType'
  <2>1. doing[w] \in Payloads /\ number[w] \in Nat
    BY <1>9 DEF InsertEntry, Basics, BusyOK, TypeOK
  <2> QED
    BY <1>9, <2>1, AppendEntryRows DEF InsertEntry, Basics, TypeOK, RowsType
<1>10. ASSUME NEW w \in Workers, HandlerRaises(w) PROVE RowsType'
  BY <1>10 DEF HandlerRaises, Basics, TypeOK, RowsType, rows, HandlerEnds
<1>11. ASSUME NEW w \in Workers, RecordOutcome(w) PROVE RowsType'
  BY <1>11 DEF RecordOutcome, Basics, TypeOK, RowsType, rows, Leave
<1>12. ASSUME NEW w \in Workers, Crash(w) PROVE RowsType'
  BY <1>12 DEF Crash, Basics, TypeOK, RowsType, rows, Leave, Fault
<1>13. ASSUME NEW A \in Questions, CheckNow(A) PROVE RowsType'
  BY <1>13 DEF CheckNow, Basics, TypeOK, RowsType, rows
<1>14. ASSUME NEW A \in Questions, ReadEvents(A) PROVE RowsType'
  BY <1>14 DEF ReadEvents, Basics, TypeOK, RowsType, rows
<1>15. ASSUME ReadJobs PROVE RowsType'
  BY <1>15 DEF ReadJobs, Basics, TypeOK, RowsType, rows
<1>16. ASSUME ReadEntries PROVE RowsType'
  BY <1>16 DEF ReadEntries, Basics, TypeOK, RowsType, rows
<1>17. ASSUME UNCHANGED vars PROVE RowsType'
  BY <1>17 DEF vars, rows, jobs, locals, check, Basics, TypeOK, RowsType
<1> QED
  BY NextIsStep, <1>1, <1>2, <1>3, <1>4, <1>5, <1>6, <1>7, <1>8, <1>9, <1>10, <1>11, <1>12, <1>13, <1>14, <1>15, <1>16, <1>17 DEF Step

LEMMA JobsStep ==
  ASSUME Basics, [Next]_vars
  PROVE  JobsType'
<1>1. ASSUME NEW e \in Payloads, Deliver(e) PROVE JobsType'
  BY <1>1, IntakeConstants DEF Deliver, Basics, TypeOK, JobsType, jobs, BusyOK
<1>2. ASSUME NEW e \in Payloads, PurgeSource(e) PROVE JobsType'
  BY <1>2 DEF PurgeSource, Basics, TypeOK, JobsType, jobs
<1>3. ASSUME NEW e \in Payloads, ExpireOrphan(e) PROVE JobsType'
  BY <1>3 DEF ExpireOrphan, Basics, TypeOK, JobsType, jobs
<1>4. ASSUME NEW e \in Payloads, Overrun(e) PROVE JobsType'
  BY <1>4 DEF Overrun, Basics, TypeOK, JobsType, jobs, Fault
<1>5. ASSUME NEW e \in Payloads, RetryDeadLetter(e) PROVE JobsType'
  BY <1>5 DEF RetryDeadLetter, Basics, TypeOK, JobsType, jobs, Fault
<1>6. ASSUME NEW w \in Workers, NEW e \in Payloads, Claim(w, e) PROVE JobsType'
  BY <1>6 DEF Claim, Basics, TypeOK, JobsType, jobs, Claimable
<1>7. ASSUME NEW w \in Workers, Append(w) PROVE JobsType'
  BY <1>7 DEF Append, Basics, TypeOK, JobsType, jobs, HandlerEnds
<1>8. ASSUME NEW w \in Workers, ReadSequence(w) PROVE JobsType'
  BY <1>8 DEF ReadSequence, Basics, TypeOK, JobsType, jobs
<1>9. ASSUME NEW w \in Workers, InsertEntry(w) PROVE JobsType'
  BY <1>9 DEF InsertEntry, Basics, TypeOK, JobsType, jobs, HandlerEnds
<1>10. ASSUME NEW w \in Workers, HandlerRaises(w) PROVE JobsType'
  BY <1>10 DEF HandlerRaises, Basics, TypeOK, JobsType, jobs, HandlerEnds
<1>11. ASSUME NEW w \in Workers, RecordOutcome(w) PROVE JobsType'
  BY <1>11, OutcomeJobs
<1>12. ASSUME NEW w \in Workers, Crash(w) PROVE JobsType'
  BY <1>12 DEF Crash, Basics, TypeOK, JobsType, jobs, Leave, Fault
<1>13. ASSUME NEW A \in Questions, CheckNow(A) PROVE JobsType'
  BY <1>13 DEF CheckNow, Basics, TypeOK, JobsType, jobs
<1>14. ASSUME NEW A \in Questions, ReadEvents(A) PROVE JobsType'
  BY <1>14 DEF ReadEvents, Basics, TypeOK, JobsType, jobs
<1>15. ASSUME ReadJobs PROVE JobsType'
  BY <1>15 DEF ReadJobs, Basics, TypeOK, JobsType, jobs
<1>16. ASSUME ReadEntries PROVE JobsType'
  BY <1>16 DEF ReadEntries, Basics, TypeOK, JobsType, jobs
<1>17. ASSUME UNCHANGED vars PROVE JobsType'
  BY <1>17 DEF vars, rows, jobs, locals, check, Basics, TypeOK, JobsType
<1> QED
  BY NextIsStep, <1>1, <1>2, <1>3, <1>4, <1>5, <1>6, <1>7, <1>8, <1>9, <1>10, <1>11, <1>12, <1>13, <1>14, <1>15, <1>16, <1>17 DEF Step

LEMMA LocalsStep ==
  ASSUME Basics, [Next]_vars
  PROVE  LocalsType'
<1>1. ASSUME NEW e \in Payloads, Deliver(e) PROVE LocalsType'
  BY <1>1 DEF Deliver, Basics, TypeOK, LocalsType, locals
<1>2. ASSUME NEW e \in Payloads, PurgeSource(e) PROVE LocalsType'
  BY <1>2 DEF PurgeSource, Basics, TypeOK, LocalsType, locals
<1>3. ASSUME NEW e \in Payloads, ExpireOrphan(e) PROVE LocalsType'
  BY <1>3 DEF ExpireOrphan, Basics, TypeOK, LocalsType, locals
<1>4. ASSUME NEW e \in Payloads, Overrun(e) PROVE LocalsType'
  BY <1>4 DEF Overrun, Basics, TypeOK, LocalsType, locals, Fault
<1>5. ASSUME NEW e \in Payloads, RetryDeadLetter(e) PROVE LocalsType'
  BY <1>5 DEF RetryDeadLetter, Basics, TypeOK, LocalsType, locals, Fault
<1>6. ASSUME NEW w \in Workers, NEW e \in Payloads, Claim(w, e) PROVE LocalsType'
  BY <1>6 DEF Claim, Basics, TypeOK, LocalsType, locals, Claimable
<1>7. ASSUME NEW w \in Workers, Append(w) PROVE LocalsType'
  BY <1>7, AppendsBoolean, HandlerEndsLocals DEF Append, Basics, TypeOK, LocalsType
<1>8. ASSUME NEW w \in Workers, ReadSequence(w) PROVE LocalsType'
  BY <1>8, NextIsAbove DEF ReadSequence, Basics, TypeOK, LocalsType, locals
<1>9. ASSUME NEW w \in Workers, InsertEntry(w) PROVE LocalsType'
  BY <1>9, AppendsBoolean, HandlerEndsLocals DEF InsertEntry, Basics, TypeOK, LocalsType
<1>10. ASSUME NEW w \in Workers, HandlerRaises(w) PROVE LocalsType'
  BY <1>10, AppendsBoolean, HandlerEndsLocals DEF HandlerRaises, Basics, TypeOK, LocalsType
<1>11. ASSUME NEW w \in Workers, RecordOutcome(w) PROVE LocalsType'
  BY <1>11, LeaveLocals DEF RecordOutcome, Basics, TypeOK, LocalsType
<1>12. ASSUME NEW w \in Workers, Crash(w) PROVE LocalsType'
  BY <1>12, LeaveLocals DEF Crash, Basics, TypeOK, LocalsType
<1>13. ASSUME NEW A \in Questions, CheckNow(A) PROVE LocalsType'
  BY <1>13 DEF CheckNow, Basics, TypeOK, LocalsType, locals
<1>14. ASSUME NEW A \in Questions, ReadEvents(A) PROVE LocalsType'
  BY <1>14 DEF ReadEvents, Basics, TypeOK, LocalsType, locals
<1>15. ASSUME ReadJobs PROVE LocalsType'
  BY <1>15 DEF ReadJobs, Basics, TypeOK, LocalsType, locals
<1>16. ASSUME ReadEntries PROVE LocalsType'
  BY <1>16 DEF ReadEntries, Basics, TypeOK, LocalsType, locals
<1>17. ASSUME UNCHANGED vars PROVE LocalsType'
  BY <1>17 DEF vars, rows, jobs, locals, check, Basics, TypeOK, LocalsType
<1> QED
  BY NextIsStep, <1>1, <1>2, <1>3, <1>4, <1>5, <1>6, <1>7, <1>8, <1>9, <1>10, <1>11, <1>12, <1>13, <1>14, <1>15, <1>16, <1>17 DEF Step

LEMMA BusyStep ==
  ASSUME Basics, [Next]_vars
  PROVE  BusyOK'
<1>1. ASSUME NEW e \in Payloads, Deliver(e) PROVE BusyOK'
  BY <1>1 DEF Deliver, Basics, TypeOK, BusyOK, LocalsType, jobs, locals, check
<1>2. ASSUME NEW e \in Payloads, PurgeSource(e) PROVE BusyOK'
  BY <1>2 DEF PurgeSource, Basics, TypeOK, BusyOK, LocalsType, jobs, locals, check
<1>3. ASSUME NEW e \in Payloads, ExpireOrphan(e) PROVE BusyOK'
  BY <1>3 DEF ExpireOrphan, Basics, TypeOK, BusyOK, LocalsType, jobs, locals, check
<1>4. ASSUME NEW e \in Payloads, Overrun(e) PROVE BusyOK'
  BY <1>4 DEF Overrun, Basics, TypeOK, BusyOK, LocalsType, jobs, locals, check, Fault
<1>5. ASSUME NEW e \in Payloads, RetryDeadLetter(e) PROVE BusyOK'
  BY <1>5 DEF RetryDeadLetter, Basics, TypeOK, BusyOK, LocalsType, jobs, locals, check, Fault
<1>6. ASSUME NEW w \in Workers, NEW e \in Payloads, Claim(w, e) PROVE BusyOK'
  BY <1>6 DEF Claim, Basics, TypeOK, BusyOK, LocalsType, jobs, locals, check, Claimable
<1>7. ASSUME NEW w \in Workers, Append(w) PROVE BusyOK'
  BY <1>7, AppendsBoolean, HandlerEndsLocals DEF Append, Basics, TypeOK, BusyOK, LocalsType, jobs, check
<1>8. ASSUME NEW w \in Workers, ReadSequence(w) PROVE BusyOK'
  BY <1>8, NextIsAbove DEF ReadSequence, Basics, TypeOK, BusyOK, LocalsType, jobs, locals, check
<1>9. ASSUME NEW w \in Workers, InsertEntry(w) PROVE BusyOK'
  BY <1>9, AppendsBoolean, HandlerEndsLocals DEF InsertEntry, Basics, TypeOK, BusyOK, LocalsType, jobs, check
<1>10. ASSUME NEW w \in Workers, HandlerRaises(w) PROVE BusyOK'
  BY <1>10, AppendsBoolean, HandlerEndsLocals DEF HandlerRaises, Basics, TypeOK, BusyOK, LocalsType, jobs, check
<1>11. ASSUME NEW w \in Workers, RecordOutcome(w) PROVE BusyOK'
  <2>1. \A e \in Payloads : job'[e] # "none" => e \in stored'
    BY <1>11, OutcomeJobs DEF RecordOutcome, Basics, BusyOK
  <2> QED
    BY <1>11, <2>1, LeaveLocals DEF RecordOutcome, Basics, TypeOK, BusyOK, LocalsType, check
<1>12. ASSUME NEW w \in Workers, Crash(w) PROVE BusyOK'
  BY <1>12, LeaveLocals DEF Crash, Basics, TypeOK, BusyOK, LocalsType, jobs, check
<1>13. ASSUME NEW A \in Questions, CheckNow(A) PROVE BusyOK'
  BY <1>13 DEF CheckNow, Basics, TypeOK, BusyOK, LocalsType, jobs, locals, check
<1>14. ASSUME NEW A \in Questions, ReadEvents(A) PROVE BusyOK'
  BY <1>14 DEF ReadEvents, Basics, TypeOK, BusyOK, LocalsType, jobs, locals, check
<1>15. ASSUME ReadJobs PROVE BusyOK'
  BY <1>15 DEF ReadJobs, Basics, TypeOK, BusyOK, LocalsType, jobs, locals, check
<1>16. ASSUME ReadEntries PROVE BusyOK'
  BY <1>16 DEF ReadEntries, Basics, TypeOK, BusyOK, LocalsType, jobs, locals, check
<1>17. ASSUME UNCHANGED vars PROVE BusyOK'
  BY <1>17 DEF vars, rows, jobs, locals, check, Basics, TypeOK, BusyOK
<1> QED
  BY NextIsStep, <1>1, <1>2, <1>3, <1>4, <1>5, <1>6, <1>7, <1>8, <1>9, <1>10, <1>11, <1>12, <1>13, <1>14, <1>15, <1>16, <1>17 DEF Step

LEMMA BasicsStep ==
  ASSUME Basics, [Next]_vars
  PROVE  Basics'
BY RestStep, RowsStep, JobsStep, LocalsStep, BusyStep, TypeParts DEF Basics, TypeOK, RestType,
   RowsType, JobsType, LocalsType


-----------------------------------------------------------------------------
(* The invariants behind the properties.                                     *)

\* The index of a thread holds the numbers of its entries, and none above them.
IndexOK ==
  /\ \A e \in Payloads : entry[e] # 0 => entry[e] \in taken[Thread[e]]
  /\ \A t \in Threads \cup {None} : \A n \in taken[t] : \E e \in InThread(t) : n <= entry[e]

\* A lane that has read a number, unless another has read one beside it: the
\* number is still above all of the index.
Alone(w) == phase[w] = "insert" /\ doing[w] \notin raced /\ Thread[doing[w]] # None

AloneOK ==
  \A w \in Workers : Alone(w) =>
    /\ \A n \in taken[Thread[doing[w]]] : n < number[w]
    /\ \A v \in Workers \ {w} : phase[v] = "insert" => Thread[doing[v]] # Thread[doing[w]]

\* A lane that has succeeded has left an entry.
AppendedOK ==
  /\ \A w \in Workers : ok[w] /\ doing[w] \notin raced => entry[doing[w]] # 0
  /\ DoneIsAppended

\* What the check has found out about the jobs stays true.
CheckOK ==
  /\ checking = "entries" /\ settled => \A e \in found : job[e] = "done"
  /\ ReadyIsComplete

IInv == Basics /\ IndexOK /\ AloneOK

\* A step of the lanes that touches no entry leaves the index as it is.
LEMMA SameIndex ==
  ASSUME IndexOK, UNCHANGED rows
  PROVE  IndexOK'
BY DEF IndexOK, rows, InThread

LEMMA IndexStep ==
  ASSUME IInv, [Next]_vars
  PROVE  IndexOK'
<1>1. ASSUME NEW e \in Payloads, Deliver(e) PROVE IndexOK'
  BY <1>1, SameIndex DEF Deliver, IInv, rows
<1>2. ASSUME NEW e \in Payloads, PurgeSource(e) PROVE IndexOK'
  BY <1>2, SameIndex DEF PurgeSource, IInv, rows
<1>3. ASSUME NEW e \in Payloads, ExpireOrphan(e) PROVE IndexOK'
  BY <1>3, SameIndex DEF ExpireOrphan, IInv, rows
<1>4. ASSUME NEW e \in Payloads, Overrun(e) PROVE IndexOK'
  BY <1>4, SameIndex DEF Overrun, IInv, rows
<1>5. ASSUME NEW e \in Payloads, RetryDeadLetter(e) PROVE IndexOK'
  BY <1>5, SameIndex DEF RetryDeadLetter, IInv, rows
<1>6. ASSUME NEW w \in Workers, NEW e \in Payloads, Claim(w, e) PROVE IndexOK'
  BY <1>6, SameIndex DEF Claim, IInv, rows
<1>7. ASSUME NEW w \in Workers, Append(w) PROVE IndexOK'
  <2> DEFINE e == doing[w]  n == NextSequence(Thread[doing[w]])
  <2>1. e \in Payloads /\ Thread[e] \in Threads \cup {None} /\ n \in Nat \ {0} /\ RowsType
    BY <1>7, IntakeConstants, NextIsAbove DEF Append, IInv, Basics, BusyOK, TypeOK, RowsType
  <2>2. AppendEntry(e, n)
    BY <1>7 DEF Append
  <2>3. CASE Inserts(e, n)
    <3>1. \A f \in Payloads : entry'[f] = IF f = e THEN n ELSE entry[f]
      BY <2>1, <2>2, <2>3, AppendEntryRows
    <3>2. \A t \in Threads \cup {None} :
            taken'[t] = IF t = Thread[e] THEN taken[t] \cup {n} ELSE taken[t]
      BY <2>1, <2>2, <2>3, AppendEntryRows
    <3>3. e \in InThread(Thread[e]) => entry[e] < n
      BY NextIsAbove DEF IInv, Basics, TypeOK
    <3>4. \A f \in Payloads : Thread[f] \in Threads \cup {None}
      BY IntakeConstants
    <3> HIDE DEF e, n
    <3>5. \A f \in Payloads : entry'[f] # 0 => entry'[f] \in taken'[Thread[f]]
      BY <2>1, <3>1, <3>2, <3>4 DEF IInv, IndexOK
    <3>6. ASSUME NEW t \in Threads \cup {None}, NEW m \in taken'[t]
          PROVE  \E f \in InThread(t)' : m <= entry'[f]
      <4>1. CASE t = Thread[e] /\ m = n
        BY <2>1, <3>1, <4>1 DEF InThread
      <4>2. CASE m \in taken[t]
        <5>1. PICK f \in InThread(t) : m <= entry[f]
          BY <4>2 DEF IInv, IndexOK
        <5>2. CASE f # e
          BY <3>1, <5>1, <5>2 DEF InThread
        <5>3. CASE f = e
          <6>1. m <= n /\ entry'[e] = n /\ t = Thread[e]
            BY <2>1, <3>1, <3>3, <5>1, <5>3, <4>2 DEF InThread, IInv, Basics, TypeOK
          <6> QED
            BY <2>1, <6>1 DEF InThread
        <5> QED
          BY <5>2, <5>3
      <4> QED
        BY <3>2, <3>6, <4>1, <4>2
    <3> QED
      BY <3>5, <3>6 DEF IndexOK
  <2>4. CASE ~Inserts(e, n)
    BY <2>1, <2>2, <2>4, AppendEntryRows, SameIndex DEF IInv
  <2> QED
    BY <2>3, <2>4
<1>8. ASSUME NEW w \in Workers, ReadSequence(w) PROVE IndexOK'
  BY <1>8, SameIndex DEF ReadSequence, IInv, rows
<1>9. ASSUME NEW w \in Workers, InsertEntry(w) PROVE IndexOK'
  <2> DEFINE e == doing[w]  n == number[w]
  <2>1. e \in Payloads /\ Thread[e] \in Threads \cup {None} /\ n \in Nat \ {0} /\ RowsType
    BY <1>9, IntakeConstants, NextIsAbove DEF InsertEntry, IInv, Basics, BusyOK, TypeOK, RowsType
  <2>2. AppendEntry(e, n)
    BY <1>9 DEF InsertEntry
  <2>3. CASE Inserts(e, n)
    <3>1. \A f \in Payloads : entry'[f] = IF f = e THEN n ELSE entry[f]
      BY <2>1, <2>2, <2>3, AppendEntryRows
    <3>2. \A t \in Threads \cup {None} :
            taken'[t] = IF t = Thread[e] THEN taken[t] \cup {n} ELSE taken[t]
      BY <2>1, <2>2, <2>3, AppendEntryRows
    <3>3. entry[e] = 0
      BY <1>9, <2>3 DEF InsertEntry, Inserts, IInv, Basics, BusyOK
    <3>4. \A f \in Payloads : Thread[f] \in Threads \cup {None}
      BY IntakeConstants
    <3> HIDE DEF e, n
    <3>5. \A f \in Payloads : entry'[f] # 0 => entry'[f] \in taken'[Thread[f]]
      BY <2>1, <3>1, <3>2, <3>4 DEF IInv, IndexOK
    <3>6. ASSUME NEW t \in Threads \cup {None}, NEW m \in taken'[t]
          PROVE  \E f \in InThread(t)' : m <= entry'[f]
      <4>1. CASE t = Thread[e] /\ m = n
        BY <2>1, <3>1, <4>1 DEF InThread
      <4>2. CASE m \in taken[t]
        <5>1. PICK f \in InThread(t) : m <= entry[f]
          BY <4>2 DEF IInv, IndexOK
        <5>2. CASE f # e
          BY <3>1, <5>1, <5>2 DEF InThread
        <5>3. CASE f = e
          <6>1. m <= n /\ entry'[e] = n /\ t = Thread[e]
            BY <2>1, <3>1, <3>3, <5>1, <5>3, <4>2 DEF InThread, IInv, Basics, TypeOK
          <6> QED
            BY <2>1, <6>1 DEF InThread
        <5> QED
          BY <5>2, <5>3
      <4> QED
        BY <3>2, <3>6, <4>1, <4>2
    <3> QED
      BY <3>5, <3>6 DEF IndexOK
  <2>4. CASE ~Inserts(e, n)
    BY <2>1, <2>2, <2>4, AppendEntryRows, SameIndex DEF IInv
  <2> QED
    BY <2>3, <2>4
<1>10. ASSUME NEW w \in Workers, HandlerRaises(w) PROVE IndexOK'
  BY <1>10, SameIndex DEF HandlerRaises, IInv, rows
<1>11. ASSUME NEW w \in Workers, RecordOutcome(w) PROVE IndexOK'
  BY <1>11, SameIndex DEF RecordOutcome, IInv, rows
<1>12. ASSUME NEW w \in Workers, Crash(w) PROVE IndexOK'
  BY <1>12, SameIndex DEF Crash, IInv, rows
<1>13. ASSUME NEW A \in Questions, CheckNow(A) PROVE IndexOK'
  BY <1>13, SameIndex DEF CheckNow, IInv, rows
<1>14. ASSUME NEW A \in Questions, ReadEvents(A) PROVE IndexOK'
  BY <1>14, SameIndex DEF ReadEvents, IInv, rows
<1>15. ASSUME ReadJobs PROVE IndexOK'
  BY <1>15, SameIndex DEF ReadJobs, IInv, rows
<1>16. ASSUME ReadEntries PROVE IndexOK'
  BY <1>16, SameIndex DEF ReadEntries, IInv, rows
<1>17. ASSUME UNCHANGED vars PROVE IndexOK'
  BY <1>17 DEF vars, rows, IInv, IndexOK, InThread
<1> QED
  BY NextIsStep, <1>1, <1>2, <1>3, <1>4, <1>5, <1>6, <1>7, <1>8, <1>9, <1>10, <1>11, <1>12, <1>13, <1>14, <1>15, <1>16, <1>17 DEF Step

LEMMA AloneStep ==
  ASSUME IInv, [Next]_vars
  PROVE  AloneOK'
<1>1. ASSUME NEW e \in Payloads, Deliver(e) PROVE AloneOK'
  BY <1>1 DEF Deliver, IInv, AloneOK, Alone, rows, locals
<1>2. ASSUME NEW e \in Payloads, PurgeSource(e) PROVE AloneOK'
  BY <1>2 DEF PurgeSource, IInv, AloneOK, Alone, rows, locals
<1>3. ASSUME NEW e \in Payloads, ExpireOrphan(e) PROVE AloneOK'
  BY <1>3 DEF ExpireOrphan, IInv, AloneOK, Alone, rows, locals
<1>4. ASSUME NEW e \in Payloads, Overrun(e) PROVE AloneOK'
  BY <1>4 DEF Overrun, IInv, AloneOK, Alone, rows, locals
<1>5. ASSUME NEW e \in Payloads, RetryDeadLetter(e) PROVE AloneOK'
  BY <1>5 DEF RetryDeadLetter, IInv, AloneOK, Alone, rows, locals
<1>6. ASSUME NEW w \in Workers, NEW e \in Payloads, Claim(w, e) PROVE AloneOK'
  BY <1>6 DEF Claim, IInv, Basics, TypeOK, AloneOK, Alone, rows
<1>7. ASSUME NEW w \in Workers, Append(w) PROVE AloneOK'
  <2>1. store = "lite"
    BY <1>7 DEF Append
  <2>2. \A v \in Workers : phase[v] # "insert"
    BY <2>1 DEF IInv, Basics, BusyOK
  <2>3. LocalsType /\ HandlerEnds(w, Appends(doing[w], NextSequence(Thread[doing[w]])))
    BY <1>7 DEF Append, IInv, Basics, TypeOK, LocalsType
  <2>4. \A v \in Workers : phase'[v] # "insert"
    BY <2>2, <2>3, AppendsBoolean, HandlerEndsLocals
  <2> QED
    BY <2>4 DEF AloneOK, Alone
<1>8. ASSUME NEW w \in Workers, ReadSequence(w) PROVE AloneOK'
  <2> DEFINE t == Thread[doing[w]]
  <2>1. /\ phase[w] = "append" /\ doing[w] \in Payloads /\ t \in Threads \cup {None}
        /\ phase' = [phase EXCEPT ![w] = "insert"] /\ number' = [number EXCEPT ![w] = NextSequence(t)]
        /\ UNCHANGED <<rows, doing>>
    BY <1>8, IntakeConstants DEF ReadSequence, IInv, Basics, BusyOK
  <2>2. \A n \in taken[t] : n < NextSequence(t)
    <3>1. \A n \in taken[t] : n \in Nat /\ \E e \in InThread(t) : n <= entry[e]
      BY <2>1 DEF IInv, IndexOK, Basics, TypeOK
    <3>2. NextSequence(t) \in Nat /\ \A e \in InThread(t) : entry[e] \in Nat /\ entry[e] < NextSequence(t)
      BY NextIsAbove DEF IInv, Basics, TypeOK, InThread
    <3> HIDE DEF t
    <3> QED
      BY <3>1, <3>2
  <2>3. /\ raced \subseteq raced'
        /\ \A v \in Beside(w) : doing[v] \in raced' /\ doing[w] \in raced'
    BY <1>8 DEF ReadSequence
  <2>4. ASSUME NEW v \in Workers, Alone(v)'
        PROVE  /\ \A n \in taken[Thread[doing[v]]] : n < number'[v]
               /\ \A u \in Workers \ {v} : phase'[u] = "insert" => Thread[doing[u]] # Thread[doing[v]]
    <3>1. CASE v = w
      <4>1. Beside(w) = {}
        BY <2>1, <2>3, <2>4, <3>1 DEF Alone
      <4>2. number'[w] = NextSequence(t)
        BY <2>1 DEF IInv, Basics, TypeOK
      <4>3. \A u \in Workers \ {w} : phase'[u] = "insert" => Thread[doing[u]] # t
        BY <2>1, <2>4, <3>1, <4>1 DEF Beside, Alone, IInv, Basics, TypeOK
      <4> QED
        BY <2>2, <3>1, <4>2, <4>3
    <3>2. CASE v # w
      <4>1. Alone(v) /\ number'[v] = number[v]
        BY <2>1, <2>3, <2>4, <3>2 DEF Alone, IInv, Basics, TypeOK
      <4>2. Thread[doing[w]] # Thread[doing[v]]
        BY <2>1, <2>3, <2>4, <3>2, <4>1 DEF Beside, Alone
      <4>3. \A u \in Workers \ {v} : phase'[u] = "insert" => Thread[doing[u]] # Thread[doing[v]]
        BY <2>1, <4>1, <4>2 DEF IInv, AloneOK, Basics, TypeOK
      <4> QED
        BY <4>1, <4>3 DEF IInv, AloneOK
    <3> QED
      BY <3>1, <3>2
  <2> QED
    BY <2>1, <2>4 DEF AloneOK, rows
<1>9. ASSUME NEW w \in Workers, InsertEntry(w) PROVE AloneOK'
  <2>1. /\ doing[w] \in Payloads /\ number[w] \in Nat /\ RowsType /\ LocalsType /\ phase[w] = "insert"
        /\ AppendEntry(doing[w], number[w]) /\ HandlerEnds(w, Appends(doing[w], number[w]))
        /\ raced' = raced
    BY <1>9 DEF InsertEntry, IInv, Basics, BusyOK, TypeOK, RowsType, LocalsType
  <2>2. /\ doing' = doing /\ phase'[w] = "done"
        /\ \A v \in Workers \ {w} : phase'[v] = phase[v] /\ number'[v] = number[v]
    BY <2>1, AppendsBoolean, HandlerEndsLocals
  <2>3. \A t \in Threads \cup {None} : t # Thread[doing[w]] => taken'[t] = taken[t]
    <3> DEFINE e == doing[w]  n == number[w]
    <3>0. e \in Payloads /\ n \in Nat /\ AppendEntry(e, n)
      BY <2>1
    <3> HIDE DEF e, n
    <3>1. CASE Inserts(e, n)
      <4>1. \A t \in Threads \cup {None} :
              taken'[t] = IF t = Thread[e] THEN taken[t] \cup {n} ELSE taken[t]
        BY <2>1, <3>0, <3>1, AppendEntryRows
      <4> QED
        BY <4>1 DEF e
    <3>2. CASE ~Inserts(e, n)
      BY <2>1, <3>0, <3>2, AppendEntryRows DEF rows
    <3> QED
      BY <3>1, <3>2
  <2>4. \A v \in Workers : Alone(v)' => v # w /\ Alone(v) /\ Thread[doing[v]] # Thread[doing[w]]
    BY <2>1, <2>2 DEF Alone, IInv, AloneOK
  <2>5. \A v \in Workers : Alone(v) => Thread[doing[v]] \in Threads \cup {None}
    BY IntakeConstants DEF Alone, IInv, Basics, BusyOK
  <2> QED
    BY <2>2, <2>3, <2>4, <2>5 DEF IInv, AloneOK
<1>10. ASSUME NEW w \in Workers, HandlerRaises(w) PROVE AloneOK'
  <2>1. LocalsType /\ HandlerEnds(w, FALSE)
    BY <1>10 DEF HandlerRaises, IInv, Basics, TypeOK, LocalsType
  <2> QED
    <3>1. /\ doing' = doing /\ phase'[w] = "done"
          /\ \A v \in Workers \ {w} : phase'[v] = phase[v] /\ number'[v] = number[v]
      BY <2>1, HandlerEndsLocals
    <3> QED
      BY <1>10, <3>1 DEF HandlerRaises, IInv, AloneOK, Alone, rows
<1>11. ASSUME NEW w \in Workers, RecordOutcome(w) PROVE AloneOK'
  <2>1. LocalsType /\ Leave(w)
    BY <1>11 DEF RecordOutcome, IInv, Basics, TypeOK, LocalsType
  <2> QED
    BY <1>11, <2>1, LeaveLocals DEF RecordOutcome, IInv, AloneOK, Alone, rows
<1>12. ASSUME NEW w \in Workers, Crash(w) PROVE AloneOK'
  <2>1. LocalsType /\ Leave(w)
    BY <1>12 DEF Crash, IInv, Basics, TypeOK, LocalsType
  <2> QED
    BY <1>12, <2>1, LeaveLocals DEF Crash, IInv, AloneOK, Alone, rows
<1>13. ASSUME NEW A \in Questions, CheckNow(A) PROVE AloneOK'
  BY <1>13 DEF CheckNow, IInv, AloneOK, Alone, rows, locals
<1>14. ASSUME NEW A \in Questions, ReadEvents(A) PROVE AloneOK'
  BY <1>14 DEF ReadEvents, IInv, AloneOK, Alone, rows, locals
<1>15. ASSUME ReadJobs PROVE AloneOK'
  BY <1>15 DEF ReadJobs, IInv, AloneOK, Alone, rows, locals
<1>16. ASSUME ReadEntries PROVE AloneOK'
  BY <1>16 DEF ReadEntries, IInv, AloneOK, Alone, rows, locals
<1>17. ASSUME UNCHANGED vars PROVE AloneOK'
  BY <1>17 DEF vars, rows, locals, IInv, AloneOK, Alone
<1> QED
  BY NextIsStep, <1>1, <1>2, <1>3, <1>4, <1>5, <1>6, <1>7, <1>8, <1>9, <1>10, <1>11, <1>12, <1>13, <1>14, <1>15, <1>16, <1>17 DEF Step

LEMMA InvInit == Init => IInv
<1> SUFFICES ASSUME Init PROVE IInv
  OBVIOUS
<1>1. IndexOK /\ AloneOK
  BY IntakeConstants DEF Init, IndexOK, AloneOK, Alone
<1> QED
  BY <1>1, BasicsInit DEF IInv

LEMMA InvStep == IInv /\ [Next]_vars => IInv'
BY BasicsStep, IndexStep, AloneStep DEF IInv

LEMMA AppendedStep ==
  ASSUME IInv, AppendedOK, [Next]_vars
  PROVE  AppendedOK'
<1>1. ASSUME NEW e \in Payloads, Deliver(e) PROVE AppendedOK'
  BY <1>1 DEF Deliver, IInv, Basics, TypeOK, AppendedOK, DoneIsAppended, rows, locals
<1>2. ASSUME NEW e \in Payloads, PurgeSource(e) PROVE AppendedOK'
  BY <1>2 DEF PurgeSource, AppendedOK, DoneIsAppended, rows, jobs, locals
<1>3. ASSUME NEW e \in Payloads, ExpireOrphan(e) PROVE AppendedOK'
  BY <1>3 DEF ExpireOrphan, AppendedOK, DoneIsAppended, rows, jobs, locals
<1>4. ASSUME NEW e \in Payloads, Overrun(e) PROVE AppendedOK'
  BY <1>4 DEF Overrun, AppendedOK, DoneIsAppended, rows, jobs, locals
<1>5. ASSUME NEW e \in Payloads, RetryDeadLetter(e) PROVE AppendedOK'
  BY <1>5 DEF RetryDeadLetter, IInv, Basics, TypeOK, AppendedOK, DoneIsAppended, rows, locals
<1>6. ASSUME NEW w \in Workers, NEW e \in Payloads, Claim(w, e) PROVE AppendedOK'
  BY <1>6 DEF Claim, IInv, Basics, TypeOK, BusyOK, AppendedOK, DoneIsAppended, rows, jobs
<1>7. ASSUME NEW w \in Workers, Append(w) PROVE AppendedOK'
  <2> DEFINE e == doing[w]  n == NextSequence(Thread[doing[w]])
  <2>1. /\ e \in Payloads /\ n \in Nat \ {0} /\ RowsType /\ LocalsType
        /\ AppendEntry(e, n) /\ HandlerEnds(w, Appends(e, n)) /\ UNCHANGED <<job, raced>>
    BY <1>7, NextIsAbove DEF Append, IInv, Basics, BusyOK, TypeOK, RowsType, LocalsType, jobs
  <2> HIDE DEF e, n
  <2>2. e = doing[w] /\ n = NextSequence(Thread[e])
    BY DEF e, n
  <2>3. \A f \in Payloads : entry[f] # 0 => entry'[f] # 0
    BY <2>1, AppendEntryRows DEF rows
  <2>4. ok'[w] /\ e \notin raced => entry'[e] # 0
    <3>1. SUFFICES ASSUME Appends(e, n), e \notin raced PROVE entry'[e] # 0
      BY <2>1, AppendsBoolean, HandlerEndsLocals
    <3>2. ~Conflicts(e, n)
      <4>1. \A m \in taken[Thread[e]] : m \in Nat /\ \E f \in InThread(Thread[e]) : m <= entry[f]
        BY <2>1, IntakeConstants DEF IInv, IndexOK, Basics, TypeOK
      <4>2. \A f \in InThread(Thread[e]) : entry[f] \in Nat /\ entry[f] < n
        BY <2>2, NextIsAbove DEF IInv, Basics, TypeOK, InThread
      <4> QED
        BY <2>1, <4>1, <4>2 DEF Conflicts
    <3>3. Inserts(e, n)
      BY <3>1, <3>2 DEF Appends
    <3> QED
      BY <2>1, <3>3, AppendEntryRows
  <2>5. /\ doing' = doing
        /\ \A v \in Workers \ {w} : ok'[v] = ok[v] /\ phase'[v] = phase[v]
    BY <2>1, AppendsBoolean, HandlerEndsLocals
  <2>6. \A v \in Workers : v # w /\ ok[v] => doing[v] \in Payloads
    BY DEF IInv, Basics, BusyOK
  <2>7. \A v \in Workers : ok'[v] /\ doing'[v] \notin raced' => entry'[doing'[v]] # 0
    BY <2>1, <2>2, <2>3, <2>4, <2>5, <2>6 DEF AppendedOK
  <2> QED
    BY <2>1, <2>3, <2>7 DEF AppendedOK, DoneIsAppended
<1>8. ASSUME NEW w \in Workers, ReadSequence(w) PROVE AppendedOK'
  <2>1. raced \subseteq raced' /\ UNCHANGED <<rows, jobs, doing, ok>>
    BY <1>8 DEF ReadSequence
  <2> QED
    BY <2>1 DEF AppendedOK, DoneIsAppended, rows, jobs
<1>9. ASSUME NEW w \in Workers, InsertEntry(w) PROVE AppendedOK'
  <2> DEFINE e == doing[w]  n == number[w]
  <2>1. /\ e \in Payloads /\ n \in Nat \ {0} /\ RowsType /\ LocalsType
        /\ AppendEntry(e, n) /\ HandlerEnds(w, Appends(e, n)) /\ UNCHANGED <<job, raced>>
    BY <1>9, NextIsAbove DEF InsertEntry, IInv, Basics, BusyOK, TypeOK, RowsType, LocalsType, jobs
  <2> HIDE DEF e, n
  <2>2. e = doing[w] /\ n = number[w]
    BY DEF e, n
  <2>3. \A f \in Payloads : entry[f] # 0 => entry'[f] # 0
    BY <2>1, AppendEntryRows DEF rows
  <2>4. ok'[w] /\ e \notin raced => entry'[e] # 0
    <3>1. SUFFICES ASSUME Appends(e, n), e \notin raced PROVE entry'[e] # 0
      BY <2>1, AppendsBoolean, HandlerEndsLocals
    <3>2. ~Conflicts(e, n)
      <4>1. store = "postgres" /\ phase[w] = "insert"
        BY <1>9 DEF InsertEntry, IInv, Basics, BusyOK
      <4>2. Thread[e] # None => \A m \in taken[Thread[e]] : m < n
        BY <2>2, <3>1, <4>1 DEF IInv, AloneOK, Alone
      <4>3. Thread[e] # None => n \notin taken[Thread[e]]
        BY <2>1, <4>2
      <4> QED
        BY <4>1, <4>3 DEF Conflicts
    <3>3. Inserts(e, n)
      BY <3>1, <3>2 DEF Appends
    <3> QED
      BY <2>1, <3>3, AppendEntryRows
  <2>5. /\ doing' = doing
        /\ \A v \in Workers \ {w} : ok'[v] = ok[v] /\ phase'[v] = phase[v]
    BY <2>1, AppendsBoolean, HandlerEndsLocals
  <2>6. \A v \in Workers : v # w /\ ok[v] => doing[v] \in Payloads
    BY DEF IInv, Basics, BusyOK
  <2>7. \A v \in Workers : ok'[v] /\ doing'[v] \notin raced' => entry'[doing'[v]] # 0
    BY <2>1, <2>2, <2>3, <2>4, <2>5, <2>6 DEF AppendedOK
  <2> QED
    BY <2>1, <2>3, <2>7 DEF AppendedOK, DoneIsAppended
<1>10. ASSUME NEW w \in Workers, HandlerRaises(w) PROVE AppendedOK'
  <2>1. LocalsType /\ HandlerEnds(w, FALSE)
    BY <1>10 DEF HandlerRaises, IInv, Basics, TypeOK, LocalsType
  <2> QED
    BY <1>10, <2>1, HandlerEndsLocals DEF HandlerRaises, AppendedOK, DoneIsAppended, rows, jobs
<1>11. ASSUME NEW w \in Workers, RecordOutcome(w) PROVE AppendedOK'
  <2>1. LocalsType /\ Leave(w) /\ doing[w] \in Payloads /\ UNCHANGED <<entry, raced>>
    BY <1>11 DEF RecordOutcome, IInv, Basics, BusyOK, TypeOK, LocalsType, rows
  <2>2. \A e \in Payloads : job'[e] = "done" => job[e] = "done" \/ (ok[w] /\ e = doing[w])
    BY <1>11, OutcomeJobs DEF IInv
  <2> QED
    BY <2>1, <2>2, LeaveLocals DEF AppendedOK, DoneIsAppended
<1>12. ASSUME NEW w \in Workers, Crash(w) PROVE AppendedOK'
  <2>1. LocalsType /\ Leave(w)
    BY <1>12 DEF Crash, IInv, Basics, TypeOK, LocalsType
  <2> QED
    BY <1>12, <2>1, LeaveLocals DEF Crash, AppendedOK, DoneIsAppended, rows, jobs
<1>13. ASSUME NEW A \in Questions, CheckNow(A) PROVE AppendedOK'
  BY <1>13 DEF CheckNow, AppendedOK, DoneIsAppended, rows, jobs, locals
<1>14. ASSUME NEW A \in Questions, ReadEvents(A) PROVE AppendedOK'
  BY <1>14 DEF ReadEvents, AppendedOK, DoneIsAppended, rows, jobs, locals
<1>15. ASSUME ReadJobs PROVE AppendedOK'
  BY <1>15 DEF ReadJobs, AppendedOK, DoneIsAppended, rows, jobs, locals
<1>16. ASSUME ReadEntries PROVE AppendedOK'
  BY <1>16 DEF ReadEntries, AppendedOK, DoneIsAppended, rows, jobs, locals
<1>17. ASSUME UNCHANGED vars PROVE AppendedOK'
  BY <1>17 DEF vars, rows, jobs, locals, AppendedOK, DoneIsAppended
<1> QED
  BY NextIsStep, <1>1, <1>2, <1>3, <1>4, <1>5, <1>6, <1>7, <1>8, <1>9, <1>10, <1>11, <1>12, <1>13, <1>14, <1>15, <1>16, <1>17 DEF Step

-----------------------------------------------------------------------------
(* What is done stays done, what is appended stays appended.                 *)

Lasting ==
  /\ \A e \in Payloads : entry[e] # 0 => entry'[e] # 0
  /\ \A e \in Payloads : job[e] = "done" => job'[e] = "done"

LEMMA LastingStep ==
  ASSUME Basics, [Next]_vars
  PROVE  Lasting
<1>1. ASSUME NEW e \in Payloads, Deliver(e) PROVE Lasting
  BY <1>1 DEF Deliver, Matches, Basics, BusyOK, TypeOK, Lasting, rows
<1>2. ASSUME NEW e \in Payloads, PurgeSource(e) PROVE Lasting
  BY <1>2 DEF PurgeSource, Lasting, rows, jobs
<1>3. ASSUME NEW e \in Payloads, ExpireOrphan(e) PROVE Lasting
  BY <1>3 DEF ExpireOrphan, Lasting, rows, jobs
<1>4. ASSUME NEW e \in Payloads, Overrun(e) PROVE Lasting
  BY <1>4 DEF Overrun, Lasting, rows, jobs
<1>5. ASSUME NEW e \in Payloads, RetryDeadLetter(e) PROVE Lasting
  BY <1>5 DEF RetryDeadLetter, Basics, TypeOK, Lasting, rows
<1>6. ASSUME NEW w \in Workers, NEW e \in Payloads, Claim(w, e) PROVE Lasting
  BY <1>6 DEF Claim, Lasting, rows, jobs
<1>7. ASSUME NEW w \in Workers, Append(w) PROVE Lasting
  <2>1. /\ doing[w] \in Payloads /\ NextSequence(Thread[doing[w]]) \in Nat \ {0} /\ RowsType
        /\ AppendEntry(doing[w], NextSequence(Thread[doing[w]])) /\ UNCHANGED jobs
    BY <1>7, NextIsAbove DEF Append, Basics, BusyOK, TypeOK, RowsType
  <2> QED
    BY <2>1, AppendEntryRows DEF Lasting, rows, jobs
<1>8. ASSUME NEW w \in Workers, ReadSequence(w) PROVE Lasting
  BY <1>8 DEF ReadSequence, Lasting, rows, jobs
<1>9. ASSUME NEW w \in Workers, InsertEntry(w) PROVE Lasting
  <2>1. /\ doing[w] \in Payloads /\ number[w] \in Nat \ {0} /\ RowsType
        /\ AppendEntry(doing[w], number[w]) /\ UNCHANGED jobs
    BY <1>9, NextIsAbove DEF InsertEntry, Basics, BusyOK, TypeOK, RowsType
  <2> QED
    BY <2>1, AppendEntryRows DEF Lasting, rows, jobs
<1>10. ASSUME NEW w \in Workers, HandlerRaises(w) PROVE Lasting
  BY <1>10 DEF HandlerRaises, Lasting, rows, jobs
<1>11. ASSUME NEW w \in Workers, RecordOutcome(w) PROVE Lasting
  BY <1>11, OutcomeJobs DEF RecordOutcome, Lasting, rows
<1>12. ASSUME NEW w \in Workers, Crash(w) PROVE Lasting
  BY <1>12 DEF Crash, Lasting, rows, jobs
<1>13. ASSUME NEW A \in Questions, CheckNow(A) PROVE Lasting
  BY <1>13 DEF CheckNow, Lasting, rows, jobs
<1>14. ASSUME NEW A \in Questions, ReadEvents(A) PROVE Lasting
  BY <1>14 DEF ReadEvents, Lasting, rows, jobs
<1>15. ASSUME ReadJobs PROVE Lasting
  BY <1>15 DEF ReadJobs, Lasting, rows, jobs
<1>16. ASSUME ReadEntries PROVE Lasting
  BY <1>16 DEF ReadEntries, Lasting, rows, jobs
<1>17. ASSUME UNCHANGED vars PROVE Lasting
  BY <1>17 DEF vars, rows, jobs, Lasting
<1> QED
  BY NextIsStep, <1>1, <1>2, <1>3, <1>4, <1>5, <1>6, <1>7, <1>8, <1>9, <1>10, <1>11, <1>12, <1>13, <1>14, <1>15, <1>16, <1>17 DEF Step

LEMMA CheckStep ==
  ASSUME Basics, CheckOK, [Next]_vars
  PROVE  CheckOK'
<1>0. Lasting
  BY LastingStep
<1>1. ASSUME NEW e \in Payloads, Deliver(e) PROVE CheckOK'
  BY <1>0, <1>1 DEF Deliver, Basics, TypeOK, CheckOK, ReadyIsComplete, Lasting, check
<1>2. ASSUME NEW e \in Payloads, PurgeSource(e) PROVE CheckOK'
  BY <1>0, <1>2 DEF PurgeSource, Basics, TypeOK, CheckOK, ReadyIsComplete, Lasting, check
<1>3. ASSUME NEW e \in Payloads, ExpireOrphan(e) PROVE CheckOK'
  BY <1>0, <1>3 DEF ExpireOrphan, Basics, TypeOK, CheckOK, ReadyIsComplete, Lasting, check
<1>4. ASSUME NEW e \in Payloads, Overrun(e) PROVE CheckOK'
  BY <1>0, <1>4 DEF Overrun, Basics, TypeOK, CheckOK, ReadyIsComplete, Lasting, check
<1>5. ASSUME NEW e \in Payloads, RetryDeadLetter(e) PROVE CheckOK'
  BY <1>0, <1>5 DEF RetryDeadLetter, Basics, TypeOK, CheckOK, ReadyIsComplete, Lasting, check
<1>6. ASSUME NEW w \in Workers, NEW e \in Payloads, Claim(w, e) PROVE CheckOK'
  BY <1>0, <1>6 DEF Claim, Basics, TypeOK, CheckOK, ReadyIsComplete, Lasting, check
<1>7. ASSUME NEW w \in Workers, Append(w) PROVE CheckOK'
  BY <1>0, <1>7 DEF Append, Basics, TypeOK, CheckOK, ReadyIsComplete, Lasting, check
<1>8. ASSUME NEW w \in Workers, ReadSequence(w) PROVE CheckOK'
  BY <1>0, <1>8 DEF ReadSequence, Basics, TypeOK, CheckOK, ReadyIsComplete, Lasting, check
<1>9. ASSUME NEW w \in Workers, InsertEntry(w) PROVE CheckOK'
  BY <1>0, <1>9 DEF InsertEntry, Basics, TypeOK, CheckOK, ReadyIsComplete, Lasting, check
<1>10. ASSUME NEW w \in Workers, HandlerRaises(w) PROVE CheckOK'
  BY <1>0, <1>10 DEF HandlerRaises, Basics, TypeOK, CheckOK, ReadyIsComplete, Lasting, check
<1>11. ASSUME NEW w \in Workers, RecordOutcome(w) PROVE CheckOK'
  BY <1>0, <1>11 DEF RecordOutcome, Basics, TypeOK, CheckOK, ReadyIsComplete, Lasting, check
<1>12. ASSUME NEW w \in Workers, Crash(w) PROVE CheckOK'
  BY <1>0, <1>12 DEF Crash, Basics, TypeOK, CheckOK, ReadyIsComplete, Lasting, check
<1>13. ASSUME NEW A \in Questions, CheckNow(A) PROVE CheckOK'
  <2>1. /\ store = "lite" /\ checking' = checking /\ asked' = A /\ UNCHANGED <<rows, jobs>>
        /\ ready' = LayerReady(A, Available(A), JobsReady(Available(A)), Count(Available(A)))
    BY <1>0, <1>13 DEF CheckNow
  <2>2. A \in SUBSET Payloads /\ JobsReady(Available(A)) \in BOOLEAN
    BY IntakeConstants DEF JobsReady
  <2>3. ASSUME ready' PROVE JobsReady(A) /\ \A e \in A : entry[e] # 0
    <3> DEFINE avail == Available(A)  succeeded == JobsReady(avail)
    <3>1. succeeded \in BOOLEAN /\ LayerReady(A, avail, succeeded, Count(avail))
      BY <2>1, <2>2, <2>3
    <3> HIDE DEF avail, succeeded
    <3>2. avail = A /\ succeeded /\ \A e \in A : entry[e] # 0
      BY <2>2, <3>1, ReadyLayer
    <3> QED
      BY <3>2 DEF succeeded
  <2> QED
    BY <2>1, <2>3 DEF Basics, BusyOK, CheckOK, ReadyIsComplete, JobsReady, rows, jobs
<1>14. ASSUME NEW A \in Questions, ReadEvents(A) PROVE CheckOK'
  BY <1>0, <1>14 DEF ReadEvents, CheckOK, ReadyIsComplete
<1>15. ASSUME ReadJobs PROVE CheckOK'
  BY <1>0, <1>15 DEF ReadJobs, CheckOK, ReadyIsComplete, JobsReady, rows, jobs
<1>16. ASSUME ReadEntries PROVE CheckOK'
  <2>1. /\ checking = "entries" /\ checking' = "idle" /\ UNCHANGED <<rows, jobs, asked>>
        /\ ready' = LayerReady(asked, found, settled, Count(found))
    BY <1>0, <1>16 DEF ReadEntries
  <2>2. ASSUME ready' PROVE found = asked /\ settled /\ \A e \in asked : entry[e] # 0
    <3>1. LayerReady(asked, found, settled, Count(found)) /\ asked \in SUBSET Payloads /\ settled \in BOOLEAN
      BY <2>1, <2>2 DEF Basics, TypeOK
    <3> QED
      BY <3>1, ReadyLayer
  <2> QED
    BY <2>1, <2>2 DEF CheckOK, ReadyIsComplete, rows, jobs
<1>17. ASSUME UNCHANGED vars PROVE CheckOK'
  BY <1>17 DEF vars, rows, jobs, check, CheckOK, ReadyIsComplete
<1> QED
  BY NextIsStep, <1>1, <1>2, <1>3, <1>4, <1>5, <1>6, <1>7, <1>8, <1>9, <1>10, <1>11, <1>12, <1>13, <1>14, <1>15, <1>16, <1>17 DEF Step

LEMMA StoredStep ==
  ASSUME Basics, StoredOnce, [Next]_vars
  PROVE  StoredOnce'
<1>1. ASSUME NEW e \in Payloads, Deliver(e) PROVE StoredOnce'
  <2>1. CASE \E f \in stored : Matches(e, f)
    BY <1>1, <2>1 DEF Deliver, StoredOnce
  <2>2. CASE ~\E f \in stored : Matches(e, f)
    <3>1. /\ stored' = stored \cup {e} /\ stored \subseteq Payloads
          /\ job \in [Payloads -> {"none", "open", "done", "dead"}]
          /\ job' = [job EXCEPT ![e] = "open"]
      BY <1>1, <2>2 DEF Deliver, Basics, TypeOK
    <3>2. \A f \in stored : Key[e] = None \/ Key[e] # Key[f]
      BY <2>2 DEF Matches
    <3> QED
      BY <3>1, <3>2 DEF StoredOnce
  <2> QED
    BY <2>1, <2>2
<1>2. ASSUME NEW e \in Payloads, PurgeSource(e) PROVE StoredOnce'
  BY <1>2 DEF PurgeSource, Basics, TypeOK, StoredOnce, jobs
<1>3. ASSUME NEW e \in Payloads, ExpireOrphan(e) PROVE StoredOnce'
  BY <1>3 DEF ExpireOrphan, Basics, TypeOK, StoredOnce, jobs
<1>4. ASSUME NEW e \in Payloads, Overrun(e) PROVE StoredOnce'
  BY <1>4 DEF Overrun, Basics, TypeOK, StoredOnce, jobs
<1>5. ASSUME NEW e \in Payloads, RetryDeadLetter(e) PROVE StoredOnce'
  BY <1>5 DEF RetryDeadLetter, Basics, TypeOK, StoredOnce, jobs
<1>6. ASSUME NEW w \in Workers, NEW e \in Payloads, Claim(w, e) PROVE StoredOnce'
  BY <1>6 DEF Claim, Basics, TypeOK, StoredOnce, jobs
<1>7. ASSUME NEW w \in Workers, Append(w) PROVE StoredOnce'
  BY <1>7 DEF Append, Basics, TypeOK, StoredOnce, jobs
<1>8. ASSUME NEW w \in Workers, ReadSequence(w) PROVE StoredOnce'
  BY <1>8 DEF ReadSequence, Basics, TypeOK, StoredOnce, jobs
<1>9. ASSUME NEW w \in Workers, InsertEntry(w) PROVE StoredOnce'
  BY <1>9 DEF InsertEntry, Basics, TypeOK, StoredOnce, jobs
<1>10. ASSUME NEW w \in Workers, HandlerRaises(w) PROVE StoredOnce'
  BY <1>10 DEF HandlerRaises, Basics, TypeOK, StoredOnce, jobs
<1>11. ASSUME NEW w \in Workers, RecordOutcome(w) PROVE StoredOnce'
  BY <1>11, OutcomeJobs DEF RecordOutcome, Basics, TypeOK, StoredOnce
<1>12. ASSUME NEW w \in Workers, Crash(w) PROVE StoredOnce'
  BY <1>12 DEF Crash, Basics, TypeOK, StoredOnce, jobs
<1>13. ASSUME NEW A \in Questions, CheckNow(A) PROVE StoredOnce'
  BY <1>13 DEF CheckNow, Basics, TypeOK, StoredOnce, jobs
<1>14. ASSUME NEW A \in Questions, ReadEvents(A) PROVE StoredOnce'
  BY <1>14 DEF ReadEvents, Basics, TypeOK, StoredOnce, jobs
<1>15. ASSUME ReadJobs PROVE StoredOnce'
  BY <1>15 DEF ReadJobs, Basics, TypeOK, StoredOnce, jobs
<1>16. ASSUME ReadEntries PROVE StoredOnce'
  BY <1>16 DEF ReadEntries, Basics, TypeOK, StoredOnce, jobs
<1>17. ASSUME UNCHANGED vars PROVE StoredOnce'
  BY <1>17 DEF vars, jobs, StoredOnce
<1> QED
  BY NextIsStep, <1>1, <1>2, <1>3, <1>4, <1>5, <1>6, <1>7, <1>8, <1>9, <1>10, <1>11, <1>12, <1>13, <1>14, <1>15, <1>16, <1>17 DEF Step

LEMMA NumbersStep ==
  ASSUME IInv, NumbersAreDistinct, [Next]_vars
  PROVE  NumbersAreDistinct'
<1>1. ASSUME NEW e \in Payloads, Deliver(e) PROVE NumbersAreDistinct'
  BY <1>1 DEF Deliver, NumbersAreDistinct, rows
<1>2. ASSUME NEW e \in Payloads, PurgeSource(e) PROVE NumbersAreDistinct'
  BY <1>2 DEF PurgeSource, NumbersAreDistinct, rows
<1>3. ASSUME NEW e \in Payloads, ExpireOrphan(e) PROVE NumbersAreDistinct'
  BY <1>3 DEF ExpireOrphan, NumbersAreDistinct, rows
<1>4. ASSUME NEW e \in Payloads, Overrun(e) PROVE NumbersAreDistinct'
  BY <1>4 DEF Overrun, NumbersAreDistinct, rows
<1>5. ASSUME NEW e \in Payloads, RetryDeadLetter(e) PROVE NumbersAreDistinct'
  BY <1>5 DEF RetryDeadLetter, NumbersAreDistinct, rows
<1>6. ASSUME NEW w \in Workers, NEW e \in Payloads, Claim(w, e) PROVE NumbersAreDistinct'
  BY <1>6 DEF Claim, NumbersAreDistinct, rows
<1>7. ASSUME NEW w \in Workers, Append(w) PROVE NumbersAreDistinct'
  <2> DEFINE e == doing[w]  n == NextSequence(Thread[doing[w]])
  <2>1. /\ e \in Payloads /\ n \in Nat \ {0} /\ RowsType /\ AppendEntry(e, n)
    BY <1>7, NextIsAbove DEF Append, IInv, Basics, BusyOK, TypeOK, RowsType
  <2> HIDE DEF e, n
  <2>2. CASE Inserts(e, n)
    <3>1. \A f \in Payloads : entry'[f] = IF f = e THEN n ELSE entry[f]
      BY <2>1, <2>2, AppendEntryRows
    <3>2. Thread[e] = None \/ \A f \in Payloads : Thread[f] = Thread[e] /\ entry[f] # 0 => entry[f] # n
      BY <2>2 DEF Inserts, Conflicts, IInv, IndexOK
    <3> QED
      BY <2>1, <3>1, <3>2 DEF NumbersAreDistinct
  <2>3. CASE ~Inserts(e, n)
    BY <2>1, <2>3, AppendEntryRows DEF NumbersAreDistinct, rows
  <2> QED
    BY <2>2, <2>3
<1>8. ASSUME NEW w \in Workers, ReadSequence(w) PROVE NumbersAreDistinct'
  BY <1>8 DEF ReadSequence, NumbersAreDistinct, rows
<1>9. ASSUME NEW w \in Workers, InsertEntry(w) PROVE NumbersAreDistinct'
  <2> DEFINE e == doing[w]  n == number[w]
  <2>1. /\ e \in Payloads /\ n \in Nat \ {0} /\ RowsType /\ AppendEntry(e, n)
    BY <1>9, NextIsAbove DEF InsertEntry, IInv, Basics, BusyOK, TypeOK, RowsType
  <2> HIDE DEF e, n
  <2>2. CASE Inserts(e, n)
    <3>1. \A f \in Payloads : entry'[f] = IF f = e THEN n ELSE entry[f]
      BY <2>1, <2>2, AppendEntryRows
    <3>2. Thread[e] = None \/ \A f \in Payloads : Thread[f] = Thread[e] /\ entry[f] # 0 => entry[f] # n
      BY <2>2 DEF Inserts, Conflicts, IInv, IndexOK
    <3> QED
      BY <2>1, <3>1, <3>2 DEF NumbersAreDistinct
  <2>3. CASE ~Inserts(e, n)
    BY <2>1, <2>3, AppendEntryRows DEF NumbersAreDistinct, rows
  <2> QED
    BY <2>2, <2>3
<1>10. ASSUME NEW w \in Workers, HandlerRaises(w) PROVE NumbersAreDistinct'
  BY <1>10 DEF HandlerRaises, NumbersAreDistinct, rows
<1>11. ASSUME NEW w \in Workers, RecordOutcome(w) PROVE NumbersAreDistinct'
  BY <1>11 DEF RecordOutcome, NumbersAreDistinct, rows
<1>12. ASSUME NEW w \in Workers, Crash(w) PROVE NumbersAreDistinct'
  BY <1>12 DEF Crash, NumbersAreDistinct, rows
<1>13. ASSUME NEW A \in Questions, CheckNow(A) PROVE NumbersAreDistinct'
  BY <1>13 DEF CheckNow, NumbersAreDistinct, rows
<1>14. ASSUME NEW A \in Questions, ReadEvents(A) PROVE NumbersAreDistinct'
  BY <1>14 DEF ReadEvents, NumbersAreDistinct, rows
<1>15. ASSUME ReadJobs PROVE NumbersAreDistinct'
  BY <1>15 DEF ReadJobs, NumbersAreDistinct, rows
<1>16. ASSUME ReadEntries PROVE NumbersAreDistinct'
  BY <1>16 DEF ReadEntries, NumbersAreDistinct, rows
<1>17. ASSUME UNCHANGED vars PROVE NumbersAreDistinct'
  BY <1>17 DEF vars, rows, NumbersAreDistinct
<1> QED
  BY NextIsStep, <1>1, <1>2, <1>3, <1>4, <1>5, <1>6, <1>7, <1>8, <1>9, <1>10, <1>11, <1>12, <1>13, <1>14, <1>15, <1>16, <1>17 DEF Step

-----------------------------------------------------------------------------
(* What a step does to the entries, to the lanes that hold a number, and to  *)
(* the jobs: the three are proved once and used by what follows.             *)

\* Lane w inserts the entry of its event with number n.
Inserted(w, n) ==
  LET e == doing[w]
  IN  /\ phase[w] # "idle" /\ e \in Payloads /\ n # 0 /\ Inserts(e, n)
      /\ n = NextSequence(Thread[e]) \/ (phase[w] = "insert" /\ n = number[w])
      /\ \A f \in Payloads : entry'[f] = IF f = e THEN n ELSE entry[f]
      /\ \A t \in Threads \cup {None} :
           taken'[t] = IF t = Thread[e] THEN taken[t] \cup {n} ELSE taken[t]

RowsEffect == UNCHANGED rows \/ \E w \in Workers, n \in Nat : Inserted(w, n)

LEMMA RowsEffectStep ==
  ASSUME Basics, [Next]_vars
  PROVE  RowsEffect

<1>1. ASSUME NEW e \in Payloads, Deliver(e) PROVE RowsEffect
  BY <1>1 DEF Deliver, RowsEffect
<1>2. ASSUME NEW e \in Payloads, PurgeSource(e) PROVE RowsEffect
  BY <1>2 DEF PurgeSource, RowsEffect
<1>3. ASSUME NEW e \in Payloads, ExpireOrphan(e) PROVE RowsEffect
  BY <1>3 DEF ExpireOrphan, RowsEffect
<1>4. ASSUME NEW e \in Payloads, Overrun(e) PROVE RowsEffect
  BY <1>4 DEF Overrun, RowsEffect
<1>5. ASSUME NEW e \in Payloads, RetryDeadLetter(e) PROVE RowsEffect
  BY <1>5 DEF RetryDeadLetter, RowsEffect
<1>6. ASSUME NEW w \in Workers, NEW e \in Payloads, Claim(w, e) PROVE RowsEffect
  BY <1>6 DEF Claim, RowsEffect
<1>7. ASSUME NEW w \in Workers, Append(w) PROVE RowsEffect
  <2> DEFINE e == doing[w]  n == NextSequence(Thread[doing[w]])
  <2>1. /\ e \in Payloads /\ n \in Nat \ {0} /\ RowsType /\ AppendEntry(e, n)
        /\ phase[w] # "idle" /\ (n = NextSequence(Thread[e]) \/ (phase[w] = "insert" /\ n = number[w]))
    BY <1>7, NextIsAbove, Zenon DEF Append, Basics, BusyOK, TypeOK, RowsType
  <2>2. e = doing[w]
    OBVIOUS
  <2> HIDE DEF e, n
  <2>3. CASE Inserts(e, n)
    <3>1. \A f \in Payloads : entry'[f] = IF f = e THEN n ELSE entry[f]
      BY <2>1, <2>3, AppendEntryRows
    <3>2. \A t \in Threads \cup {None} :
            taken'[t] = IF t = Thread[e] THEN taken[t] \cup {n} ELSE taken[t]
      BY <2>1, <2>3, AppendEntryRows
    <3>3. Inserted(w, n)
      BY <2>1, <2>2, <2>3, <3>1, <3>2, Zenon DEF Inserted
    <3> QED
      BY <2>1, <3>3 DEF RowsEffect
  <2>4. CASE ~Inserts(e, n)
    BY <2>1, <2>4, AppendEntryRows DEF RowsEffect
  <2> QED
    BY <2>3, <2>4
<1>8. ASSUME NEW w \in Workers, ReadSequence(w) PROVE RowsEffect
  BY <1>8 DEF ReadSequence, RowsEffect
<1>9. ASSUME NEW w \in Workers, InsertEntry(w) PROVE RowsEffect
  <2> DEFINE e == doing[w]  n == number[w]
  <2>1. /\ e \in Payloads /\ n \in Nat \ {0} /\ RowsType /\ AppendEntry(e, n)
        /\ phase[w] # "idle" /\ (n = NextSequence(Thread[e]) \/ (phase[w] = "insert" /\ n = number[w]))
    BY <1>9, NextIsAbove, Zenon DEF InsertEntry, Basics, BusyOK, TypeOK, RowsType
  <2>2. e = doing[w]
    OBVIOUS
  <2> HIDE DEF e, n
  <2>3. CASE Inserts(e, n)
    <3>1. \A f \in Payloads : entry'[f] = IF f = e THEN n ELSE entry[f]
      BY <2>1, <2>3, AppendEntryRows
    <3>2. \A t \in Threads \cup {None} :
            taken'[t] = IF t = Thread[e] THEN taken[t] \cup {n} ELSE taken[t]
      BY <2>1, <2>3, AppendEntryRows
    <3>3. Inserted(w, n)
      BY <2>1, <2>2, <2>3, <3>1, <3>2, Zenon DEF Inserted
    <3> QED
      BY <2>1, <3>3 DEF RowsEffect
  <2>4. CASE ~Inserts(e, n)
    BY <2>1, <2>4, AppendEntryRows DEF RowsEffect
  <2> QED
    BY <2>3, <2>4
<1>10. ASSUME NEW w \in Workers, HandlerRaises(w) PROVE RowsEffect
  BY <1>10 DEF HandlerRaises, RowsEffect
<1>11. ASSUME NEW w \in Workers, RecordOutcome(w) PROVE RowsEffect
  BY <1>11 DEF RecordOutcome, RowsEffect
<1>12. ASSUME NEW w \in Workers, Crash(w) PROVE RowsEffect
  BY <1>12 DEF Crash, RowsEffect
<1>13. ASSUME NEW A \in Questions, CheckNow(A) PROVE RowsEffect
  BY <1>13 DEF CheckNow, RowsEffect
<1>14. ASSUME NEW A \in Questions, ReadEvents(A) PROVE RowsEffect
  BY <1>14 DEF ReadEvents, RowsEffect
<1>15. ASSUME ReadJobs PROVE RowsEffect
  BY <1>15 DEF ReadJobs, RowsEffect
<1>16. ASSUME ReadEntries PROVE RowsEffect
  BY <1>16 DEF ReadEntries, RowsEffect
<1>17. ASSUME UNCHANGED vars PROVE RowsEffect
  BY <1>17 DEF vars, RowsEffect
<1> QED
  BY NextIsStep, <1>1, <1>2, <1>3, <1>4, <1>5, <1>6, <1>7, <1>8, <1>9, <1>10, <1>11, <1>12, <1>13, <1>14, <1>15, <1>16, <1>17 DEF Step


\* A lane that holds a number read it before, or reads the next one now.
NumberHeld ==
  \A w \in Workers : phase'[w] = "insert" =>
    /\ doing'[w] = doing[w] /\ doing[w] \in Payloads
    /\ \/ phase[w] = "insert" /\ number'[w] = number[w]
       \/ number'[w] = NextSequence(Thread[doing[w]]) /\ UNCHANGED rows

LEMMA NumberHeldStep ==
  ASSUME Basics, [Next]_vars
  PROVE  NumberHeld
<1>0. LocalsType
  BY TypeParts DEF Basics

<1>1. ASSUME NEW e \in Payloads, Deliver(e) PROVE NumberHeld
  BY <1>1 DEF Deliver, NumberHeld, Basics, BusyOK, locals
<1>2. ASSUME NEW e \in Payloads, PurgeSource(e) PROVE NumberHeld
  BY <1>2 DEF PurgeSource, NumberHeld, Basics, BusyOK, locals
<1>3. ASSUME NEW e \in Payloads, ExpireOrphan(e) PROVE NumberHeld
  BY <1>3 DEF ExpireOrphan, NumberHeld, Basics, BusyOK, locals
<1>4. ASSUME NEW e \in Payloads, Overrun(e) PROVE NumberHeld
  BY <1>4 DEF Overrun, NumberHeld, Basics, BusyOK, locals
<1>5. ASSUME NEW e \in Payloads, RetryDeadLetter(e) PROVE NumberHeld
  BY <1>5 DEF RetryDeadLetter, NumberHeld, Basics, BusyOK, locals
<1>6. ASSUME NEW w \in Workers, NEW e \in Payloads, Claim(w, e) PROVE NumberHeld
  BY <1>0, <1>6 DEF Claim, NumberHeld, Basics, BusyOK, LocalsType
<1>7. ASSUME NEW w \in Workers, Append(w) PROVE NumberHeld
  BY <1>0, <1>7, AppendsBoolean, HandlerEndsLocals DEF Append, NumberHeld, Basics, BusyOK
<1>8. ASSUME NEW w \in Workers, ReadSequence(w) PROVE NumberHeld
  BY <1>0, <1>8 DEF ReadSequence, NumberHeld, Basics, BusyOK, LocalsType
<1>9. ASSUME NEW w \in Workers, InsertEntry(w) PROVE NumberHeld
  BY <1>0, <1>9, AppendsBoolean, HandlerEndsLocals DEF InsertEntry, NumberHeld, Basics, BusyOK
<1>10. ASSUME NEW w \in Workers, HandlerRaises(w) PROVE NumberHeld
  BY <1>0, <1>10, AppendsBoolean, HandlerEndsLocals DEF HandlerRaises, NumberHeld, Basics, BusyOK
<1>11. ASSUME NEW w \in Workers, RecordOutcome(w) PROVE NumberHeld
  BY <1>0, <1>11, LeaveLocals DEF RecordOutcome, NumberHeld, Basics, BusyOK
<1>12. ASSUME NEW w \in Workers, Crash(w) PROVE NumberHeld
  BY <1>0, <1>12, LeaveLocals DEF Crash, NumberHeld, Basics, BusyOK
<1>13. ASSUME NEW A \in Questions, CheckNow(A) PROVE NumberHeld
  BY <1>13 DEF CheckNow, NumberHeld, Basics, BusyOK, locals
<1>14. ASSUME NEW A \in Questions, ReadEvents(A) PROVE NumberHeld
  BY <1>14 DEF ReadEvents, NumberHeld, Basics, BusyOK, locals
<1>15. ASSUME ReadJobs PROVE NumberHeld
  BY <1>15 DEF ReadJobs, NumberHeld, Basics, BusyOK, locals
<1>16. ASSUME ReadEntries PROVE NumberHeld
  BY <1>16 DEF ReadEntries, NumberHeld, Basics, BusyOK, locals
<1>17. ASSUME UNCHANGED vars PROVE NumberHeld
  BY <1>17 DEF vars, NumberHeld, Basics, BusyOK, locals
<1> QED
  BY NextIsStep, <1>1, <1>2, <1>3, <1>4, <1>5, <1>6, <1>7, <1>8, <1>9, <1>10, <1>11, <1>12, <1>13, <1>14, <1>15, <1>16, <1>17 DEF Step


-----------------------------------------------------------------------------
(* The numbers of a thread are in the order of its entries.                  *)

\* The index of a thread has no gaps, and reaches up to any number that a lane
\* has read: a number that is still free is above all that are in use.
NumberingOK ==
  /\ \A t \in Threads \cup {None} : \A m \in taken[t] : \A k \in 1..m : k \in taken[t]
  /\ \A w \in Workers : phase[w] = "insert" =>
       \A k \in 1..(number[w] - 1) : k \in taken[Thread[doing[w]]]

\* Below the next number everything is in use.
LEMMA NextIsNext ==
  ASSUME IInv, NumberingOK, NEW t \in Threads \cup {None}
  PROVE  \A k \in 1..(NextSequence(t) - 1) : k \in taken[t]
<1> DEFINE I == InThread(t)
           N == {entry[e] : e \in I}
           f == [e \in I |-> entry[e]]
           m == Max(N \cup {0})
<1>1. IsFiniteSet(I)
  BY IntakeConstants, FS_Subset DEF InThread
<1>2. f \in Surjection(I, N)
  BY DEF Surjection
<1>3. IsFiniteSet(N)
  BY <1>1, <1>2, FS_Surjection
<1>4. IsFiniteSet(N \cup {0})
  BY <1>3, FS_AddElement
<1>5. N \cup {0} \in SUBSET Nat /\ N \cup {0} # {}
  BY DEF InThread, IInv, Basics, TypeOK
<1>6. m \in N \cup {0}
  BY <1>4, <1>5, MaxIsBound
<1>7. NextSequence(t) = m + 1
  BY DEF NextSequence
<1>8. \A n \in N : n \in taken[t]
  BY DEF InThread, IInv, IndexOK
<1>9. m \in Nat
  BY <1>5, <1>6
<1> HIDE DEF I, N, m
<1>10. CASE m = 0
  BY <1>7, <1>10
<1>11. CASE m \in taken[t]
  BY <1>7, <1>9, <1>11 DEF NumberingOK
<1> QED
  BY <1>6, <1>8, <1>10, <1>11

\* A number that the index admits is above each entry of the thread.
LEMMA FreeIsAbove ==
  ASSUME IInv, NumberingOK, NEW e \in Payloads, NEW n \in Nat \ {0}, Inserts(e, n), Thread[e] # None
  PROVE  \A f \in Payloads : Thread[f] = Thread[e] => entry[f] < n
<1>1. n \notin taken[Thread[e]] /\ Thread[e] \in Threads \cup {None}
  BY IntakeConstants DEF Inserts, Conflicts
<1>2. SUFFICES ASSUME NEW f \in Payloads, Thread[f] = Thread[e], ~(entry[f] < n) PROVE FALSE
  OBVIOUS
<1>3. entry[f] \in Nat /\ n \in 1..entry[f]
  BY <1>2 DEF IInv, Basics, TypeOK
<1>4. entry[f] \in taken[Thread[e]]
  BY <1>2, <1>3 DEF IInv, IndexOK
<1> QED
  BY <1>1, <1>3, <1>4 DEF NumberingOK

LEMMA InOrderStep ==
  ASSUME IInv, NumberingOK, [Next]_vars
  PROVE  InOrder
<1>1. CASE UNCHANGED rows
  BY <1>1 DEF InOrder, rows
<1>2. ASSUME NEW w \in Workers, NEW n \in Nat, Inserted(w, n) PROVE InOrder
  <2> DEFINE e == doing[w]
  <2>1. /\ e \in Payloads /\ n # 0 /\ Inserts(e, n)
        /\ \A f \in Payloads : entry'[f] = IF f = e THEN n ELSE entry[f]
    BY <1>2 DEF Inserted
  <2> HIDE DEF e
  <2>2. Thread[e] # None => \A f \in Payloads : Thread[f] = Thread[e] => entry[f] < n
    BY <2>1, FreeIsAbove
  <2> QED
    BY <2>1, <2>2 DEF InOrder
<1> QED
  BY <1>1, <1>2, RowsEffectStep DEF IInv, RowsEffect

LEMMA NumberingStep ==
  ASSUME IInv, NumberingOK, [Next]_vars
  PROVE  NumberingOK'
<1>0. \A e \in Payloads : Thread[e] \in Threads \cup {None}
  BY IntakeConstants
<1>1. NumberHeld
  BY NumberHeldStep DEF IInv
<1>2. \A w \in Workers : phase'[w] = "insert" /\ UNCHANGED rows =>
        \A k \in 1..(number'[w] - 1) : k \in taken[Thread[doing[w]]]
  BY <1>0, <1>1, NextIsNext DEF NumberHeld, NumberingOK
<1>3. CASE UNCHANGED rows
  <2>1. \A w \in Workers : phase'[w] = "insert" =>
          \A k \in 1..(number'[w] - 1) : k \in taken'[Thread[doing'[w]]]
    BY <1>1, <1>2, <1>3 DEF NumberHeld, rows
  <2> QED
    BY <1>3, <2>1 DEF NumberingOK, rows
<1>4. ASSUME NEW u \in Workers, NEW n \in Nat, Inserted(u, n), ~UNCHANGED rows PROVE NumberingOK'
  <2> DEFINE e == doing[u]  t0 == Thread[doing[u]]
  <2>1. /\ e \in Payloads /\ t0 \in Threads \cup {None} /\ n # 0
        /\ n = NextSequence(t0) \/ (phase[u] = "insert" /\ n = number[u])
        /\ \A t \in Threads \cup {None} : taken'[t] = IF t = t0 THEN taken[t] \cup {n} ELSE taken[t]
    BY <1>0, <1>4 DEF Inserted
  <2>2. \A k \in 1..(n - 1) : k \in taken[t0]
    BY <2>1, NextIsNext DEF NumberingOK
  <2>3. \A t \in Threads \cup {None} : taken[t] \subseteq taken'[t] /\ taken[t] \subseteq Nat
    BY <2>1 DEF IInv, Basics, TypeOK
  <2>4. ASSUME NEW t \in Threads \cup {None}, NEW m \in taken'[t], NEW k \in 1..m PROVE k \in taken'[t]
    <3>1. CASE m \in taken[t]
      BY <2>3, <2>4, <3>1 DEF NumberingOK
    <3>2. CASE t = t0 /\ m = n
      <4>1. k = n \/ k \in 1..(n - 1)
        BY <3>2
      <4> QED
        BY <2>1, <2>2, <3>2, <4>1
    <3> QED
      BY <2>1, <2>4, <3>1, <3>2
  <2>5. \A w \in Workers : phase'[w] = "insert" =>
          /\ phase[w] = "insert" /\ number'[w] = number[w] /\ doing'[w] = doing[w]
          /\ Thread[doing[w]] \in Threads \cup {None}
    BY <1>0, <1>1, <1>4 DEF NumberHeld
  <2>6. \A w \in Workers : phase'[w] = "insert" =>
          \A k \in 1..(number'[w] - 1) : k \in taken'[Thread[doing'[w]]]
    BY <2>3, <2>5 DEF NumberingOK
  <2> QED
    BY <2>4, <2>6 DEF NumberingOK
<1> QED
  BY <1>3, <1>4, RowsEffectStep DEF IInv, RowsEffect

-----------------------------------------------------------------------------
(* The append jobs keep the promise of the outbox.                           *)

\* A lane works on the job of a stored event.
WorkOK == \A w \in Workers : phase[w] # "idle" => doing[w] \in stored

PromiseInv == IInv /\ AppendedOK /\ StoredOnce /\ WorkOK

\* What the promise counts as handled.
Covered == {e \in Payloads : entry[e] # 0 \/ e \in raced}

LEMMA WorkStep ==
  ASSUME Basics, WorkOK, [Next]_vars
  PROVE  WorkOK'
<1>0. LocalsType
  BY TypeParts DEF Basics

<1>1. ASSUME NEW e \in Payloads, Deliver(e) PROVE WorkOK'
  BY <1>1 DEF Deliver, WorkOK, locals
<1>2. ASSUME NEW e \in Payloads, PurgeSource(e) PROVE WorkOK'
  BY <1>2 DEF PurgeSource, WorkOK, locals
<1>3. ASSUME NEW e \in Payloads, ExpireOrphan(e) PROVE WorkOK'
  BY <1>3 DEF ExpireOrphan, WorkOK, locals
<1>4. ASSUME NEW e \in Payloads, Overrun(e) PROVE WorkOK'
  BY <1>4 DEF Overrun, WorkOK, locals
<1>5. ASSUME NEW e \in Payloads, RetryDeadLetter(e) PROVE WorkOK'
  BY <1>5 DEF RetryDeadLetter, WorkOK, locals
<1>6. ASSUME NEW w \in Workers, NEW e \in Payloads, Claim(w, e) PROVE WorkOK'
  BY <1>0, <1>6 DEF Claim, Claimable, WorkOK, Basics, BusyOK, LocalsType
<1>7. ASSUME NEW w \in Workers, Append(w) PROVE WorkOK'
  BY <1>0, <1>7, AppendsBoolean, HandlerEndsLocals DEF Append, WorkOK
<1>8. ASSUME NEW w \in Workers, ReadSequence(w) PROVE WorkOK'
  BY <1>0, <1>8 DEF ReadSequence, WorkOK, LocalsType
<1>9. ASSUME NEW w \in Workers, InsertEntry(w) PROVE WorkOK'
  BY <1>0, <1>9, AppendsBoolean, HandlerEndsLocals DEF InsertEntry, WorkOK
<1>10. ASSUME NEW w \in Workers, HandlerRaises(w) PROVE WorkOK'
  BY <1>0, <1>10, AppendsBoolean, HandlerEndsLocals DEF HandlerRaises, WorkOK
<1>11. ASSUME NEW w \in Workers, RecordOutcome(w) PROVE WorkOK'
  BY <1>0, <1>11, LeaveLocals DEF RecordOutcome, WorkOK
<1>12. ASSUME NEW w \in Workers, Crash(w) PROVE WorkOK'
  BY <1>0, <1>12, LeaveLocals DEF Crash, WorkOK
<1>13. ASSUME NEW A \in Questions, CheckNow(A) PROVE WorkOK'
  BY <1>13 DEF CheckNow, WorkOK, locals
<1>14. ASSUME NEW A \in Questions, ReadEvents(A) PROVE WorkOK'
  BY <1>14 DEF ReadEvents, WorkOK, locals
<1>15. ASSUME ReadJobs PROVE WorkOK'
  BY <1>15 DEF ReadJobs, WorkOK, locals
<1>16. ASSUME ReadEntries PROVE WorkOK'
  BY <1>16 DEF ReadEntries, WorkOK, locals
<1>17. ASSUME UNCHANGED vars PROVE WorkOK'
  BY <1>17 DEF vars, WorkOK, locals
<1> QED
  BY NextIsStep, <1>1, <1>2, <1>3, <1>4, <1>5, <1>6, <1>7, <1>8, <1>9, <1>10, <1>11, <1>12, <1>13, <1>14, <1>15, <1>16, <1>17 DEF Step


\* Only an event that a lane works on is covered by a step, and no step uncovers one.
LEMMA CoveredStep ==
  ASSUME Basics, WorkOK, [Next]_vars
  PROVE  Covered \subseteq Covered' /\ Covered' \ Covered \subseteq stored
<1> DEFINE Rows == /\ \A e \in Payloads : entry[e] # 0 => entry'[e] # 0
                   /\ \A e \in Payloads : entry'[e] # 0 => entry[e] # 0 \/ e \in stored
           Ghost == raced \subseteq raced' /\ raced' \subseteq raced \cup stored
<1>a. Rows
  <2>1. CASE UNCHANGED rows
    BY <2>1 DEF rows
  <2>2. ASSUME NEW w \in Workers, NEW n \in Nat, Inserted(w, n) PROVE Rows
    BY <2>2 DEF Inserted, WorkOK
  <2> QED
    BY <2>1, <2>2, RowsEffectStep DEF RowsEffect
<1>b. Ghost
  <2>1. CASE raced' = raced
    BY <2>1
  <2>2. CASE \E w \in Workers : ReadSequence(w)
    <3>1. PICK w \in Workers : ReadSequence(w)
      BY <2>2
    <3>2. \A v \in Beside(w) \cup {w} : doing[v] \in stored
      BY <3>1 DEF ReadSequence, Beside, WorkOK
    <3> QED
      BY <3>1, <3>2 DEF ReadSequence
  <2>3. raced' = raced \/ \E w \in Workers : ReadSequence(w)
    BY NextIsStep DEF Step, Deliver, PurgeSource, ExpireOrphan, Overrun, RetryDeadLetter, Claim, Append,
       InsertEntry, HandlerRaises, RecordOutcome, Crash, CheckNow, ReadEvents, ReadJobs, ReadEntries, vars
  <2> QED
    BY <2>1, <2>2, <2>3
<1> QED
  BY <1>a, <1>b DEF Covered

\* The job of e becomes s, and nothing else that the promise speaks of changes.
Becomes(e, s) == job' = [job EXCEPT ![e] = s] /\ UNCHANGED <<entry, raced>>

JobEffect ==
  \/ UNCHANGED job
  \/ \E e \in Payloads : job[e] \in {"none", "dead"} /\ Becomes(e, "open")
  \/ \E e \in Payloads : \E s \in {"open", "done", "dead"} :
       job[e] = "open" /\ (s = "done" => e \in Covered) /\ Becomes(e, s)

LEMMA JobEffectStep ==
  ASSUME PromiseInv, [Next]_vars
  PROVE  JobEffect

<1>1. ASSUME NEW e \in Payloads, Deliver(e) PROVE JobEffect
  <2>1. CASE \E f \in stored : Matches(e, f)
    BY <1>1, <2>1 DEF Deliver, JobEffect
  <2>2. CASE ~\E f \in stored : Matches(e, f)
    <3>1. job' = [job EXCEPT ![e] = "open"] /\ UNCHANGED <<entry, raced>>
      BY <1>1, <2>2 DEF Deliver, rows
    <3>2. job[e] = "none"
      BY <2>2 DEF Matches, PromiseInv, IInv, Basics, BusyOK
    <3> QED
      BY <3>1, <3>2 DEF JobEffect, Becomes
  <2> QED
    BY <2>1, <2>2
<1>2. ASSUME NEW e \in Payloads, PurgeSource(e) PROVE JobEffect
  BY <1>2 DEF PurgeSource, JobEffect, jobs
<1>3. ASSUME NEW e \in Payloads, ExpireOrphan(e) PROVE JobEffect
  BY <1>3 DEF ExpireOrphan, JobEffect, jobs
<1>4. ASSUME NEW e \in Payloads, Overrun(e) PROVE JobEffect
  BY <1>4 DEF Overrun, JobEffect, jobs
<1>5. ASSUME NEW e \in Payloads, RetryDeadLetter(e) PROVE JobEffect
  BY <1>5 DEF RetryDeadLetter, JobEffect, Becomes, rows
<1>6. ASSUME NEW w \in Workers, NEW e \in Payloads, Claim(w, e) PROVE JobEffect
  BY <1>6 DEF Claim, JobEffect, jobs
<1>7. ASSUME NEW w \in Workers, Append(w) PROVE JobEffect
  BY <1>7 DEF Append, JobEffect, jobs
<1>8. ASSUME NEW w \in Workers, ReadSequence(w) PROVE JobEffect
  BY <1>8 DEF ReadSequence, JobEffect, jobs
<1>9. ASSUME NEW w \in Workers, InsertEntry(w) PROVE JobEffect
  BY <1>9 DEF InsertEntry, JobEffect, jobs
<1>10. ASSUME NEW w \in Workers, HandlerRaises(w) PROVE JobEffect
  BY <1>10 DEF HandlerRaises, JobEffect, jobs
<1>11. ASSUME NEW w \in Workers, RecordOutcome(w) PROVE JobEffect
  <2> DEFINE e == doing[w]
             n == IF ok[w] THEN attempts[e] ELSE Failed(e)
             s == IF ok[w] THEN "done" ELSE IF n < MaxAttempts THEN "open" ELSE "dead"
  <2>1. CASE lockedBy[e] # w
    BY <1>11, <2>1 DEF RecordOutcome, JobEffect, jobs
  <2>2. CASE lockedBy[e] = w
    <3>1. e \in Payloads /\ job[e] = "open"
      BY <1>11, <2>2, IntakeConstants DEF RecordOutcome, PromiseInv, IInv, Basics, BusyOK, TypeOK
    <3>2. job' = [job EXCEPT ![e] = s] /\ UNCHANGED <<entry, raced>>
      BY <1>11, <2>2 DEF RecordOutcome, rows
    <3>3. s \in {"open", "done", "dead"} /\ (s = "done" => ok[w])
      OBVIOUS
    <3>4. ok[w] => e \in Covered
      BY <3>1 DEF PromiseInv, AppendedOK, Covered
    <3> HIDE DEF e, s
    <3> QED
      BY <3>1, <3>2, <3>3, <3>4 DEF JobEffect, Becomes
  <2> QED
    BY <2>1, <2>2
<1>12. ASSUME NEW w \in Workers, Crash(w) PROVE JobEffect
  BY <1>12 DEF Crash, JobEffect, jobs
<1>13. ASSUME NEW A \in Questions, CheckNow(A) PROVE JobEffect
  BY <1>13 DEF CheckNow, JobEffect, jobs
<1>14. ASSUME NEW A \in Questions, ReadEvents(A) PROVE JobEffect
  BY <1>14 DEF ReadEvents, JobEffect, jobs
<1>15. ASSUME ReadJobs PROVE JobEffect
  BY <1>15 DEF ReadJobs, JobEffect, jobs
<1>16. ASSUME ReadEntries PROVE JobEffect
  BY <1>16 DEF ReadEntries, JobEffect, jobs
<1>17. ASSUME UNCHANGED vars PROVE JobEffect
  BY <1>17 DEF vars, jobs, JobEffect
<1> QED
  BY NextIsStep, <1>1, <1>2, <1>3, <1>4, <1>5, <1>6, <1>7, <1>8, <1>9, <1>10, <1>11, <1>12, <1>13, <1>14, <1>15, <1>16, <1>17 DEF Step


LEMMA PromisedInit == Init => Promise!Init
BY DEF Init, Promise!Init, PromisedState

LEMMA PromisedStep ==
  ASSUME PromiseInv, [Next]_vars
  PROVE  [Promise!Next]_Promise!vars
<1> DEFINE state == [e \in Payloads |-> PromisedState(job[e])]
<1>0. job \in [Payloads -> {"none", "open", "done", "dead"}]
  BY DEF PromiseInv, IInv, Basics, TypeOK
<1>1. Covered \subseteq Covered' /\ Covered' \ Covered \subseteq stored
  BY CoveredStep DEF PromiseInv, IInv
<1>2. ASSUME UNCHANGED job PROVE Promise!Next
  <2>0. Covered' \ Covered \in SUBSET Payloads
    BY DEF Covered
  <2> PICK S \in SUBSET Payloads : S = Covered' \ Covered
    BY <2>0
  <2>1. \A e \in S : job[e] # "none"
    BY <1>1 DEF PromiseInv, StoredOnce
  <2>2. \A e \in S : state[e] # "absent"
    BY <1>0, <2>1 DEF PromisedState, Covered
  <2>3. Covered' = Covered \cup S
    BY <1>1
  <2> HIDE DEF state
  <2>4. Promise!Handle(S)
    BY <1>2, <2>2, <2>3 DEF Promise!Handle, Covered, state
  <2> QED
    BY <2>4 DEF Promise!Next
<1>3. ASSUME NEW e \in Payloads, NEW s \in {"open", "done", "dead"}, Becomes(e, s)
      PROVE  Covered' = Covered /\ state' = [state EXCEPT ![e] = PromisedState(s)]
  BY <1>0, <1>3 DEF Becomes, Covered
<1>4. ASSUME NEW e \in Payloads, job[e] \in {"none", "dead"}, Becomes(e, "open") PROVE Promise!Next
  <2>1. Covered' = Covered /\ state' = [state EXCEPT ![e] = "open"]
    BY <1>3, <1>4 DEF PromisedState
  <2>2. CASE job[e] = "none"
    <3>1. Promise!Submit(e)
      BY <1>4, <2>1, <2>2 DEF Promise!Submit, PromisedState, Covered
    <3> QED
      BY <3>1 DEF Promise!Next
  <2>3. CASE job[e] = "dead"
    <3>1. Promise!Reopen(e)
      BY <1>4, <2>1, <2>3 DEF Promise!Reopen, PromisedState, Covered
    <3> QED
      BY <3>1 DEF Promise!Next
  <2> QED
    BY <1>4, <2>2, <2>3
<1>5. ASSUME NEW e \in Payloads, NEW s \in {"open", "done", "dead"}, job[e] = "open",
             s = "done" => e \in Covered, Becomes(e, s)
      PROVE  Promise!Next \/ UNCHANGED Promise!vars
  <2>0. state[e] = "open"
    BY <1>5 DEF PromisedState
  <2>1. Covered' = Covered /\ state' = [state EXCEPT ![e] = PromisedState(s)]
    BY <1>3, <1>5
  <2>2. CASE s = "open"
    <3>1. state' = state
      BY <1>5, <2>2 DEF Becomes, PromisedState
    <3> QED
      BY <2>1, <3>1 DEF Promise!vars, Covered
  <2>3. CASE s = "done"
    <3>1. Promise!Finish(e)
      BY <1>5, <2>0, <2>1, <2>3 DEF Promise!Finish, PromisedState, Covered
    <3> QED
      BY <3>1 DEF Promise!Next
  <2>4. CASE s = "dead"
    <3>1. Promise!GiveUp(e)
      BY <1>5, <2>0, <2>1, <2>4 DEF Promise!GiveUp, PromisedState, Covered
    <3> QED
      BY <3>1 DEF Promise!Next
  <2> QED
    BY <2>2, <2>3, <2>4
<1>6. JobEffect
  BY JobEffectStep
<1> HIDE DEF state
<1> QED
  BY <1>2, <1>4, <1>5, <1>6, Zenon DEF JobEffect

-----------------------------------------------------------------------------
(* The theorems.                                                             *)

\* Every variable keeps its type, and only an open job is locked.
THEOREM TypeCorrect == Spec => []TypeOK
<1>1. Basics /\ [Next]_vars => Basics'
  BY BasicsStep
<1>2. Basics => TypeOK
  BY DEF Basics
<1> QED
  BY <1>1, <1>2, BasicsInit, PTL DEF Spec

\* Whatever is delivered, and however often: one event for each key, each with
\* its job.
THEOREM OneEventPerKey == Spec => []StoredOnce
<1>1. Init => StoredOnce
  BY DEF Init, StoredOnce
<1>2. Basics /\ StoredOnce /\ [Next]_vars => StoredOnce'
  BY StoredStep
<1>3. Basics /\ [Next]_vars => Basics'
  BY BasicsStep
<1> QED
  BY <1>1, <1>2, <1>3, BasicsInit, PTL DEF Spec

\* No two events of a thread have the same number, for any lanes, threads and
\* bounds.
THEOREM EntriesAreNumbered == Spec => []NumbersAreDistinct
<1>1. Init => NumbersAreDistinct
  BY DEF Init, NumbersAreDistinct
<1>2. IInv /\ NumbersAreDistinct /\ [Next]_vars => NumbersAreDistinct'
  BY NumbersStep
<1> QED
  BY <1>1, <1>2, InvInit, InvStep, PTL DEF Spec

\* A job that has succeeded leaves an entry, unless appends ran side by side.
THEOREM AppendIsDone == Spec => []DoneIsAppended
<1>1. Init => AppendedOK
  BY DEF Init, AppendedOK, DoneIsAppended
<1>2. AppendedOK => DoneIsAppended
  BY DEF AppendedOK
<1>3. IInv /\ AppendedOK /\ [Next]_vars => AppendedOK'
  BY AppendedStep
<1> QED
  BY <1>1, <1>2, <1>3, InvInit, InvStep, PTL DEF Spec

\* Ready means ready: whatever happens between the reads of a check and after it.
THEOREM ReadyIsTrue == Spec => []ReadyIsComplete
<1>1. Init => CheckOK
  BY DEF Init, CheckOK, ReadyIsComplete
<1>2. CheckOK => ReadyIsComplete
  BY DEF CheckOK
<1>3. Basics /\ CheckOK /\ [Next]_vars => CheckOK'
  BY CheckStep
<1>4. Basics /\ [Next]_vars => Basics'
  BY BasicsStep
<1> QED
  BY <1>1, <1>2, <1>3, <1>4, BasicsInit, PTL DEF Spec

\* The numbers of a thread tell the order of its entries: also for a number that
\* was read before others inserted theirs.
THEOREM NumbersTellOrder == Spec => EntriesAreInOrder
<1>1. Init => NumberingOK
  BY DEF Init, NumberingOK
<1>2. IInv /\ NumberingOK /\ [Next]_vars => NumberingOK' /\ [InOrder]_vars
  BY NumberingStep, InOrderStep
<1> QED
  BY <1>1, <1>2, InvInit, InvStep, PTL DEF Spec, EntriesAreInOrder

\* The append jobs keep the promise of the outbox, with either store: done only once
\* appended or raced, given up and opened again, and nothing after it is done.
THEOREM PromiseKept == Spec => KeepsPromise
<1>1. Init => PromiseInv
  <2>1. Init => AppendedOK /\ StoredOnce /\ WorkOK
    BY DEF Init, AppendedOK, DoneIsAppended, StoredOnce, WorkOK
  <2> QED
    BY <2>1, InvInit DEF PromiseInv
<1>2. PromiseInv /\ [Next]_vars => PromiseInv' /\ [Promise!Next]_Promise!vars
  BY InvStep, AppendedStep, StoredStep, WorkStep, PromisedStep DEF PromiseInv, IInv
<1> QED
  BY <1>1, <1>2, PromisedInit, PTL DEF Spec, KeepsPromise, Promise!Spec

\* Where appends cannot run side by side, with the Lite store or with a single lane,
\* no event is excepted: who is done has an entry.
THEOREM LoneLaneAppends ==
  ASSUME Stores = {"lite"} \/ \A v, w \in Workers : v = w
  PROVE  Spec => [](\A e \in Payloads : job[e] = "done" => entry[e] # 0)
<1> DEFINE Lone == Basics /\ raced = {}
<1>1. Init => Lone
  BY BasicsInit DEF Init
<1>2. Lone /\ [Next]_vars => Lone'
  <2> SUFFICES ASSUME Basics, raced = {}, [Next]_vars PROVE raced' = {}
    BY BasicsStep
  <2>1. ASSUME NEW w \in Workers, ReadSequence(w) PROVE raced' = {}
    <3>1. Beside(w) = {}
      BY <2>1 DEF ReadSequence, Basics, TypeOK, Beside
    <3> QED
      BY <2>1, <3>1 DEF ReadSequence
  <2>2. raced' = raced \/ \E w \in Workers : ReadSequence(w)
    BY NextIsStep DEF Step, Deliver, PurgeSource, ExpireOrphan, Overrun, RetryDeadLetter, Claim, Append,
       InsertEntry, HandlerRaises, RecordOutcome, Crash, CheckNow, ReadEvents, ReadJobs, ReadEntries, vars
  <2> QED
    BY <2>1, <2>2
<1>3. Lone /\ DoneIsAppended => \A e \in Payloads : job[e] = "done" => entry[e] # 0
  BY DEF DoneIsAppended
<1> QED
  BY <1>1, <1>2, <1>3, AppendIsDone, PTL DEF Spec

===============================================================================
