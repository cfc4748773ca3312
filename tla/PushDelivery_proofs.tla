-------------------------- MODULE PushDelivery_proofs --------------------------
(***************************************************************************)
(* Proofs about PushDelivery.                                              *)
(***************************************************************************)
EXTENDS PushDelivery, TLAPS

\* What changes no candidate and is no sender's step.
Aside ==
  \/ \E e \in Events : BeginPurge(e)
  \/ \E e \in Events : AbortPurge(e)
  \/ \E c \in Candidates, k \in Keys, visible \in SUBSET Candidates : ReadCard(c, k, visible)
  \/ \E c \in Candidates, k \in Keys, visible \in SUBSET Candidates : ShowCard(c, k, visible)
  \/ \E c \in Candidates, k \in Keys : AbortCard(c, k)
  \/ \E c \in Candidates, e \in Events : RetrySendJob(c, e)

\* One disjunct for each action.
Step ==
  \/ Aside
  \/ \E c \in Candidates : Generate(c)
  \/ \E c \in Candidates, k \in Keys : Approve(c, k)
  \/ \E c \in Candidates, k \in Keys : Skip(c, k)
  \/ \E c \in Candidates, k \in Keys : AckCard(c, k)
  \/ \E c \in Candidates, k \in Keys : PrepareCard(c, k)
  \/ \E c \in Candidates, k \in Keys, u \in Users, p \in Platforms : RequestSend(u, c, k, p)
  \/ \E c \in Candidates, e \in Events : ExpireOrphan(c, e)
  \/ \E c \in Candidates, e \in Events : Overrun(c, e)
  \/ \E e \in Events : CommitPurge(e)
  \/ \E e \in Events : Trigger(e)
  \/ \E w \in Workers, c \in Candidates, e \in Events : TakeSettled(w, c, e)
  \/ \E w \in Workers, c \in Candidates, e \in Events : Take(w, c, e)
  \/ \E w \in Workers : ApprovePending(w)
  \/ \E s \in Senders : ReplaySend(s)
  \/ \E s \in Senders : RefuseSend(s)
  \/ \E s \in Senders : MissRoute(s)
  \/ \E s \in Senders : BeginSend(s)
  \/ \E s \in Senders, delivered \in BOOLEAN : Deliver(s, delivered)
  \/ \E s \in Senders : FailToDeliver(s)
  \/ \E s \in Senders : RecordSend(s)
  \/ \E s \in Senders : LoseAnswer(s)
  \/ \E s \in Senders : Crash(s)

LEMMA NextIsStep == Next => Step
<1>1. ASSUME NEW w \in Workers, LaneStep(w) PROVE Step
  BY <1>1 DEF LaneStep, SendStep, Step, Senders
<1>2. ASSUME NEW u \in Users, SendStep(u) PROVE Step
  BY <1>2 DEF SendStep, Step, Senders
<1> QED
  BY <1>1, <1>2 DEF Next, Step, Aside

LEMMA Names ==
  /\ Keys \subseteq AllKeys /\ AutoApprove \in AllKeys /\ AutoSend \in AllKeys
  /\ Workers \subseteq Senders /\ Users \subseteq Senders
BY DEF AllKeys, LaneKeys, Senders

-----------------------------------------------------------------------------
(* Types, and what a sender at work and a locked row are.                    *)

\* A sender at work has a candidate and a key; a lane works on a job.
BusyOK ==
  \A s \in Senders : phase[s] # "idle" =>
    /\ cand[s] \in Candidates /\ key[s] \in AllKeys
    /\ s \in Workers => task[s] \in Events

\* A locked row is open, an open one has an attempt left, one that was retried the last
\* one, and a dead one has none.
RowsOK ==
  \A c \in Candidates, e \in Events :
    /\ lockedBy[c][e] # None => job[c][e] = "open"
    /\ job[c][e] \in {"none", "open"} => attempts[c][e] < MaxAttempts + redriven[c][e]
    /\ redriven[c][e] # 0 => attempts[c][e] + 1 >= MaxAttempts + redriven[c][e]
    /\ job[c][e] = "dead" => attempts[c][e] = MaxAttempts + redriven[c][e]

Basics == TypeOK /\ BusyOK /\ RowsOK

JobsType ==
  /\ job      \in [Candidates -> [Events -> {"none", "open", "done", "dead"}]]
  /\ attempts \in [Candidates -> [Events -> Nat]]
  /\ redriven \in [Candidates -> [Events -> Nat]]
  /\ \A c \in Candidates, e \in Events : attempts[c][e] <= MaxAttempts + redriven[c][e]
  /\ lockedBy \in [Candidates -> [Events -> Workers \cup {None}]]

LocalsType ==
  /\ phase  \in [Senders -> {"idle", "approve", "check", "sending", "record"}]
  /\ cand   \in [Senders -> Candidates \cup {None}]
  /\ key    \in [Senders -> AllKeys \cup {None}]
  /\ task   \in [Senders -> Events \cup Platforms \cup {None}]
  /\ answer \in [Senders -> BOOLEAN]

LEMMA BasicsInit == Init => Basics
BY PushConstants DEF Init, Basics, TypeOK, BusyOK, RowsOK, Statuses, Decisions

LEMMA RecordType ==
  ASSUME TypeOK, NEW c \in Candidates, NEW k \in AllKeys, NEW d \in Decisions, Record(c, k, d)
  PROVE  audit' \in [Candidates -> [AllKeys -> Decisions]]
BY DEF TypeOK, Record

LEMMA SetStatusType ==
  ASSUME TypeOK, NEW c \in Candidates, NEW new \in Statuses, SetStatus(c, new)
  PROVE  status' \in [Candidates -> Statuses] /\ approvals' \in [Candidates -> Nat]
BY DEF TypeOK, SetStatus

LEMMA TransitionType ==
  ASSUME TypeOK, NEW c \in Candidates, NEW k \in AllKeys,
         NEW new \in {"approved", "skipped"}, Transition(c, k, new)
  PROVE  /\ status' \in [Candidates -> Statuses] /\ approvals' \in [Candidates -> Nat]
         /\ audit' \in [Candidates -> [AllKeys -> Decisions]]
<1>1. new \in Statuses /\ new \in Decisions
  BY DEF Statuses, Decisions
<1>2. CASE Used(c, k)
  BY <1>2 DEF Transition, TypeOK
<1>3. CASE ~Used(c, k)
  BY <1>1, <1>3, RecordType, SetStatusType DEF Transition
<1> QED
  BY <1>2, <1>3

LEMMA MessageType ==
  ASSUME TypeOK, NEW c \in Candidates, NEW k \in AllKeys, Message(c, k)
  PROVE  messages' \in [Candidates -> [AllKeys -> Nat]] /\ sends' \in [Candidates -> Nat]
BY DEF TypeOK, Message

LEMMA DoubtType ==
  ASSUME TypeOK, NEW c \in Candidates, NEW k \in AllKeys, Doubt(c, k)
  PROVE  doubtful' \in SUBSET (Candidates \X AllKeys) /\ crowded' \in SUBSET Candidates
BY DEF TypeOK, Doubt

LEMMA EnterType ==
  ASSUME Basics, NEW s \in Senders, NEW c \in Candidates, NEW e \in Events \cup Platforms,
         NEW k \in AllKeys, NEW at \in {"approve", "check"}, s \in Workers => e \in Events,
         Enter(s, c, e, k, at)
  PROVE  LocalsType' /\ BusyOK'
<1>1. LocalsType'
  BY DEF Basics, TypeOK, LocalsType, Enter
<1>2. BusyOK'
  BY DEF Basics, TypeOK, BusyOK, Enter
<1> QED
  BY <1>1, <1>2

LEMMA LeaveType ==
  ASSUME Basics, NEW s \in Senders, Leave(s)
  PROVE  LocalsType' /\ BusyOK'
<1>1. LocalsType'
  BY DEF Basics, TypeOK, LocalsType, Leave
<1>2. BusyOK'
  BY DEF Basics, TypeOK, BusyOK, Leave
<1> QED
  BY <1>1, <1>2

LEMMA ReturnType ==
  ASSUME Basics, NEW s \in Senders, phase[s] # "idle",
         NEW outcome \in {"done", "failed"}, Return(s, outcome)
  PROVE  JobsType' /\ LocalsType' /\ BusyOK' /\ RowsOK'
<1>1. LocalsType' /\ BusyOK'
  BY LeaveType DEF Return
<1>2. CASE Mine(s)
  <2>1. /\ cand[s] \in Candidates /\ task[s] \in Events
        /\ lockedBy[cand[s]][task[s]] # None
    BY <1>2, PushConstants DEF Mine, Basics, BusyOK
  <2> DEFINE a  == attempts[cand[s]][task[s]]
             r  == redriven[cand[s]][task[s]]
             n  == IF outcome = "done" THEN a ELSE a + 1
             to == IF outcome = "done" THEN "done" ELSE IF n < MaxAttempts THEN "open" ELSE "dead"
  <2>2. a \in Nat /\ r \in Nat /\ a < MaxAttempts + r /\ (r # 0 => a + 1 >= MaxAttempts + r)
    BY <2>1 DEF Basics, RowsOK, TypeOK
  <2>3. /\ job'      = [job EXCEPT ![cand[s]][task[s]] = to]
        /\ attempts' = [attempts EXCEPT ![cand[s]][task[s]] = n]
        /\ lockedBy' = [lockedBy EXCEPT ![cand[s]][task[s]] = None]
        /\ redriven' = redriven
    BY <1>2 DEF Return, Failed
  <2>4. /\ n \in Nat /\ n >= a /\ n <= MaxAttempts + r /\ to \in {"open", "done", "dead"}
        /\ to = "open" => n < MaxAttempts + r
        /\ to = "dead" => n = MaxAttempts + r
    BY <2>2, PushConstants
  <2> HIDE DEF n, to
  <2>5. RowsOK'
    BY <2>1, <2>2, <2>3, <2>4, PushConstants DEF Basics, RowsOK, TypeOK
  <2>6. JobsType'
    BY <2>1, <2>2, <2>3, <2>4, PushConstants DEF Basics, TypeOK, JobsType
  <2> QED
    BY <1>1, <2>5, <2>6
<1>3. CASE ~Mine(s)
  <2>1. UNCHANGED jobs
    BY <1>3 DEF Return
  <2> QED
    BY <1>1, <2>1 DEF Basics, TypeOK, RowsOK, JobsType, jobs
<1> QED
  BY <1>2, <1>3

LEMMA TriggerType ==
  ASSUME Basics, NEW e \in Events, Trigger(e)
  PROVE  JobsType' /\ RowsOK'
<1>1. PICK c \in Candidates : job' = [job EXCEPT ![c][e] = IF @ = "none" THEN "open" ELSE @]
  BY DEF Trigger, Selected, Listed
<1>2. UNCHANGED <<attempts, redriven, lockedBy>>
  BY DEF Trigger
<1>3. JobsType'
  BY <1>1, <1>2 DEF Basics, TypeOK, JobsType
<1>4. RowsOK'
  BY <1>1, <1>2, PushConstants DEF Basics, TypeOK, RowsOK
<1> QED
  BY <1>3, <1>4

LEMMA WithdrawalType ==
  ASSUME TypeOK, NEW e \in Events, purging[e] # None
  PROVE  /\ DOMAIN purging[e] \subseteq Candidates
         /\ \A c \in DOMAIN purging[e] : purging[e][c] \in {"invalid", "skipped"}
<1>1. purging[e] \in Withdrawals
  BY DEF TypeOK
<1>2. PICK cs \in SUBSET Candidates : purging[e] \in [cs -> {"invalid", "skipped"}]
  BY <1>1 DEF Withdrawals
<1> QED
  BY <1>2

LEMMA PurgeType ==
  ASSUME TypeOK, NEW e \in Events, CommitPurge(e)
  PROVE  /\ purged' \in SUBSET Events
         /\ purging' \in [Events -> Withdrawals \cup {None}]
         /\ status' \in [Candidates -> Statuses]
         /\ barred' \in SUBSET Candidates
<1>1. \A c \in Candidates : status[c] \in Statuses
  BY DEF TypeOK
<1>2. \A c \in DOMAIN purging[e] : c \in Candidates /\ purging[e][c] \in Statuses
  BY WithdrawalType DEF CommitPurge, Statuses
<1>3. status' \in [Candidates -> Statuses]
  BY <1>1, <1>2 DEF CommitPurge
<1> QED
  BY <1>2, <1>3 DEF TypeOK, CommitPurge

LEMMA BeginPurgeType ==
  ASSUME TypeOK, NEW e \in Events, BeginPurge(e)
  PROVE  purging' \in [Events -> Withdrawals \cup {None}]
<1>1. PICK seen \in PurgeWindow :
        purging' = [purging EXCEPT ![e] =
                     [c \in {d \in seen : Withdrawn(e, d)} |->
                        IF status[c] = "pending" THEN "invalid" ELSE "skipped"]]
  BY DEF BeginPurge
<1> DEFINE cs == {d \in seen : Withdrawn(e, d)}
           f  == [c \in cs |-> IF status[c] = "pending" THEN "invalid" ELSE "skipped"]
<1>2. cs \in SUBSET Candidates
  BY DEF PurgeWindow
<1>3. f \in [cs -> {"invalid", "skipped"}]
  OBVIOUS
<1>4. purging' = [purging EXCEPT ![e] = f]
  BY <1>1
<1> HIDE DEF cs, f
<1>5. f \in Withdrawals
  BY <1>2, <1>3 DEF Withdrawals
<1> QED
  BY <1>4, <1>5 DEF TypeOK

\* The rest of a step that leaves a group of variables alone.
LEMMA SameLocals == Basics /\ UNCHANGED locals => LocalsType' /\ BusyOK'
BY DEF Basics, TypeOK, BusyOK, LocalsType, locals

LEMMA SameJobs == Basics /\ UNCHANGED jobs => JobsType' /\ RowsOK'
BY DEF Basics, TypeOK, RowsOK, JobsType, jobs

LEMMA AsideFrame ==
  ASSUME Aside
  PROVE  /\ UNCHANGED <<status, purged, locals, ghosts, faults>>
         /\ audit' = audit \/ \E c \in Candidates, k \in Keys : Record(c, k, "prepared")
BY DEF Aside, BeginPurge, AbortPurge, ReadCard, ShowCard, AbortCard, RetrySendJob, Request, bounds

LEMMA AsideBasics == ASSUME Basics, Aside PROVE Basics'
<1>0. LocalsType' /\ BusyOK'
  BY AsideFrame, SameLocals
<1>1. ASSUME NEW e \in Events, BeginPurge(e) PROVE Basics'
  <2>1. JobsType' /\ RowsOK'
    BY <1>1, SameJobs DEF BeginPurge
  <2>2. purging' \in [Events -> Withdrawals \cup {None}]
    BY <1>1, BeginPurgeType DEF Basics
  <2>3. requests' = requests + 1 /\ UNCHANGED <<status, audit, purged, cards, ghosts, faults>>
    BY <1>1, Zenon DEF BeginPurge, Request
  <2>4. TypeOK'
    BY <1>0, <2>1, <2>2, <2>3 DEF TypeOK, JobsType, LocalsType, Basics, ghosts
  <2> QED
    BY <1>0, <2>1, <2>4 DEF Basics
<1>2. ASSUME NEW e \in Events, AbortPurge(e) PROVE Basics'
  <2>1. JobsType' /\ RowsOK'
    BY <1>2, SameJobs DEF AbortPurge
  <2>2. TypeOK'
    BY <1>0, <1>2, <2>1 DEF AbortPurge, TypeOK, JobsType, LocalsType, Basics, ghosts, bounds
  <2> QED
    BY <1>0, <2>1, <2>2 DEF Basics
<1>3. ASSUME NEW c \in Candidates, NEW k \in Keys, NEW visible \in SUBSET Candidates, ReadCard(c, k, visible)
      PROVE  Basics'
  <2>1. JobsType' /\ RowsOK'
    BY <1>3, SameJobs DEF ReadCard
  <2>2. TypeOK'
    BY <1>0, <1>3, <2>1 DEF ReadCard, TypeOK, JobsType, LocalsType, Basics, ghosts, Request
  <2> QED
    BY <1>0, <2>1, <2>2 DEF Basics
<1>4. ASSUME NEW c \in Candidates, NEW k \in Keys, NEW visible \in SUBSET Candidates, ShowCard(c, k, visible)
      PROVE  Basics'
  <2>1. JobsType' /\ RowsOK'
    BY <1>4, SameJobs DEF ShowCard
  <2>2. TypeOK'
    BY <1>0, <1>4, <2>1, RecordType, Names
    DEF ShowCard, TypeOK, JobsType, LocalsType, Basics, ghosts, Request, Decisions
  <2> QED
    BY <1>0, <2>1, <2>2 DEF Basics
<1>5. ASSUME NEW c \in Candidates, NEW k \in Keys, AbortCard(c, k) PROVE Basics'
  <2>1. JobsType' /\ RowsOK'
    BY <1>5, SameJobs DEF AbortCard
  <2>2. TypeOK'
    BY <1>0, <1>5, <2>1 DEF AbortCard, TypeOK, JobsType, LocalsType, Basics, ghosts, bounds
  <2> QED
    BY <1>0, <2>1, <2>2 DEF Basics
<1>6. ASSUME NEW c \in Candidates, NEW e \in Events, RetrySendJob(c, e) PROVE Basics'
  <2>1. attempts[c][e] = MaxAttempts + redriven[c][e] /\ redriven[c][e] \in Nat /\ lockedBy[c][e] = None
    BY <1>6 DEF RetrySendJob, Basics, RowsOK, TypeOK
  <2>2. RowsOK'
    BY <1>6, <2>1, PushConstants DEF RetrySendJob, Basics, RowsOK, TypeOK
  <2>3. JobsType'
    BY <1>6, <2>1, PushConstants DEF RetrySendJob, Basics, TypeOK, JobsType
  <2>4. TypeOK'
    BY <1>0, <1>6, <2>3 DEF RetrySendJob, TypeOK, JobsType, LocalsType, Basics, ghosts, Request
  <2> QED
    BY <1>0, <2>2, <2>4 DEF Basics
<1> QED
  BY <1>1, <1>2, <1>3, <1>4, <1>5, <1>6 DEF Aside

LEMMA BasicsStep == Basics /\ [Next]_vars => Basics'
<1> SUFFICES ASSUME Basics, [Next]_vars PROVE Basics'
  OBVIOUS
<1>1. ASSUME NEW c \in Candidates, Generate(c) PROVE Basics'
  <2>1. LocalsType' /\ BusyOK'
    BY <1>1, SameLocals DEF Generate
  <2>2. JobsType' /\ RowsOK'
    BY <1>1, SameJobs DEF Generate
  <2>3. TypeOK'
    BY <1>1, <2>1, <2>2 DEF Generate, TypeOK, JobsType, LocalsType, Basics, ghosts, bounds, Statuses, Decisions
  <2> QED
    BY <2>1, <2>2, <2>3 DEF Basics
<1>2. ASSUME NEW c \in Candidates, NEW k \in Keys, Approve(c, k) PROVE Basics'
  <2>1. LocalsType' /\ BusyOK'
    BY <1>2, SameLocals DEF Approve
  <2>2. JobsType' /\ RowsOK'
    BY <1>2, SameJobs DEF Approve
  <2>3. TypeOK'
    BY <1>2, <2>1, <2>2, TransitionType, Names DEF Approve, TypeOK, JobsType, LocalsType, Basics, Request
  <2> QED
    BY <2>1, <2>2, <2>3 DEF Basics
<1>3. ASSUME NEW c \in Candidates, NEW k \in Keys, Skip(c, k) PROVE Basics'
  <2>1. LocalsType' /\ BusyOK'
    BY <1>3, SameLocals DEF Skip
  <2>2. JobsType' /\ RowsOK'
    BY <1>3, SameJobs DEF Skip
  <2>3. TypeOK'
    BY <1>3, <2>1, <2>2, TransitionType, Names DEF Skip, TypeOK, JobsType, LocalsType, Basics, Request
  <2> QED
    BY <2>1, <2>2, <2>3 DEF Basics
<1>4. ASSUME NEW c \in Candidates, NEW k \in Keys, AckCard(c, k) PROVE Basics'
  <2>1. LocalsType' /\ BusyOK'
    BY <1>4, SameLocals DEF AckCard
  <2>2. JobsType' /\ RowsOK'
    BY <1>4, SameJobs DEF AckCard
  <2>3. audit' \in [Candidates -> [AllKeys -> Decisions]]
    <3>1. Record(c, k, "sent") /\ "sent" \in Decisions /\ k \in AllKeys /\ TypeOK
      BY <1>4, Names DEF AckCard, Decisions, Basics
    <3> QED
      BY <3>1, RecordType
  <2>4. status' \in [Candidates -> Statuses] /\ approvals' \in [Candidates -> Nat]
    <3>1. SetStatus(c, "sent") /\ "sent" \in Statuses /\ TypeOK
      BY <1>4 DEF AckCard, Statuses, Basics
    <3> QED
      BY <3>1, SetStatusType
  <2>5. TypeOK'
    BY <1>4, <2>1, <2>2, <2>3, <2>4 DEF AckCard, TypeOK, JobsType, LocalsType, Basics, Request
  <2> QED
    BY <2>1, <2>2, <2>5 DEF Basics
<1>5. ASSUME NEW c \in Candidates, NEW k \in Keys, PrepareCard(c, k) PROVE Basics'
  <2>1. LocalsType' /\ BusyOK'
    BY <1>5, SameLocals DEF PrepareCard
  <2>2. JobsType' /\ RowsOK'
    BY <1>5, SameJobs DEF PrepareCard
  <2>3. audit' \in [Candidates -> [AllKeys -> Decisions]]
    <3>1. Record(c, k, "prepared") /\ "prepared" \in Decisions /\ k \in AllKeys /\ TypeOK
      BY <1>5, Names DEF PrepareCard, Decisions, Basics
    <3> QED
      BY <3>1, RecordType
  <2>4. status' \in [Candidates -> Statuses] /\ approvals' \in [Candidates -> Nat]
    <3>1. SetStatus(c, "approved") /\ "approved" \in Statuses /\ TypeOK
      BY <1>5 DEF PrepareCard, Statuses, Basics
    <3> QED
      BY <3>1, SetStatusType
  <2>5. TypeOK'
    BY <1>5, <2>1, <2>2, <2>3, <2>4 DEF PrepareCard, TypeOK, JobsType, LocalsType, Basics, bounds
  <2> QED
    BY <2>1, <2>2, <2>5 DEF Basics
<1>6. ASSUME NEW c \in Candidates, NEW k \in Keys, NEW u \in Users, NEW p \in Platforms, RequestSend(u, c, k, p) PROVE Basics'
  <2>1. LocalsType' /\ BusyOK'
    BY <1>6, EnterType, Names, PushConstants DEF RequestSend
  <2>2. JobsType' /\ RowsOK'
    BY <1>6, SameJobs DEF RequestSend
  <2>3. TypeOK'
    BY <1>6, <2>1, <2>2 DEF RequestSend, TypeOK, JobsType, LocalsType, Basics, Request, ghosts
  <2> QED
    BY <2>1, <2>2, <2>3 DEF Basics
<1>7. ASSUME NEW c \in Candidates, NEW e \in Events, ExpireOrphan(c, e) PROVE Basics'
  <2>1. LocalsType' /\ BusyOK'
    BY <1>7, SameLocals DEF ExpireOrphan
  <2>2. JobsType' /\ RowsOK'
    BY <1>7 DEF ExpireOrphan, Basics, TypeOK, RowsOK, JobsType, jobs
  <2>3. TypeOK'
    BY <1>7, <2>1, <2>2 DEF ExpireOrphan, TypeOK, JobsType, LocalsType, Basics, ghosts, bounds
  <2> QED
    BY <2>1, <2>2, <2>3 DEF Basics
<1>8. ASSUME NEW c \in Candidates, NEW e \in Events, Overrun(c, e) PROVE Basics'
  <2>1. LocalsType' /\ BusyOK'
    BY <1>8, SameLocals DEF Overrun
  <2>2. JobsType' /\ RowsOK'
    BY <1>8 DEF Overrun, Basics, TypeOK, RowsOK, JobsType, jobs
  <2>3. TypeOK'
    BY <1>8, <2>1, <2>2 DEF Overrun, TypeOK, JobsType, LocalsType, Basics, ghosts, Fault
  <2> QED
    BY <2>1, <2>2, <2>3 DEF Basics
<1>9. ASSUME NEW e \in Events, CommitPurge(e) PROVE Basics'
  <2>1. LocalsType' /\ BusyOK'
    BY <1>9, SameLocals DEF CommitPurge
  <2>2. JobsType' /\ RowsOK'
    BY <1>9, SameJobs DEF CommitPurge
  <2>3. TypeOK'
    BY <1>9, <2>1, <2>2, PurgeType DEF CommitPurge, TypeOK, JobsType, LocalsType, Basics, bounds
  <2> QED
    BY <2>1, <2>2, <2>3 DEF Basics
<1>10. ASSUME NEW e \in Events, Trigger(e) PROVE Basics'
  <2>1. LocalsType' /\ BusyOK'
    BY <1>10, SameLocals DEF Trigger
  <2>2. JobsType' /\ RowsOK'
    BY <1>10, TriggerType DEF Trigger
  <2>3. TypeOK'
    BY <1>10, <2>1, <2>2 DEF Trigger, TypeOK, JobsType, LocalsType, Basics, ghosts, bounds
  <2> QED
    BY <2>1, <2>2, <2>3 DEF Basics
<1>11. ASSUME NEW w \in Workers, NEW c \in Candidates, NEW e \in Events, TakeSettled(w, c, e) PROVE Basics'
  <2>1. LocalsType' /\ BusyOK'
    BY <1>11, SameLocals DEF TakeSettled
  <2>2. JobsType' /\ RowsOK'
    BY <1>11 DEF TakeSettled, Basics, TypeOK, RowsOK, JobsType, jobs, Claimable
  <2>3. TypeOK'
    BY <1>11, <2>1, <2>2 DEF TakeSettled, TypeOK, JobsType, LocalsType, Basics, ghosts, bounds
  <2> QED
    BY <2>1, <2>2, <2>3 DEF Basics
<1>12. ASSUME NEW w \in Workers, NEW c \in Candidates, NEW e \in Events, Take(w, c, e) PROVE Basics'
  <2>1. LocalsType' /\ BusyOK'
    BY <1>12, EnterType, Names DEF Take
  <2>2. JobsType' /\ RowsOK'
    BY <1>12 DEF Take, Basics, TypeOK, RowsOK, JobsType, jobs, Claimable
  <2>3. TypeOK'
    BY <1>12, <2>1, <2>2 DEF Take, TypeOK, JobsType, LocalsType, Basics, ghosts, bounds
  <2> QED
    BY <2>1, <2>2, <2>3 DEF Basics
<1>13. ASSUME NEW w \in Workers, ApprovePending(w) PROVE Basics'
  <2>1. LocalsType' /\ BusyOK'
    BY <1>13 DEF ApprovePending, Basics, TypeOK, BusyOK, LocalsType
  <2>2. JobsType' /\ RowsOK'
    BY <1>13, SameJobs DEF ApprovePending
  <2>3. TypeOK'
    BY <1>13, <2>1, <2>2, RecordType, SetStatusType, Names
    DEF ApprovePending, TypeOK, JobsType, LocalsType, Basics, BusyOK, bounds, Statuses, Decisions
  <2> QED
    BY <2>1, <2>2, <2>3 DEF Basics
<1>14. ASSUME NEW s \in Senders, ReplaySend(s) PROVE Basics'
  <2>1. Return(s, "done") /\ phase[s] # "idle"
    BY <1>14 DEF ReplaySend
  <2>2. JobsType' /\ LocalsType' /\ BusyOK' /\ RowsOK'
    BY <2>1, ReturnType
  <2>3. TypeOK'
    BY <1>14, <2>2 DEF ReplaySend, TypeOK, JobsType, LocalsType, Basics, ghosts, bounds
  <2> QED
    BY <2>2, <2>3 DEF Basics
<1>15. ASSUME NEW s \in Senders, RefuseSend(s) PROVE Basics'
  <2>1. Return(s, "failed") /\ phase[s] # "idle"
    BY <1>15 DEF RefuseSend
  <2>2. JobsType' /\ LocalsType' /\ BusyOK' /\ RowsOK'
    BY <2>1, ReturnType
  <2>3. TypeOK'
    BY <1>15, <2>2, RecordType DEF RefuseSend, TypeOK, JobsType, LocalsType, Basics, ghosts, bounds, Decisions, BusyOK
  <2> QED
    BY <2>2, <2>3 DEF Basics
<1>16. ASSUME NEW s \in Senders, MissRoute(s) PROVE Basics'
  <2>1. Return(s, "failed") /\ phase[s] # "idle"
    BY <1>16 DEF MissRoute
  <2>2. JobsType' /\ LocalsType' /\ BusyOK' /\ RowsOK'
    BY <2>1, ReturnType
  <2>3. TypeOK'
    BY <1>16, <2>2 DEF MissRoute, TypeOK, JobsType, LocalsType, Basics, ghosts, bounds
  <2> QED
    BY <2>2, <2>3 DEF Basics
<1>17. ASSUME NEW s \in Senders, BeginSend(s) PROVE Basics'
  <2>1. LocalsType' /\ BusyOK'
    BY <1>17 DEF BeginSend, Basics, TypeOK, BusyOK, LocalsType, locals
  <2>2. JobsType' /\ RowsOK'
    BY <1>17, SameJobs DEF BeginSend
  <2>3. TypeOK'
    BY <1>17, <2>1, <2>2 DEF BeginSend, TypeOK, JobsType, LocalsType, Basics, BusyOK, bounds
  <2> QED
    BY <2>1, <2>2, <2>3 DEF Basics
<1>18. ASSUME NEW s \in Senders, NEW delivered \in BOOLEAN, Deliver(s, delivered) PROVE Basics'
  <2>1. LocalsType' /\ BusyOK'
    BY <1>18 DEF Deliver, Basics, TypeOK, BusyOK, LocalsType, locals
  <2>2. JobsType' /\ RowsOK'
    BY <1>18, SameJobs DEF Deliver
  <2>3. TypeOK'
    BY <1>18, <2>1, <2>2, MessageType DEF Deliver, TypeOK, JobsType, LocalsType, Basics, BusyOK, bounds
  <2> QED
    BY <2>1, <2>2, <2>3 DEF Basics
<1>19. ASSUME NEW s \in Senders, FailToDeliver(s) PROVE Basics'
  <2>1. Return(s, "failed") /\ phase[s] # "idle"
    BY <1>19 DEF FailToDeliver
  <2>2. JobsType' /\ LocalsType' /\ BusyOK' /\ RowsOK'
    BY <2>1, ReturnType
  <2>3. TypeOK'
    BY <1>19, <2>2 DEF FailToDeliver, TypeOK, JobsType, LocalsType, Basics, ghosts, bounds
  <2> QED
    BY <2>2, <2>3 DEF Basics
<1>20. ASSUME NEW s \in Senders, RecordSend(s) PROVE Basics'
  <2>1. Return(s, "done") /\ phase[s] # "idle"
    BY <1>20 DEF RecordSend
  <2>2. JobsType' /\ LocalsType' /\ BusyOK' /\ RowsOK'
    BY <2>1, ReturnType
  <2>3. TypeOK'
    BY <1>20, <2>2, RecordType, SetStatusType DEF RecordSend, TypeOK, JobsType, LocalsType, Basics, BusyOK, bounds, Statuses, Decisions
  <2> QED
    BY <2>2, <2>3 DEF Basics
<1>21. ASSUME NEW s \in Senders, LoseAnswer(s) PROVE Basics'
  <2>1. Return(s, "failed") /\ phase[s] # "idle" /\ Message(cand[s], key[s]) /\ Doubt(cand[s], key[s])
    BY <1>21 DEF LoseAnswer
  <2>2. JobsType' /\ LocalsType' /\ BusyOK' /\ RowsOK'
    BY <2>1, ReturnType
  <2>3. cand[s] \in Candidates /\ key[s] \in AllKeys /\ TypeOK
    BY <2>1 DEF Basics, BusyOK
  <2>4. TypeOK'
    BY <1>21, <2>1, <2>2, <2>3, MessageType, DoubtType DEF LoseAnswer, TypeOK, JobsType, LocalsType, Fault
  <2> QED
    BY <2>2, <2>4 DEF Basics
<1>22. ASSUME NEW s \in Senders, Crash(s) PROVE Basics'
  <2>1. LocalsType' /\ BusyOK'
    BY <1>22, LeaveType DEF Crash
  <2>2. JobsType' /\ RowsOK'
    BY <1>22, SameJobs DEF Crash
  <2>3. TypeOK'
    BY <1>22, <2>1, <2>2, DoubtType DEF Crash, TypeOK, JobsType, LocalsType, Basics, BusyOK, Fault
  <2> QED
    BY <2>1, <2>2, <2>3 DEF Basics
<1>23. ASSUME Aside PROVE Basics'
  BY <1>23, AsideBasics
<1>90. CASE UNCHANGED vars
  <2>1. UNCHANGED <<locals, jobs>>
    BY <1>90 DEF vars
  <2>2. TypeOK'
    BY <1>90, <2>1, SameLocals, SameJobs DEF vars, Basics, TypeOK, LocalsType, JobsType, ghosts, bounds
  <2> QED
    BY <2>1, <2>2, SameLocals, SameJobs DEF Basics
<1> QED
  BY <1>1, <1>2, <1>3, <1>4, <1>5, <1>6, <1>7, <1>8, <1>9, <1>10, <1>11, <1>12, <1>13, <1>14, <1>15, <1>16, <1>17, <1>18, <1>19, <1>20, <1>21, <1>22, <1>23, <1>90, NextIsStep DEF Step

-----------------------------------------------------------------------------
(* The invariants behind the properties.                                     *)

Carries(s, c)   == InFlight(s) /\ cand[s] = c
HasSent(s)      == phase[s] = "record" /\ answer[s]

\* A key that is not used and not in flight has sent nothing.
KeysOK ==
  \A c \in Candidates, k \in AllKeys : <<c, k>> \in doubtful \/
    /\ \A s, t \in Senders : Carries(s, c) /\ key[s] = k /\ Carries(t, c) /\ key[t] = k => s = t
    /\ messages[c][k] <= 1
    /\ \A s \in Senders : Carries(s, c) /\ key[s] = k /\ ~HasSent(s) => messages[c][k] = 0
    /\ (\A s \in Senders : ~(Carries(s, c) /\ key[s] = k)) /\ audit[c][k] = "none"
         => messages[c][k] = 0

\* An approval is spent by the send in flight, or still there.
ApprovalsOK ==
  \A c \in Candidates : c \in crowded \/
    /\ \A s, t \in Senders : Carries(s, c) /\ Carries(t, c) => s = t
    /\ sends[c] <= approvals[c]
    /\ \A s \in Senders : Carries(s, c) /\ ~HasSent(s) => sends[c] < approvals[c]
    /\ (\A s \in Senders : ~Carries(s, c)) /\ status[c] = "approved" => sends[c] < approvals[c]

\* Nobody is about to send a withdrawn candidate.
BarredOK ==
  \A c \in Candidates : c \in barred =>
    /\ status[c] \in {"skipped", "invalid", "sent"}
    /\ ~AboutToSend(c)

\* A sender that has sent has sent.
SentOK ==
  /\ \A s \in Senders : HasSent(s) => sends[cand[s]] > 0
  /\ SentWasDelivered

Fewer ==
  \A s \in Senders : InFlight(s)' =>
    /\ InFlight(s) /\ phase'[s] = phase[s] /\ cand'[s] = cand[s]
    /\ key'[s] = key[s] /\ answer'[s] = answer[s]

LEMMA DeliverCounts ==
  ASSUME Basics, NEW s \in Senders, NEW delivered \in BOOLEAN, Deliver(s, delivered)
  PROVE  /\ \A c \in Candidates :
              sends'[c] = IF delivered /\ c = cand[s] THEN sends[c] + 1 ELSE sends[c]
         /\ \A c \in Candidates, k \in AllKeys :
              messages'[c][k] = IF delivered /\ c = cand[s] /\ k = key[s]
                                THEN messages[c][k] + 1 ELSE messages[c][k]
         /\ HasSent(s)' => sends'[cand[s]] > 0
<1>1. CASE delivered
  <2>1. Message(cand[s], key[s]) /\ cand[s] \in Candidates
    BY <1>1 DEF Deliver, Basics, BusyOK
  <2> QED
    BY <1>1, <2>1 DEF Message, Basics, TypeOK
<1>2. CASE ~delivered
  <2>1. answer' = [answer EXCEPT ![s] = FALSE] /\ UNCHANGED <<messages, sends>>
    BY <1>2 DEF Deliver
  <2>2. ~answer'[s]
    BY <2>1 DEF Basics, TypeOK
  <2> QED
    BY <1>2, <2>1, <2>2 DEF HasSent
<1> QED
  BY <1>1, <1>2

\* Who lands without a message, with a record or in doubt.
Landed ==
  \A s \in Senders : InFlight(s) /\ ~InFlight(s)' =>
    \/ ~HasSent(s)
    \/ audit'[cand[s]][key[s]] # "none"
    \/ <<cand[s], key[s]>> \in doubtful'

RecordsKept ==
  \A c \in Candidates, k \in AllKeys : audit[c][k] # "none" => audit'[c][k] # "none"

LEMMA KeysKept ==
  ASSUME Basics, KeysOK, messages' = messages, doubtful \subseteq doubtful',
         Fewer, Landed, RecordsKept
  PROVE  KeysOK'
<1> SUFFICES ASSUME NEW c \in Candidates, NEW k \in AllKeys, <<c, k>> \notin doubtful'
             PROVE  /\ \A s, t \in Senders : Carries(s, c)' /\ key'[s] = k /\ Carries(t, c)' /\ key'[t] = k => s = t
                    /\ messages'[c][k] <= 1
                    /\ \A s \in Senders : Carries(s, c)' /\ key'[s] = k /\ ~HasSent(s)' => messages'[c][k] = 0
                    /\ (\A s \in Senders : ~(Carries(s, c)' /\ key'[s] = k)) /\ audit'[c][k] = "none"
                         => messages'[c][k] = 0
  BY DEF KeysOK
<1>1. /\ \A s, t \in Senders : Carries(s, c) /\ key[s] = k /\ Carries(t, c) /\ key[t] = k => s = t
      /\ messages[c][k] <= 1
      /\ \A s \in Senders : Carries(s, c) /\ key[s] = k /\ ~HasSent(s) => messages[c][k] = 0
      /\ (\A s \in Senders : ~(Carries(s, c) /\ key[s] = k)) /\ audit[c][k] = "none"
           => messages[c][k] = 0
  BY DEF KeysOK
<1>2. \A s \in Senders : Carries(s, c)' /\ key'[s] = k => Carries(s, c) /\ key[s] = k
  BY DEF Fewer, Carries
<1>3. \A s \in Senders : Carries(s, c)' /\ ~HasSent(s)' => ~HasSent(s)
  BY DEF Fewer, Carries, HasSent
<1>4. ASSUME \A s \in Senders : ~(Carries(s, c)' /\ key'[s] = k), audit'[c][k] = "none"
      PROVE  messages[c][k] = 0
  <2>1. audit[c][k] = "none"
    BY <1>4 DEF RecordsKept
  <2>2. CASE \E s \in Senders : Carries(s, c) /\ key[s] = k
    <3>1. PICK s \in Senders : Carries(s, c) /\ key[s] = k
      BY <2>2
    <3>2. ~InFlight(s)'
      BY <1>4, <3>1 DEF Fewer, Carries
    <3>3. ~HasSent(s)
      BY <1>4, <3>1, <3>2 DEF Landed, Carries
    <3> QED
      BY <1>1, <3>1, <3>3
  <2>3. CASE \A s \in Senders : ~(Carries(s, c) /\ key[s] = k)
    BY <1>1, <2>1, <2>3
  <2> QED
    BY <2>2, <2>3
<1> QED
  BY <1>1, <1>2, <1>3, <1>4

LEMMA SameFlights == UNCHANGED <<phase, cand, key, answer>> => Fewer /\ Landed
BY DEF Fewer, Landed, InFlight

\* A sender that is not in flight moves, or one that is lands.
LEMMA LeaveFewer == ASSUME Basics, NEW s \in Senders, Leave(s) PROVE Fewer
BY DEF Leave, Fewer, Basics, TypeOK, InFlight

LEMMA LeaveLanded ==
  ASSUME Basics, NEW s \in Senders, Leave(s),
         \/ ~InFlight(s)
         \/ ~HasSent(s)
         \/ audit'[cand[s]][key[s]] # "none"
         \/ <<cand[s], key[s]>> \in doubtful'
  PROVE  Landed
BY DEF Leave, Landed, Basics, TypeOK, InFlight

LEMMA RecordKept ==
  ASSUME Basics, NEW c \in Candidates, NEW k \in AllKeys, NEW d \in Decisions, Record(c, k, d)
  PROVE  RecordsKept
BY DEF Record, RecordsKept, Basics, TypeOK

LEMMA ReturnLeaves == \A s \in Senders, o \in {"done", "failed"} : Return(s, o) => Leave(s)
BY DEF Return

LEMMA AsideBarred == ASSUME Basics, BarredOK, Aside PROVE BarredOK'
<1>1. UNCHANGED <<status, barred, phase, cand>>
  BY AsideFrame DEF locals, ghosts
<1>2. ASSUME NEW c \in Candidates, c \in barred PROVE ~AboutToSend(c)'
  <2>1. ~AboutToSend(c) /\ status[c] # "pending"
    BY <1>2 DEF BarredOK
  <2>2. \A k \in Keys : <<c, k>> \in cards' => <<c, k>> \in cards
    <3>1. ASSUME NEW d \in Candidates, NEW j \in Keys, NEW visible \in SUBSET Candidates, ReadCard(d, j, visible),
                 NEW k \in Keys, <<c, k>> \in cards'
          PROVE  <<c, k>> \in cards
      <4>1. d # c
        BY <2>1, <3>1 DEF ReadCard
      <4> QED
        BY <3>1, <4>1 DEF ReadCard
    <3>2. cards' \subseteq cards \/ \E d \in Candidates, j \in Keys, visible \in SUBSET Candidates :
                                       ReadCard(d, j, visible)
      BY DEF Aside, BeginPurge, AbortPurge, ShowCard, AbortCard, RetrySendJob
    <3> QED
      BY <3>1, <3>2
  <2> QED
    BY <1>1, <2>1, <2>2 DEF AboutToSend
<1> QED
  BY <1>1, <1>2 DEF BarredOK

LEMMA BarredStep == Basics /\ BarredOK /\ [Next]_vars => BarredOK'
<1> SUFFICES ASSUME Basics, BarredOK, [Next]_vars PROVE BarredOK'
  OBVIOUS
<1>1. ASSUME NEW c \in Candidates, Generate(c) PROVE BarredOK'
  BY <1>1, Names, PushConstants DEF Generate, Basics, TypeOK, BusyOK, BarredOK, AboutToSend, ghosts, InFlight, Leave, locals
<1>2. ASSUME NEW c \in Candidates, NEW k \in Keys, Approve(c, k) PROVE BarredOK'
  <2>1. \A d \in Candidates : AboutToSend(d)' = AboutToSend(d)
    BY <1>2 DEF Approve, AboutToSend, locals
  <2> QED
    BY <1>2, <2>1 DEF Approve, Basics, TypeOK, BarredOK, Transition, SetStatus
<1>3. ASSUME NEW c \in Candidates, NEW k \in Keys, Skip(c, k) PROVE BarredOK'
  <2>1. \A d \in Candidates : AboutToSend(d)' = AboutToSend(d)
    BY <1>3 DEF Skip, AboutToSend, locals
  <2> QED
    BY <1>3, <2>1 DEF Skip, Basics, TypeOK, BarredOK, Transition, SetStatus
<1>4. ASSUME NEW c \in Candidates, NEW k \in Keys, AckCard(c, k) PROVE BarredOK'
  BY <1>4, Names, PushConstants DEF AckCard, Basics, TypeOK, BusyOK, BarredOK, AboutToSend, ghosts, InFlight, Leave, locals, SetStatus, Record, Used
<1>5. ASSUME NEW c \in Candidates, NEW k \in Keys, PrepareCard(c, k) PROVE BarredOK'
  BY <1>5, Names, PushConstants DEF PrepareCard, Basics, TypeOK, BusyOK, BarredOK, AboutToSend, ghosts, InFlight, Leave, locals, SetStatus, Record, Used, Sendable, Selected
<1>6. ASSUME NEW c \in Candidates, NEW k \in Keys, NEW u \in Users, NEW p \in Platforms, RequestSend(u, c, k, p) PROVE BarredOK'
  BY <1>6, Names, PushConstants DEF RequestSend, Basics, TypeOK, BusyOK, BarredOK, AboutToSend, ghosts, InFlight, Leave, locals, Enter
<1>7. ASSUME NEW c \in Candidates, NEW e \in Events, ExpireOrphan(c, e) PROVE BarredOK'
  BY <1>7, Names, PushConstants DEF ExpireOrphan, Basics, TypeOK, BusyOK, BarredOK, AboutToSend, ghosts, InFlight, Leave, locals
<1>8. ASSUME NEW c \in Candidates, NEW e \in Events, Overrun(c, e) PROVE BarredOK'
  BY <1>8, Names, PushConstants DEF Overrun, Basics, TypeOK, BusyOK, BarredOK, AboutToSend, ghosts, InFlight, Leave, locals
<1>9. ASSUME NEW e \in Events, CommitPurge(e) PROVE BarredOK'
  <2>1. \A c \in DOMAIN purging[e] : c \in Candidates /\ purging[e][c] \in {"invalid", "skipped"}
    BY <1>9, WithdrawalType DEF CommitPurge, Basics
  <2>2. \A c \in Candidates : AboutToSend(c)' = AboutToSend(c)
    BY <1>9 DEF CommitPurge, AboutToSend, locals
  <2> QED
    BY <1>9, <2>1, <2>2 DEF CommitPurge, BarredOK
<1>10. ASSUME NEW e \in Events, Trigger(e) PROVE BarredOK'
  BY <1>10, Names, PushConstants DEF Trigger, Basics, TypeOK, BusyOK, BarredOK, AboutToSend, ghosts, InFlight, Leave, locals
<1>11. ASSUME NEW w \in Workers, NEW c \in Candidates, NEW e \in Events, TakeSettled(w, c, e) PROVE BarredOK'
  BY <1>11, Names, PushConstants DEF TakeSettled, Basics, TypeOK, BusyOK, BarredOK, AboutToSend, ghosts, InFlight, Leave, locals
<1>12. ASSUME NEW w \in Workers, NEW c \in Candidates, NEW e \in Events, Take(w, c, e) PROVE BarredOK'
  <2>1. c \in barred => ~NeedsApproval(c)
    BY DEF BarredOK, NeedsApproval
  <2>2. \A d \in Candidates : AboutToSend(d)' /\ ~AboutToSend(d) => d = c /\ NeedsApproval(c)
    BY <1>12, Names DEF Take, Enter, AboutToSend, Basics, TypeOK
  <2> QED
    BY <1>12, <2>1, <2>2 DEF Take, BarredOK, ghosts
<1>13. ASSUME NEW w \in Workers, ApprovePending(w) PROVE BarredOK'
  <2>1. AboutToSend(cand[w])
    BY <1>13, Names DEF ApprovePending, AboutToSend
  <2>2. \A d \in Candidates : AboutToSend(d)' => AboutToSend(d)
    BY <1>13 DEF ApprovePending, AboutToSend, Basics, TypeOK
  <2>3. \A d \in Candidates : d # cand[w] => status'[d] = status[d]
    BY <1>13 DEF ApprovePending, SetStatus, Basics, TypeOK
  <2> QED
    BY <1>13, <2>1, <2>2, <2>3 DEF ApprovePending, BarredOK
<1>14. ASSUME NEW s \in Senders, ReplaySend(s) PROVE BarredOK'
  <2>1. Leave(s)
    BY <1>14, ReturnLeaves DEF ReplaySend
  <2> QED
    BY <1>14, <2>1, Names, PushConstants DEF ReplaySend, Basics, TypeOK, BusyOK, BarredOK, AboutToSend, ghosts, InFlight, Leave, locals, Used
<1>15. ASSUME NEW s \in Senders, RefuseSend(s) PROVE BarredOK'
  <2>1. Leave(s)
    BY <1>15, ReturnLeaves DEF RefuseSend
  <2> QED
    BY <1>15, <2>1, Names, PushConstants DEF RefuseSend, Basics, TypeOK, BusyOK, BarredOK, AboutToSend, ghosts, InFlight, Leave, locals, Used, MaySend, Record
<1>16. ASSUME NEW s \in Senders, MissRoute(s) PROVE BarredOK'
  <2>1. Leave(s)
    BY <1>16, ReturnLeaves DEF MissRoute
  <2> QED
    BY <1>16, <2>1, Names, PushConstants DEF MissRoute, Basics, TypeOK, BusyOK, BarredOK, AboutToSend, ghosts, InFlight, Leave, locals
<1>17. ASSUME NEW s \in Senders, BeginSend(s) PROVE BarredOK'
  <2>1. cand[s] \notin barred
    BY <1>17 DEF BeginSend, MaySend, BarredOK, Basics, BusyOK
  <2>2. \A d \in Candidates : d # cand[s] /\ AboutToSend(d)' => AboutToSend(d)
    BY <1>17 DEF BeginSend, AboutToSend, Basics, TypeOK
  <2> QED
    BY <1>17, <2>1, <2>2 DEF BeginSend, BarredOK
<1>18. ASSUME NEW s \in Senders, NEW delivered \in BOOLEAN, Deliver(s, delivered) PROVE BarredOK'
  BY <1>18, Names, PushConstants DEF Deliver, Basics, TypeOK, BusyOK, BarredOK, AboutToSend, ghosts, InFlight, Leave, locals, Message
<1>19. ASSUME NEW s \in Senders, FailToDeliver(s) PROVE BarredOK'
  <2>1. Leave(s)
    BY <1>19, ReturnLeaves DEF FailToDeliver
  <2> QED
    BY <1>19, <2>1, Names, PushConstants DEF FailToDeliver, Basics, TypeOK, BusyOK, BarredOK, AboutToSend, ghosts, InFlight, Leave, locals
<1>20. ASSUME NEW s \in Senders, RecordSend(s) PROVE BarredOK'
  <2>1. Leave(s)
    BY <1>20, ReturnLeaves DEF RecordSend
  <2>2. \A d \in Candidates : AboutToSend(d)' => AboutToSend(d)
    BY <1>20, <2>1 DEF RecordSend, Leave, AboutToSend, Basics, TypeOK
  <2>3. \A d \in Candidates : status'[d] \in {status[d], "sent"}
    BY <1>20 DEF RecordSend, SetStatus, Basics, TypeOK
  <2> QED
    BY <1>20, <2>2, <2>3 DEF RecordSend, BarredOK
<1>21. ASSUME NEW s \in Senders, LoseAnswer(s) PROVE BarredOK'
  <2>1. Leave(s)
    BY <1>21, ReturnLeaves DEF LoseAnswer
  <2> QED
    BY <1>21, <2>1, Names, PushConstants DEF LoseAnswer, Basics, TypeOK, BusyOK, BarredOK, AboutToSend, ghosts, InFlight, Leave, locals, Message, Doubt
<1>22. ASSUME NEW s \in Senders, Crash(s) PROVE BarredOK'
  BY <1>22, Names, PushConstants DEF Crash, Basics, TypeOK, BusyOK, BarredOK, AboutToSend, ghosts, InFlight, Leave, locals, Doubt
<1>23. ASSUME Aside PROVE BarredOK'
  BY <1>23, AsideBarred
<1>90. CASE UNCHANGED vars
  BY <1>90 DEF vars, ghosts, jobs, bounds, Basics, TypeOK, BusyOK, BarredOK, AboutToSend, ghosts, InFlight, locals
<1> QED
  BY <1>1, <1>2, <1>3, <1>4, <1>5, <1>6, <1>7, <1>8, <1>9, <1>10, <1>11, <1>12, <1>13, <1>14, <1>15, <1>16, <1>17, <1>18, <1>19, <1>20, <1>21, <1>22, <1>23, <1>90, NextIsStep DEF Step

LEMMA AsideSent == ASSUME Basics, SentOK, Aside PROVE SentOK'
<1>1. UNCHANGED <<status, sends, acked, phase, cand, answer>>
  BY AsideFrame DEF locals, ghosts
<1>2. \A c \in Candidates, k \in AllKeys : audit'[c][k] = "sent" => audit[c][k] = "sent"
  <2>1. ASSUME NEW d \in Candidates, NEW j \in Keys, Record(d, j, "prepared"), NEW c \in Candidates, NEW k \in AllKeys
        PROVE  audit'[c][k] \in {audit[c][k], "prepared"}
    BY <2>1, Names DEF Record, Basics, TypeOK
  <2> QED
    BY <2>1, AsideFrame
<1> QED
  BY <1>1, <1>2 DEF SentOK, SentWasDelivered, HasSent

LEMMA SentStep == Basics /\ SentOK /\ [Next]_vars => SentOK'
<1> SUFFICES ASSUME Basics, SentOK, [Next]_vars PROVE SentOK'
  OBVIOUS
<1>1. ASSUME NEW c \in Candidates, Generate(c) PROVE SentOK'
  BY <1>1, Names, PushConstants DEF Generate, Basics, TypeOK, BusyOK, SentOK, SentWasDelivered, HasSent, ghosts, InFlight, Leave, locals
<1>2. ASSUME NEW c \in Candidates, NEW k \in Keys, Approve(c, k) PROVE SentOK'
  BY <1>2, Names, PushConstants DEF Approve, Basics, TypeOK, BusyOK, SentOK, SentWasDelivered, HasSent, ghosts, InFlight, Leave, locals, Transition, SetStatus, Record, Used
<1>3. ASSUME NEW c \in Candidates, NEW k \in Keys, Skip(c, k) PROVE SentOK'
  BY <1>3, Names, PushConstants DEF Skip, Basics, TypeOK, BusyOK, SentOK, SentWasDelivered, HasSent, ghosts, InFlight, Leave, locals, Transition, SetStatus, Record, Used
<1>4. ASSUME NEW c \in Candidates, NEW k \in Keys, AckCard(c, k) PROVE SentOK'
  BY <1>4, Names, PushConstants DEF AckCard, Basics, TypeOK, BusyOK, SentOK, SentWasDelivered, HasSent, ghosts, InFlight, Leave, locals, SetStatus, Record, Used
<1>5. ASSUME NEW c \in Candidates, NEW k \in Keys, PrepareCard(c, k) PROVE SentOK'
  BY <1>5, Names, PushConstants DEF PrepareCard, Basics, TypeOK, BusyOK, SentOK, SentWasDelivered, HasSent, ghosts, InFlight, Leave, locals, SetStatus, Record, Used, Sendable, Selected
<1>6. ASSUME NEW c \in Candidates, NEW k \in Keys, NEW u \in Users, NEW p \in Platforms, RequestSend(u, c, k, p) PROVE SentOK'
  BY <1>6, Names, PushConstants DEF RequestSend, Basics, TypeOK, BusyOK, SentOK, SentWasDelivered, HasSent, ghosts, InFlight, Leave, locals, Enter
<1>7. ASSUME NEW c \in Candidates, NEW e \in Events, ExpireOrphan(c, e) PROVE SentOK'
  BY <1>7, Names, PushConstants DEF ExpireOrphan, Basics, TypeOK, BusyOK, SentOK, SentWasDelivered, HasSent, ghosts, InFlight, Leave, locals
<1>8. ASSUME NEW c \in Candidates, NEW e \in Events, Overrun(c, e) PROVE SentOK'
  BY <1>8, Names, PushConstants DEF Overrun, Basics, TypeOK, BusyOK, SentOK, SentWasDelivered, HasSent, ghosts, InFlight, Leave, locals
<1>9. ASSUME NEW e \in Events, CommitPurge(e) PROVE SentOK'
  <2>1. \A c \in Candidates : status'[c] = "sent" => status[c] = "sent"
    BY <1>9, WithdrawalType DEF CommitPurge, Basics
  <2> QED
    BY <1>9, <2>1 DEF CommitPurge, SentOK, SentWasDelivered, HasSent, locals
<1>10. ASSUME NEW e \in Events, Trigger(e) PROVE SentOK'
  BY <1>10, Names, PushConstants DEF Trigger, Basics, TypeOK, BusyOK, SentOK, SentWasDelivered, HasSent, ghosts, InFlight, Leave, locals
<1>11. ASSUME NEW w \in Workers, NEW c \in Candidates, NEW e \in Events, TakeSettled(w, c, e) PROVE SentOK'
  BY <1>11, Names, PushConstants DEF TakeSettled, Basics, TypeOK, BusyOK, SentOK, SentWasDelivered, HasSent, ghosts, InFlight, Leave, locals
<1>12. ASSUME NEW w \in Workers, NEW c \in Candidates, NEW e \in Events, Take(w, c, e) PROVE SentOK'
  BY <1>12, Names, PushConstants DEF Take, Basics, TypeOK, BusyOK, SentOK, SentWasDelivered, HasSent, ghosts, InFlight, Leave, locals, Enter
<1>13. ASSUME NEW w \in Workers, ApprovePending(w) PROVE SentOK'
  <2>1. cand[w] \in Candidates
    BY <1>13, Names DEF ApprovePending, Basics, BusyOK
  <2>2. /\ \A c \in Candidates : status'[c] = "sent" => status[c] = "sent"
        /\ \A c \in Candidates, k \in AllKeys : audit'[c][k] = "sent" => audit[c][k] = "sent"
    <3>1. CASE UNCHANGED <<status, audit>>
      BY <3>1
    <3>2. CASE SetStatus(cand[w], "approved") /\ Record(cand[w], AutoApprove, "approved")
      BY <2>1, <3>2, Names DEF SetStatus, Record, Basics, TypeOK
    <3> QED
      BY <1>13, <3>1, <3>2 DEF ApprovePending
  <2>3. \A s \in Senders : HasSent(s)' => HasSent(s) /\ cand'[s] = cand[s]
    BY <1>13, Names DEF ApprovePending, HasSent, Basics, TypeOK
  <2> QED
    BY <1>13, <2>2, <2>3 DEF ApprovePending, SentOK, SentWasDelivered
<1>14. ASSUME NEW s \in Senders, ReplaySend(s) PROVE SentOK'
  <2>1. Leave(s)
    BY <1>14, ReturnLeaves DEF ReplaySend
  <2> QED
    BY <1>14, <2>1, Names, PushConstants DEF ReplaySend, Basics, TypeOK, BusyOK, SentOK, SentWasDelivered, HasSent, ghosts, InFlight, Leave, locals, Used
<1>15. ASSUME NEW s \in Senders, RefuseSend(s) PROVE SentOK'
  <2>1. Leave(s)
    BY <1>15, ReturnLeaves DEF RefuseSend
  <2> QED
    BY <1>15, <2>1, Names, PushConstants DEF RefuseSend, Basics, TypeOK, BusyOK, SentOK, SentWasDelivered, HasSent, ghosts, InFlight, Leave, locals, Used, MaySend, Record
<1>16. ASSUME NEW s \in Senders, MissRoute(s) PROVE SentOK'
  <2>1. Leave(s)
    BY <1>16, ReturnLeaves DEF MissRoute
  <2> QED
    BY <1>16, <2>1, Names, PushConstants DEF MissRoute, Basics, TypeOK, BusyOK, SentOK, SentWasDelivered, HasSent, ghosts, InFlight, Leave, locals
<1>17. ASSUME NEW s \in Senders, BeginSend(s) PROVE SentOK'
  BY <1>17, Names, PushConstants DEF BeginSend, Basics, TypeOK, BusyOK, SentOK, SentWasDelivered, HasSent, ghosts, InFlight, Leave, locals, Used, MaySend, Beside
<1>18. ASSUME NEW s \in Senders, NEW delivered \in BOOLEAN, Deliver(s, delivered) PROVE SentOK'
  <2>1. cand[s] \in Candidates
    BY <1>18 DEF Deliver, Basics, BusyOK
  <2>7. \A c \in Candidates : sends[c] \in Nat
    BY DEF Basics, TypeOK
  <2>2. \A c \in Candidates : sends[c] > 0 => sends'[c] > 0
    BY <1>18, <2>7, DeliverCounts
  <2>3. HasSent(s)' => sends'[cand[s]] > 0
    BY <1>18, DeliverCounts
  <2>4. UNCHANGED cand /\ \A t \in Senders \ {s} : HasSent(t)' = HasSent(t)
    BY <1>18 DEF Deliver, HasSent, Basics, TypeOK
  <2>5. \A t \in Senders : HasSent(t) => cand[t] \in Candidates
    BY DEF HasSent, Basics, BusyOK
  <2>6. SentWasDelivered'
    BY <1>18, <2>2 DEF Deliver, SentOK, SentWasDelivered
  <2> QED
    BY <2>2, <2>3, <2>4, <2>5, <2>6 DEF SentOK
<1>19. ASSUME NEW s \in Senders, FailToDeliver(s) PROVE SentOK'
  <2>1. Leave(s)
    BY <1>19, ReturnLeaves DEF FailToDeliver
  <2> QED
    BY <1>19, <2>1, Names, PushConstants DEF FailToDeliver, Basics, TypeOK, BusyOK, SentOK, SentWasDelivered, HasSent, ghosts, InFlight, Leave, locals
<1>20. ASSUME NEW s \in Senders, RecordSend(s) PROVE SentOK'
  <2>1. Leave(s)
    BY <1>20, ReturnLeaves DEF RecordSend
  <2> QED
    BY <1>20, <2>1, Names, PushConstants DEF RecordSend, Basics, TypeOK, BusyOK, SentOK, SentWasDelivered, HasSent, ghosts, InFlight, Leave, locals, Record, NowSent, SetStatus
<1>21. ASSUME NEW s \in Senders, LoseAnswer(s) PROVE SentOK'
  <2>1. Leave(s)
    BY <1>21, ReturnLeaves DEF LoseAnswer
  <2> QED
    BY <1>21, <2>1, Names, PushConstants DEF LoseAnswer, Basics, TypeOK, BusyOK, SentOK, SentWasDelivered, HasSent, ghosts, InFlight, Leave, locals, Message, Doubt
<1>22. ASSUME NEW s \in Senders, Crash(s) PROVE SentOK'
  BY <1>22, Names, PushConstants DEF Crash, Basics, TypeOK, BusyOK, SentOK, SentWasDelivered, HasSent, ghosts, InFlight, Leave, locals, Doubt
<1>23. ASSUME Aside PROVE SentOK'
  BY <1>23, AsideSent
<1>90. CASE UNCHANGED vars
  BY <1>90 DEF vars, ghosts, jobs, bounds, Basics, TypeOK, BusyOK, SentOK, SentWasDelivered, HasSent, ghosts, InFlight, locals
<1> QED
  BY <1>1, <1>2, <1>3, <1>4, <1>5, <1>6, <1>7, <1>8, <1>9, <1>10, <1>11, <1>12, <1>13, <1>14, <1>15, <1>16, <1>17, <1>18, <1>19, <1>20, <1>21, <1>22, <1>23, <1>90, NextIsStep DEF Step

LEMMA AsideKeys == ASSUME Basics, KeysOK, Aside PROVE KeysOK'
<1>1. UNCHANGED <<phase, cand, key, answer, messages, doubtful>>
  BY AsideFrame DEF locals, ghosts
<1>2. RecordsKept
  BY AsideFrame, RecordKept, Names DEF RecordsKept, Decisions
<1> QED
  BY <1>1, <1>2, SameFlights, KeysKept

LEMMA KeysStep == Basics /\ KeysOK /\ [Next]_vars => KeysOK'
<1> SUFFICES ASSUME Basics, KeysOK, [Next]_vars PROVE KeysOK'
  OBVIOUS
<1>1. ASSUME NEW c \in Candidates, Generate(c) PROVE KeysOK'
  <2>1. UNCHANGED <<phase, cand, key, answer, audit, messages, doubtful>>
    BY <1>1 DEF Generate, locals, ghosts
  <2> QED
    BY <2>1, SameFlights, KeysKept DEF RecordsKept
<1>2. ASSUME NEW c \in Candidates, NEW k \in Keys, Approve(c, k) PROVE KeysOK'
  <2>1. UNCHANGED <<phase, cand, key, answer, messages, doubtful>>
    BY <1>2 DEF Approve, locals
  <2>2. UNCHANGED audit \/ \E d \in Candidates : Record(d, k, "approved")
    BY <1>2 DEF Approve, Transition, Selected, Listed
  <2>3. RecordsKept
    BY <2>2, Names, RecordKept DEF RecordsKept, Decisions
  <2> QED
    BY <2>1, <2>3, SameFlights, KeysKept
<1>3. ASSUME NEW c \in Candidates, NEW k \in Keys, Skip(c, k) PROVE KeysOK'
  <2>1. UNCHANGED <<phase, cand, key, answer, messages, doubtful>>
    BY <1>3 DEF Skip, locals
  <2>2. UNCHANGED audit \/ \E d \in Candidates : Record(d, k, "skipped")
    BY <1>3 DEF Skip, Transition, Selected, Listed
  <2>3. RecordsKept
    BY <2>2, Names, RecordKept DEF RecordsKept, Decisions
  <2> QED
    BY <2>1, <2>3, SameFlights, KeysKept
<1>4. ASSUME NEW c \in Candidates, NEW k \in Keys, AckCard(c, k) PROVE KeysOK'
  <2>1. UNCHANGED <<phase, cand, key, answer, messages, doubtful>>
    BY <1>4 DEF AckCard, locals
  <2>2. UNCHANGED audit \/ \E d \in Candidates : Record(d, k, "sent")
    BY <1>4 DEF AckCard, Selected, Listed
  <2>3. RecordsKept
    BY <2>2, Names, RecordKept DEF RecordsKept, Decisions
  <2> QED
    BY <2>1, <2>3, SameFlights, KeysKept
<1>5. ASSUME NEW c \in Candidates, NEW k \in Keys, PrepareCard(c, k) PROVE KeysOK'
  <2>1. UNCHANGED <<phase, cand, key, answer, messages, doubtful>>
    BY <1>5 DEF PrepareCard, locals
  <2>2. UNCHANGED audit \/ \E d \in Candidates : Record(d, k, "prepared")
    BY <1>5 DEF PrepareCard, Selected, Listed
  <2>3. RecordsKept
    BY <2>2, Names, RecordKept DEF RecordsKept, Decisions
  <2> QED
    BY <2>1, <2>3, SameFlights, KeysKept
<1>6. ASSUME NEW c \in Candidates, NEW k \in Keys, NEW u \in Users, NEW p \in Platforms, RequestSend(u, c, k, p) PROVE KeysOK'
  <2>1. UNCHANGED <<audit, messages, doubtful>>
    BY <1>6 DEF RequestSend, ghosts
  <2>2. Fewer /\ Landed
    BY <1>6, Names DEF RequestSend, Enter, Fewer, Landed, InFlight, Basics, TypeOK
  <2> QED
    BY <2>1, <2>2, KeysKept DEF RecordsKept
<1>7. ASSUME NEW c \in Candidates, NEW e \in Events, ExpireOrphan(c, e) PROVE KeysOK'
  <2>1. UNCHANGED <<phase, cand, key, answer, audit, messages, doubtful>>
    BY <1>7 DEF ExpireOrphan, locals, ghosts
  <2> QED
    BY <2>1, SameFlights, KeysKept DEF RecordsKept
<1>8. ASSUME NEW c \in Candidates, NEW e \in Events, Overrun(c, e) PROVE KeysOK'
  <2>1. UNCHANGED <<phase, cand, key, answer, audit, messages, doubtful>>
    BY <1>8 DEF Overrun, locals, ghosts
  <2> QED
    BY <2>1, SameFlights, KeysKept DEF RecordsKept
<1>9. ASSUME NEW e \in Events, CommitPurge(e) PROVE KeysOK'
  <2>1. UNCHANGED <<phase, cand, key, answer, audit, messages, doubtful>>
    BY <1>9 DEF CommitPurge, locals, ghosts
  <2> QED
    BY <2>1, SameFlights, KeysKept DEF RecordsKept
<1>10. ASSUME NEW e \in Events, Trigger(e) PROVE KeysOK'
  <2>1. UNCHANGED <<phase, cand, key, answer, audit, messages, doubtful>>
    BY <1>10 DEF Trigger, locals, ghosts
  <2> QED
    BY <2>1, SameFlights, KeysKept DEF RecordsKept
<1>11. ASSUME NEW w \in Workers, NEW c \in Candidates, NEW e \in Events, TakeSettled(w, c, e) PROVE KeysOK'
  <2>1. UNCHANGED <<phase, cand, key, answer, audit, messages, doubtful>>
    BY <1>11 DEF TakeSettled, locals, ghosts
  <2> QED
    BY <2>1, SameFlights, KeysKept DEF RecordsKept
<1>12. ASSUME NEW w \in Workers, NEW c \in Candidates, NEW e \in Events, Take(w, c, e) PROVE KeysOK'
  <2>1. UNCHANGED <<audit, messages, doubtful>>
    BY <1>12 DEF Take, ghosts
  <2>2. Fewer /\ Landed
    BY <1>12, Names DEF Take, Enter, Fewer, Landed, InFlight, Basics, TypeOK
  <2> QED
    BY <2>1, <2>2, KeysKept DEF RecordsKept
<1>13. ASSUME NEW w \in Workers, ApprovePending(w) PROVE KeysOK'
  <2>1. cand[w] \in Candidates
    BY <1>13, Names DEF ApprovePending, Basics, BusyOK
  <2>2. UNCHANGED <<messages, doubtful>>
    BY <1>13 DEF ApprovePending
  <2>3. RecordsKept
    BY <1>13, <2>1, Names, RecordKept DEF ApprovePending, Transition, RecordsKept, Decisions
  <2>4. Fewer /\ Landed
    BY <1>13, Names DEF ApprovePending, Fewer, Landed, InFlight, Basics, TypeOK
  <2> QED
    BY <2>2, <2>3, <2>4, KeysKept
<1>14. ASSUME NEW s \in Senders, ReplaySend(s) PROVE KeysOK'
  <2>1. Leave(s)
    BY <1>14, ReturnLeaves DEF ReplaySend
  <2>2. UNCHANGED <<audit, messages, doubtful>>
    BY <1>14 DEF ReplaySend, ghosts
  <2>5. RecordsKept
    BY <2>2 DEF RecordsKept
  <2>6. Fewer /\ Landed
    BY <1>14, <2>1, LeaveFewer, LeaveLanded DEF ReplaySend, InFlight, HasSent
  <2> QED
    BY <2>2, <2>5, <2>6, KeysKept
<1>15. ASSUME NEW s \in Senders, RefuseSend(s) PROVE KeysOK'
  <2>1. Leave(s)
    BY <1>15, ReturnLeaves DEF RefuseSend
  <2>2. UNCHANGED <<messages, doubtful>>
    BY <1>15 DEF RefuseSend, ghosts
  <2>3. cand[s] \in Candidates /\ key[s] \in AllKeys
    BY <1>15 DEF RefuseSend, Basics, BusyOK
  <2>4. PICK d \in Decisions \ {"none"} : Record(cand[s], key[s], d)
    BY <1>15 DEF RefuseSend, Decisions
  <2>5. RecordsKept /\ audit'[cand[s]][key[s]] # "none"
    BY <2>3, <2>4, RecordKept DEF Record, Basics, TypeOK
  <2>6. Fewer /\ Landed
    BY <1>15, <2>1, <2>5, LeaveFewer, LeaveLanded DEF RefuseSend, InFlight, HasSent
  <2> QED
    BY <2>2, <2>5, <2>6, KeysKept
<1>16. ASSUME NEW s \in Senders, MissRoute(s) PROVE KeysOK'
  <2>1. Leave(s)
    BY <1>16, ReturnLeaves DEF MissRoute
  <2>2. UNCHANGED <<audit, messages, doubtful>>
    BY <1>16 DEF MissRoute, ghosts
  <2>5. RecordsKept
    BY <2>2 DEF RecordsKept
  <2>6. Fewer /\ Landed
    BY <1>16, <2>1, LeaveFewer, LeaveLanded DEF MissRoute, InFlight, HasSent
  <2> QED
    BY <2>2, <2>5, <2>6, KeysKept
<1>17. ASSUME NEW s \in Senders, BeginSend(s) PROVE KeysOK'
  <2>1. /\ cand[s] \in Candidates /\ key[s] \in AllKeys
        /\ ~InFlight(s) /\ audit[cand[s]][key[s]] = "none"
        /\ UNCHANGED <<cand, key, answer, audit, messages>>
        /\ phase' = [phase EXCEPT ![s] = "sending"]
        /\ doubtful \subseteq doubtful'
        /\ (\E t \in Beside(s) : key[t] = key[s]) => <<cand[s], key[s]>> \in doubtful'
    BY <1>17 DEF BeginSend, Basics, BusyOK, InFlight, Used
  <2>2. \A t \in Senders \ {s} : /\ \A c \in Candidates : Carries(t, c)' = Carries(t, c)
                                /\ HasSent(t)' = HasSent(t)
    BY <2>1 DEF Carries, InFlight, HasSent, Basics, TypeOK
  <2>3. \A c \in Candidates : ~Carries(s, c) /\ (Carries(s, c)' <=> c = cand[s])
    BY <2>1 DEF Carries, InFlight, Basics, TypeOK
  <2> SUFFICES ASSUME NEW c \in Candidates, NEW k \in AllKeys, <<c, k>> \notin doubtful'
               PROVE  /\ \A t, v \in Senders : Carries(t, c)' /\ key[t] = k /\ Carries(v, c)' /\ key[v] = k => t = v
                      /\ messages[c][k] <= 1
                      /\ \A t \in Senders : Carries(t, c)' /\ key[t] = k /\ ~HasSent(t)' => messages[c][k] = 0
                      /\ (\A t \in Senders : ~(Carries(t, c)' /\ key[t] = k)) /\ audit[c][k] = "none"
                           => messages[c][k] = 0
    BY <2>1 DEF KeysOK
  <2>4. /\ \A t, v \in Senders : Carries(t, c) /\ key[t] = k /\ Carries(v, c) /\ key[v] = k => t = v
        /\ messages[c][k] <= 1
        /\ \A t \in Senders : Carries(t, c) /\ key[t] = k /\ ~HasSent(t) => messages[c][k] = 0
        /\ (\A t \in Senders : ~(Carries(t, c) /\ key[t] = k)) /\ audit[c][k] = "none"
             => messages[c][k] = 0
    BY <2>1 DEF KeysOK
  <2>5. CASE c = cand[s] /\ k = key[s]
    <3>1. \A t \in Senders : ~(Carries(t, c) /\ key[t] = k)
      BY <2>1, <2>3, <2>5 DEF Carries, Beside
    <3> QED
      BY <2>1, <2>2, <2>4, <2>5, <3>1
  <2>6. CASE ~(c = cand[s] /\ k = key[s])
    BY <2>2, <2>3, <2>4, <2>6
  <2> QED
    BY <2>5, <2>6
<1>18. ASSUME NEW s \in Senders, NEW delivered \in BOOLEAN, Deliver(s, delivered) PROVE KeysOK'
  <2>1. /\ cand[s] \in Candidates /\ key[s] \in AllKeys /\ phase[s] = "sending"
        /\ UNCHANGED <<cand, key, audit, doubtful>>
        /\ phase' = [phase EXCEPT ![s] = "record"] /\ answer' = [answer EXCEPT ![s] = delivered]
    BY <1>18 DEF Deliver, Basics, BusyOK
  <2>2. \A c \in Candidates, k \in AllKeys :
          messages'[c][k] = IF delivered /\ c = cand[s] /\ k = key[s] THEN messages[c][k] + 1 ELSE messages[c][k]
    BY <1>18, DeliverCounts
  <2>3. \A t \in Senders, c \in Candidates : Carries(t, c)' = Carries(t, c)
    BY <2>1 DEF Carries, InFlight, Basics, TypeOK
  <2>4. /\ \A t \in Senders \ {s} : HasSent(t)' = HasSent(t)
        /\ ~HasSent(s) /\ HasSent(s)' = delivered /\ Carries(s, cand[s])
    BY <2>1 DEF Carries, InFlight, HasSent, Basics, TypeOK
  <2>5. \A c \in Candidates, k \in AllKeys : messages[c][k] \in Nat
    BY DEF Basics, TypeOK
  <2> SUFFICES ASSUME NEW c \in Candidates, NEW k \in AllKeys, <<c, k>> \notin doubtful
               PROVE  /\ \A t, v \in Senders : Carries(t, c)' /\ key[t] = k /\ Carries(v, c)' /\ key[v] = k => t = v
                      /\ messages'[c][k] <= 1
                      /\ \A t \in Senders : Carries(t, c)' /\ key[t] = k /\ ~HasSent(t)' => messages'[c][k] = 0
                      /\ (\A t \in Senders : ~(Carries(t, c)' /\ key[t] = k)) /\ audit[c][k] = "none"
                           => messages'[c][k] = 0
    BY <2>1 DEF KeysOK
  <2>6. /\ \A t, v \in Senders : Carries(t, c) /\ key[t] = k /\ Carries(v, c) /\ key[v] = k => t = v
        /\ messages[c][k] <= 1
        /\ \A t \in Senders : Carries(t, c) /\ key[t] = k /\ ~HasSent(t) => messages[c][k] = 0
        /\ (\A t \in Senders : ~(Carries(t, c) /\ key[t] = k)) /\ audit[c][k] = "none"
             => messages[c][k] = 0
    BY DEF KeysOK
  <2>7. CASE c = cand[s] /\ k = key[s]
    <3>1. messages[c][k] = 0
      BY <2>4, <2>6, <2>7
    <3>2. messages'[c][k] <= 1 /\ (~delivered => messages'[c][k] = 0)
      BY <2>2, <2>7, <3>1
    <3> QED
      BY <2>3, <2>4, <2>6, <2>7, <3>2
  <2>8. CASE ~(c = cand[s] /\ k = key[s])
    <3>1. messages'[c][k] = messages[c][k]
      BY <2>2, <2>8
    <3> QED
      BY <2>3, <2>4, <2>6, <2>8, <3>1
  <2> QED
    BY <2>7, <2>8
<1>19. ASSUME NEW s \in Senders, FailToDeliver(s) PROVE KeysOK'
  <2>1. Leave(s)
    BY <1>19, ReturnLeaves DEF FailToDeliver
  <2>2. UNCHANGED <<audit, messages, doubtful>>
    BY <1>19 DEF FailToDeliver, ghosts
  <2>5. RecordsKept
    BY <2>2 DEF RecordsKept
  <2>6. Fewer /\ Landed
    BY <1>19, <2>1, LeaveFewer, LeaveLanded DEF FailToDeliver, InFlight, HasSent
  <2> QED
    BY <2>2, <2>5, <2>6, KeysKept
<1>20. ASSUME NEW s \in Senders, RecordSend(s) PROVE KeysOK'
  <2>1. Leave(s)
    BY <1>20, ReturnLeaves DEF RecordSend
  <2>2. UNCHANGED <<messages, doubtful>>
    BY <1>20 DEF RecordSend, ghosts
  <2>3. cand[s] \in Candidates /\ key[s] \in AllKeys
    BY <1>20 DEF RecordSend, Basics, BusyOK
  <2>4. PICK d \in Decisions \ {"none"} : Record(cand[s], key[s], d)
    BY <1>20 DEF RecordSend, Decisions
  <2>5. RecordsKept /\ audit'[cand[s]][key[s]] # "none"
    BY <2>3, <2>4, RecordKept DEF Record, Basics, TypeOK
  <2>6. Fewer /\ Landed
    BY <1>20, <2>1, <2>5, LeaveFewer, LeaveLanded DEF RecordSend, InFlight, HasSent
  <2> QED
    BY <2>2, <2>5, <2>6, KeysKept
<1>21. ASSUME NEW s \in Senders, LoseAnswer(s) PROVE KeysOK'
  <2>1. /\ cand[s] \in Candidates /\ key[s] \in AllKeys /\ phase[s] = "sending"
        /\ UNCHANGED audit /\ doubtful' = doubtful \cup {<<cand[s], key[s]>>}
    BY <1>21 DEF LoseAnswer, Doubt, Basics, BusyOK
  <2>2. \A c \in Candidates, k \in AllKeys : <<c, k>> \notin doubtful' => messages'[c][k] = messages[c][k]
    BY <1>21, <2>1 DEF LoseAnswer, Message, Basics, TypeOK
  <2>3. Leave(s)
    BY <1>21, ReturnLeaves DEF LoseAnswer
  <2>4. \A t \in Senders, c \in Candidates :
          Carries(t, c)' => t # s /\ Carries(t, c) /\ key'[t] = key[t] /\ HasSent(t)' = HasSent(t)
    BY <2>3 DEF Leave, Carries, HasSent, InFlight, Basics, TypeOK
  <2>5. \A t \in Senders, c \in Candidates :
          t # s /\ Carries(t, c) => Carries(t, c)' /\ key'[t] = key[t]
    BY <2>3 DEF Leave, Carries, InFlight, Basics, TypeOK
  <2> SUFFICES ASSUME NEW c \in Candidates, NEW k \in AllKeys, <<c, k>> \notin doubtful'
               PROVE  /\ \A t, v \in Senders : Carries(t, c)' /\ key'[t] = k /\ Carries(v, c)' /\ key'[v] = k => t = v
                      /\ messages'[c][k] <= 1
                      /\ \A t \in Senders : Carries(t, c)' /\ key'[t] = k /\ ~HasSent(t)' => messages'[c][k] = 0
                      /\ (\A t \in Senders : ~(Carries(t, c)' /\ key'[t] = k)) /\ audit'[c][k] = "none"
                           => messages'[c][k] = 0
    BY DEF KeysOK
  <2>6. /\ \A t, v \in Senders : Carries(t, c) /\ key[t] = k /\ Carries(v, c) /\ key[v] = k => t = v
        /\ messages[c][k] <= 1
        /\ \A t \in Senders : Carries(t, c) /\ key[t] = k /\ ~HasSent(t) => messages[c][k] = 0
        /\ (\A t \in Senders : ~(Carries(t, c) /\ key[t] = k)) /\ audit[c][k] = "none"
             => messages[c][k] = 0
    BY <2>1 DEF KeysOK
  <2>7. ~(Carries(s, c) /\ key[s] = k)
    BY <2>1 DEF Carries
  <2>8. messages'[c][k] = messages[c][k] /\ audit'[c][k] = audit[c][k]
    BY <2>1, <2>2
  <2> QED
    BY <2>4, <2>5, <2>6, <2>7, <2>8
<1>22. ASSUME NEW s \in Senders, Crash(s) PROVE KeysOK'
  <2>1. Leave(s) /\ UNCHANGED <<messages, audit>> /\ doubtful \subseteq doubtful'
    BY <1>22 DEF Crash, Doubt
  <2>2. HasSent(s) => <<cand[s], key[s]>> \in doubtful'
    BY <1>22 DEF Crash, Doubt, HasSent
  <2>3. Fewer /\ Landed
    BY <2>1, <2>2, LeaveFewer, LeaveLanded
  <2> QED
    BY <2>1, <2>3, KeysKept DEF RecordsKept
<1>23. ASSUME Aside PROVE KeysOK'
  BY <1>23, AsideKeys
<1>90. CASE UNCHANGED vars
  BY <1>90, SameFlights, KeysKept DEF vars, locals, ghosts, RecordsKept
<1> QED
  BY <1>1, <1>2, <1>3, <1>4, <1>5, <1>6, <1>7, <1>8, <1>9, <1>10, <1>11, <1>12, <1>13, <1>14, <1>15, <1>16, <1>17, <1>18, <1>19, <1>20, <1>21, <1>22, <1>23, <1>90, NextIsStep DEF Step

LEMMA AsideApprovals == ASSUME ApprovalsOK, Aside PROVE ApprovalsOK'
<1>1. UNCHANGED <<status, approvals, sends, crowded, phase, cand, answer>>
  BY AsideFrame DEF locals, ghosts
<1> QED
  BY <1>1 DEF ApprovalsOK, Carries, HasSent, InFlight

LEMMA ApprovalsStep == Basics /\ ApprovalsOK /\ [Next]_vars => ApprovalsOK'
<1> SUFFICES ASSUME Basics, ApprovalsOK, [Next]_vars PROVE ApprovalsOK'
  OBVIOUS
<1>1. ASSUME NEW c \in Candidates, Generate(c) PROVE ApprovalsOK'
  BY <1>1, Names, PushConstants DEF Generate, Basics, TypeOK, BusyOK, ApprovalsOK, Carries, HasSent, ghosts, InFlight, Leave, locals
<1>2. ASSUME NEW c \in Candidates, NEW k \in Keys, Approve(c, k) PROVE ApprovalsOK'
  BY <1>2, Names, PushConstants DEF Approve, Basics, TypeOK, BusyOK, ApprovalsOK, Carries, HasSent, ghosts, InFlight, Leave, locals, Transition, SetStatus, Record, Used
<1>3. ASSUME NEW c \in Candidates, NEW k \in Keys, Skip(c, k) PROVE ApprovalsOK'
  <2>1. UNCHANGED <<phase, cand, answer, sends, crowded>>
    BY <1>3 DEF Skip, locals
  <2>2. \A d \in Candidates : /\ approvals'[d] = approvals[d]
                              /\ status'[d] = "approved" => status[d] = "approved"
    BY <1>3 DEF Skip, Transition, SetStatus, Basics, TypeOK
  <2> QED
    BY <2>1, <2>2 DEF ApprovalsOK, Carries, HasSent, InFlight
<1>4. ASSUME NEW c \in Candidates, NEW k \in Keys, AckCard(c, k) PROVE ApprovalsOK'
  BY <1>4, Names, PushConstants DEF AckCard, Basics, TypeOK, BusyOK, ApprovalsOK, Carries, HasSent, ghosts, InFlight, Leave, locals, SetStatus, Record, Used
<1>5. ASSUME NEW c \in Candidates, NEW k \in Keys, PrepareCard(c, k) PROVE ApprovalsOK'
  BY <1>5, Names, PushConstants DEF PrepareCard, Basics, TypeOK, BusyOK, ApprovalsOK, Carries, HasSent, ghosts, InFlight, Leave, locals, SetStatus, Record, Used, Sendable, Selected
<1>6. ASSUME NEW c \in Candidates, NEW k \in Keys, NEW u \in Users, NEW p \in Platforms, RequestSend(u, c, k, p) PROVE ApprovalsOK'
  BY <1>6, Names, PushConstants DEF RequestSend, Basics, TypeOK, BusyOK, ApprovalsOK, Carries, HasSent, ghosts, InFlight, Leave, locals, Enter
<1>7. ASSUME NEW c \in Candidates, NEW e \in Events, ExpireOrphan(c, e) PROVE ApprovalsOK'
  BY <1>7, Names, PushConstants DEF ExpireOrphan, Basics, TypeOK, BusyOK, ApprovalsOK, Carries, HasSent, ghosts, InFlight, Leave, locals
<1>8. ASSUME NEW c \in Candidates, NEW e \in Events, Overrun(c, e) PROVE ApprovalsOK'
  BY <1>8, Names, PushConstants DEF Overrun, Basics, TypeOK, BusyOK, ApprovalsOK, Carries, HasSent, ghosts, InFlight, Leave, locals
<1>9. ASSUME NEW e \in Events, CommitPurge(e) PROVE ApprovalsOK'
  <2>1. \A c \in Candidates : status'[c] = "approved" => status[c] = "approved"
    BY <1>9, WithdrawalType DEF CommitPurge, Basics
  <2> QED
    BY <1>9, <2>1 DEF CommitPurge, ApprovalsOK, Carries, HasSent, InFlight, locals
<1>10. ASSUME NEW e \in Events, Trigger(e) PROVE ApprovalsOK'
  BY <1>10, Names, PushConstants DEF Trigger, Basics, TypeOK, BusyOK, ApprovalsOK, Carries, HasSent, ghosts, InFlight, Leave, locals
<1>11. ASSUME NEW w \in Workers, NEW c \in Candidates, NEW e \in Events, TakeSettled(w, c, e) PROVE ApprovalsOK'
  BY <1>11, Names, PushConstants DEF TakeSettled, Basics, TypeOK, BusyOK, ApprovalsOK, Carries, HasSent, ghosts, InFlight, Leave, locals
<1>12. ASSUME NEW w \in Workers, NEW c \in Candidates, NEW e \in Events, Take(w, c, e) PROVE ApprovalsOK'
  BY <1>12, Names, PushConstants DEF Take, Basics, TypeOK, BusyOK, ApprovalsOK, Carries, HasSent, ghosts, InFlight, Leave, locals, Enter
<1>13. ASSUME NEW w \in Workers, ApprovePending(w) PROVE ApprovalsOK'
  BY <1>13, Names, PushConstants DEF ApprovePending, Basics, TypeOK, BusyOK, ApprovalsOK, Carries, HasSent, ghosts, InFlight, Leave, locals, Transition, SetStatus, Record, Used
<1>14. ASSUME NEW s \in Senders, ReplaySend(s) PROVE ApprovalsOK'
  <2>1. Leave(s)
    BY <1>14, ReturnLeaves DEF ReplaySend
  <2> QED
    BY <1>14, <2>1, Names, PushConstants DEF ReplaySend, Basics, TypeOK, BusyOK, ApprovalsOK, Carries, HasSent, ghosts, InFlight, Leave, locals, Used
<1>15. ASSUME NEW s \in Senders, RefuseSend(s) PROVE ApprovalsOK'
  <2>1. Leave(s)
    BY <1>15, ReturnLeaves DEF RefuseSend
  <2> QED
    BY <1>15, <2>1, Names, PushConstants DEF RefuseSend, Basics, TypeOK, BusyOK, ApprovalsOK, Carries, HasSent, ghosts, InFlight, Leave, locals, Used, MaySend, Record
<1>16. ASSUME NEW s \in Senders, MissRoute(s) PROVE ApprovalsOK'
  <2>1. Leave(s)
    BY <1>16, ReturnLeaves DEF MissRoute
  <2> QED
    BY <1>16, <2>1, Names, PushConstants DEF MissRoute, Basics, TypeOK, BusyOK, ApprovalsOK, Carries, HasSent, ghosts, InFlight, Leave, locals
<1>17. ASSUME NEW s \in Senders, BeginSend(s) PROVE ApprovalsOK'
  BY <1>17, Names, PushConstants DEF BeginSend, Basics, TypeOK, BusyOK, ApprovalsOK, Carries, HasSent, ghosts, InFlight, Leave, locals, Used, MaySend, Beside
<1>18. ASSUME NEW s \in Senders, NEW delivered \in BOOLEAN, Deliver(s, delivered) PROVE ApprovalsOK'
  <2>1. /\ cand[s] \in Candidates /\ phase[s] = "sending"
        /\ UNCHANGED <<status, cand, approvals, crowded>>
        /\ phase' = [phase EXCEPT ![s] = "record"] /\ answer' = [answer EXCEPT ![s] = delivered]
    BY <1>18 DEF Deliver, Basics, BusyOK
  <2>2. \A c \in Candidates : /\ sends[c] \in Nat /\ approvals[c] \in Nat
                              /\ sends'[c] = IF delivered /\ c = cand[s] THEN sends[c] + 1 ELSE sends[c]
    BY <1>18, DeliverCounts DEF Basics, TypeOK
  <2>3. \A t \in Senders, c \in Candidates : Carries(t, c)' = Carries(t, c)
    BY <2>1 DEF Carries, InFlight, Basics, TypeOK
  <2>4. /\ \A t \in Senders \ {s} : HasSent(t)' = HasSent(t)
        /\ ~HasSent(s) /\ HasSent(s)' = delivered /\ Carries(s, cand[s])
    BY <2>1 DEF Carries, InFlight, HasSent, Basics, TypeOK
  <2> SUFFICES ASSUME NEW c \in Candidates, c \notin crowded
               PROVE  /\ \A t, v \in Senders : Carries(t, c)' /\ Carries(v, c)' => t = v
                      /\ sends'[c] <= approvals[c]
                      /\ \A t \in Senders : Carries(t, c)' /\ ~HasSent(t)' => sends'[c] < approvals[c]
                      /\ (\A t \in Senders : ~Carries(t, c)') /\ status[c] = "approved" => sends'[c] < approvals[c]
    BY <2>1 DEF ApprovalsOK
  <2>5. /\ \A t, v \in Senders : Carries(t, c) /\ Carries(v, c) => t = v
        /\ sends[c] <= approvals[c]
        /\ \A t \in Senders : Carries(t, c) /\ ~HasSent(t) => sends[c] < approvals[c]
        /\ (\A t \in Senders : ~Carries(t, c)) /\ status[c] = "approved" => sends[c] < approvals[c]
    BY DEF ApprovalsOK
  <2>6. CASE c = cand[s]
    <3>1. sends[c] < approvals[c]
      BY <2>4, <2>5, <2>6
    <3>2. sends'[c] <= approvals[c] /\ (~delivered => sends'[c] < approvals[c])
      BY <2>2, <2>6, <3>1
    <3> QED
      BY <2>3, <2>4, <2>5, <2>6, <3>2
  <2>7. CASE c # cand[s]
    <3>1. sends'[c] = sends[c]
      BY <2>2, <2>7
    <3>2. ~Carries(s, c)
      BY <2>7 DEF Carries
    <3> QED
      BY <2>3, <2>4, <2>5, <3>1, <3>2
  <2> QED
    BY <2>6, <2>7
<1>19. ASSUME NEW s \in Senders, FailToDeliver(s) PROVE ApprovalsOK'
  <2>1. Leave(s)
    BY <1>19, ReturnLeaves DEF FailToDeliver
  <2> QED
    BY <1>19, <2>1, Names, PushConstants DEF FailToDeliver, Basics, TypeOK, BusyOK, ApprovalsOK, Carries, HasSent, ghosts, InFlight, Leave, locals
<1>20. ASSUME NEW s \in Senders, RecordSend(s) PROVE ApprovalsOK'
  <2>1. Leave(s) /\ cand[s] \in Candidates /\ phase[s] = "record" /\ UNCHANGED <<sends, crowded>>
    BY <1>20, ReturnLeaves DEF RecordSend, Basics, BusyOK
  <2>2. \A d \in Candidates : /\ approvals'[d] = approvals[d]
                              /\ status'[d] = IF HasSent(s) /\ d = cand[s] THEN "sent" ELSE status[d]
    BY <1>20, <2>1 DEF RecordSend, NowSent, HasSent, SetStatus, Basics, TypeOK
  <2>3. \A t \in Senders, c \in Candidates :
          /\ Carries(t, c)' <=> t # s /\ Carries(t, c)
          /\ Carries(t, c)' => HasSent(t)' = HasSent(t)
    BY <2>1 DEF Leave, Carries, HasSent, InFlight, Basics, TypeOK
  <2>4. \A c \in Candidates : Carries(s, c) <=> c = cand[s]
    BY <2>1 DEF Carries, InFlight
  <2> QED
    BY <2>1, <2>2, <2>3, <2>4 DEF ApprovalsOK
<1>21. ASSUME NEW s \in Senders, LoseAnswer(s) PROVE ApprovalsOK'
  <2>1. Leave(s)
    BY <1>21, ReturnLeaves DEF LoseAnswer
  <2> QED
    BY <1>21, <2>1, Names, PushConstants DEF LoseAnswer, Basics, TypeOK, BusyOK, ApprovalsOK, Carries, HasSent, ghosts, InFlight, Leave, locals, Message, Doubt
<1>22. ASSUME NEW s \in Senders, Crash(s) PROVE ApprovalsOK'
  BY <1>22, Names, PushConstants DEF Crash, Basics, TypeOK, BusyOK, ApprovalsOK, Carries, HasSent, ghosts, InFlight, Leave, locals, Doubt
<1>23. ASSUME Aside PROVE ApprovalsOK'
  BY <1>23, AsideApprovals
<1>90. CASE UNCHANGED vars
  BY <1>90 DEF vars, ghosts, jobs, bounds, Basics, TypeOK, BusyOK, ApprovalsOK, Carries, HasSent, ghosts, InFlight, locals
<1> QED
  BY <1>1, <1>2, <1>3, <1>4, <1>5, <1>6, <1>7, <1>8, <1>9, <1>10, <1>11, <1>12, <1>13, <1>14, <1>15, <1>16, <1>17, <1>18, <1>19, <1>20, <1>21, <1>22, <1>23, <1>90, NextIsStep DEF Step

-----------------------------------------------------------------------------
(* The theorems.                                                             *)

IInv == Basics /\ BarredOK /\ SentOK /\ KeysOK /\ ApprovalsOK

LEMMA IInvInit == Init => IInv
<1> SUFFICES ASSUME Init PROVE IInv
  OBVIOUS
<1>1. BarredOK /\ SentOK
  BY PushConstants DEF Init, BarredOK, SentOK, SentWasDelivered, HasSent, AboutToSend
<1>2. \A s \in Senders : ~InFlight(s)
  BY DEF Init, InFlight
<1>3. KeysOK
  BY <1>2 DEF Init, KeysOK, Carries
<1>4. ApprovalsOK
  BY <1>2 DEF Init, ApprovalsOK, Carries
<1> QED
  BY <1>1, <1>3, <1>4, BasicsInit DEF IInv

LEMMA IInvStep == IInv /\ [Next]_vars => IInv'
BY BasicsStep, BarredStep, SentStep, KeysStep, ApprovalsStep DEF IInv

\* The inductive invariant behind the theorems that follow.
THEOREM Invariance == Spec => []IInv
<1> QED
  BY IInvInit, IInvStep, PTL DEF Spec

\* The rows, the senders and the records are what they should be.
THEOREM TypeCorrect == Spec => []TypeOK
<1>1. IInv => TypeOK
  BY DEF IInv, Basics
<1> QED
  BY <1>1, Invariance, PTL

\* One key sends one message, for any number of candidates, keys, lanes, users
\* and repetitions of requests and jobs.
THEOREM KeySendsOnce == Spec => []OncePerKey
<1>1. IInv => OncePerKey
  BY DEF IInv, KeysOK, OncePerKey
<1> QED
  BY <1>1, Invariance, PTL

\* A message needs an approval of its own.
THEOREM ApprovalSendsOnce == Spec => []OneMessagePerApproval
<1>1. IInv => OneMessagePerApproval
  BY DEF IInv, ApprovalsOK, OneMessagePerApproval
<1> QED
  BY <1>1, Invariance, PTL

\* What is shown as sent was sent.
THEOREM SentIsTrue == Spec => []SentWasDelivered
<1>1. IInv => SentWasDelivered
  BY DEF IInv, SentOK
<1> QED
  BY <1>1, Invariance, PTL

\* What was withdrawn is not sent.
THEOREM WithdrawnStays == Spec => WithdrawnIsNotSent
<1>1. ASSUME IInv, Next
      PROVE  \A c \in Candidates : c \in barred => sends'[c] = sends[c]
  <2> SUFFICES ASSUME NEW c \in Candidates, c \in barred PROVE sends'[c] = sends[c]
    OBVIOUS
  <2>1. ~AboutToSend(c)
    BY <1>1 DEF IInv, BarredOK
  <2>2. ASSUME NEW s \in Senders, phase[s] = "sending", Message(cand[s], key[s])
        PROVE  sends'[c] = sends[c]
    <3>1. cand[s] # c
      BY <2>1, <2>2 DEF AboutToSend
    <3> QED
      BY <2>2, <3>1, <1>1 DEF Message, IInv, Basics, TypeOK
  <2>3. ASSUME NEW s \in Senders, NEW delivered \in BOOLEAN, Deliver(s, delivered)
        PROVE  sends'[c] = sends[c]
    BY <2>3, <2>2 DEF Deliver
  <2>4. ASSUME NEW s \in Senders, LoseAnswer(s) PROVE sends'[c] = sends[c]
    BY <2>4, <2>2 DEF LoseAnswer
  <2>5. CASE UNCHANGED sends
    BY <2>5
  <2>6. UNCHANGED sends \/ (\E s \in Senders : LoseAnswer(s) \/ \E delivered \in BOOLEAN : Deliver(s, delivered))
    BY <1>1, NextIsStep, AsideFrame DEF Step, ghosts, Generate, Approve, Skip, AckCard, PrepareCard, RequestSend,
       ExpireOrphan, Overrun, CommitPurge, Trigger, TakeSettled, Take, ApprovePending, ReplaySend,
       RefuseSend, MissRoute, BeginSend, FailToDeliver, RecordSend, Crash
  <2> QED
    BY <2>3, <2>4, <2>5, <2>6
<1>2. IInv /\ [Next]_vars => [\A c \in Candidates : c \in barred => sends'[c] = sends[c]]_vars
  BY <1>1
<1> QED
  BY <1>2, Invariance, PTL DEF Spec, WithdrawnIsNotSent

-----------------------------------------------------------------------------
(* Why send jobs end.                                                        *)

\* What makes a send job superfluous.
Settled(c) ==
  \/ sends[c] > 0 \/ c \in acked
  \/ \E k \in AllKeys : audit[c][k] = "skipped"
  \/ Cites[c] \cap purged # {}

\* A done job has sent, had nothing to send, or has its outcome recorded; a dead one has
\* used up its attempts, those of its retries among them.
JobsEndForAReason ==
  \A c \in Candidates, e \in Events :
    /\ job[c][e] = "done" => Settled(c) \/ audit[c][AutoSend] # "none"
    /\ job[c][e] = "dead" => attempts[c][e] = MaxAttempts + redriven[c][e]

SkippedOK == \A c \in Candidates : status[c] = "skipped" => Settled(c)

\* A purge withdraws candidates that cite its event.
CitedOK ==
  \A e \in Events : purging[e] # None => \A c \in DOMAIN purging[e] : e \in Cites[c]

LaneKeyOK == \A w \in Workers : phase[w] # "idle" => key[w] = AutoSend

\* Messages, records, acknowledgements and purges stay.
Grows ==
  /\ \A c \in Candidates : sends[c] > 0 => sends'[c] > 0
  /\ \A c \in Candidates, k \in AllKeys : audit[c][k] # "none" => audit'[c][k] = audit[c][k]
  /\ acked \subseteq acked' /\ purged \subseteq purged'

LEMMA SettledStays == ASSUME Grows, NEW c \in Candidates, Settled(c) PROVE Settled(c)'
BY DEF Grows, Settled

LEMMA RecordGrows ==
  ASSUME Basics, NEW c \in Candidates, NEW k \in AllKeys, NEW d, Record(c, k, d)
  PROVE  /\ \A b \in Candidates, j \in AllKeys : audit[b][j] # "none" => audit'[b][j] = audit[b][j]
         /\ audit[c][k] = "none" => audit'[c][k] = d
BY DEF Record, Basics, TypeOK

LEMMA GrowsStep == Basics /\ [Next]_vars => Grows
<1> SUFFICES ASSUME Basics, [Next]_vars PROVE Grows
  OBVIOUS
<1>1. ASSUME NEW c \in Candidates, NEW k \in Keys, Approve(c, k) PROVE Grows
  BY <1>1, RecordGrows, Names DEF Approve, Transition, Grows
<1>2. ASSUME NEW c \in Candidates, NEW k \in Keys, Skip(c, k) PROVE Grows
  BY <1>2, RecordGrows, Names DEF Skip, Transition, Grows
<1>3. ASSUME NEW c \in Candidates, NEW k \in Keys, AckCard(c, k) PROVE Grows
  BY <1>3, RecordGrows, Names DEF AckCard, Grows
<1>4. ASSUME NEW c \in Candidates, NEW k \in Keys, PrepareCard(c, k) PROVE Grows
  BY <1>4, RecordGrows, Names DEF PrepareCard, Grows
<1>5. ASSUME NEW w \in Workers, ApprovePending(w) PROVE Grows
  <2>1. cand[w] \in Candidates
    BY <1>5, Names DEF ApprovePending, Basics, BusyOK
  <2> QED
    BY <1>5, <2>1, RecordGrows, Names DEF ApprovePending, Grows
<1>12. ASSUME Aside PROVE Grows
  BY <1>12, AsideFrame, RecordGrows, Names DEF Grows, ghosts
<1>6. ASSUME NEW s \in Senders, RefuseSend(s) PROVE Grows
  BY <1>6, RecordGrows DEF RefuseSend, Basics, BusyOK, Grows, ghosts
<1>7. ASSUME NEW s \in Senders, NEW delivered \in BOOLEAN, Deliver(s, delivered) PROVE Grows
  <2>1. \A c \in Candidates : sends[c] > 0 => sends'[c] > 0
    <3>1. \A c \in Candidates :
            sends[c] \in Nat /\ sends'[c] = IF delivered /\ c = cand[s] THEN sends[c] + 1 ELSE sends[c]
      BY <1>7, DeliverCounts DEF Basics, TypeOK
    <3> QED
      BY <3>1
  <2> QED
    BY <1>7, <2>1 DEF Deliver, Grows
<1>8. ASSUME NEW s \in Senders, RecordSend(s) PROVE Grows
  <2>1. cand[s] \in Candidates /\ key[s] \in AllKeys
    BY <1>8 DEF RecordSend, Basics, BusyOK
  <2>2. PICK d : Record(cand[s], key[s], d)
    BY <1>8 DEF RecordSend
  <2> QED
    BY <1>8, <2>1, <2>2, RecordGrows DEF RecordSend, Grows
<1>9. ASSUME NEW s \in Senders, LoseAnswer(s) PROVE Grows
  <2>1. \A c \in Candidates : sends[c] > 0 => sends'[c] > 0
    BY <1>9 DEF LoseAnswer, Message, Basics, TypeOK
  <2> QED
    BY <1>9, <2>1 DEF LoseAnswer, Grows
<1>10. CASE UNCHANGED <<audit, sends, acked>> /\ purged \subseteq purged'
  BY <1>10 DEF Grows
<1>11. \/ UNCHANGED <<audit, sends, acked>> /\ purged \subseteq purged'
       \/ Aside
       \/ \E c \in Candidates, k \in Keys : Approve(c, k) \/ Skip(c, k) \/ AckCard(c, k)
       \/ \E c \in Candidates, k \in Keys : PrepareCard(c, k)
       \/ \E w \in Workers : ApprovePending(w)
       \/ \E s \in Senders : RefuseSend(s) \/ RecordSend(s) \/ LoseAnswer(s)
       \/ \E s \in Senders, delivered \in BOOLEAN : Deliver(s, delivered)
  BY NextIsStep DEF Step, ghosts, vars, Generate, RequestSend, ExpireOrphan, Overrun, CommitPurge,
     Trigger, TakeSettled, Take, ReplaySend, MissRoute, BeginSend, FailToDeliver, Crash
<1> QED
  BY <1>1, <1>2, <1>3, <1>4, <1>5, <1>6, <1>7, <1>8, <1>9, <1>10, <1>11, <1>12

LEMMA CitedStep == Basics /\ CitedOK /\ [Next]_vars => CitedOK'
<1> SUFFICES ASSUME Basics, CitedOK, [Next]_vars PROVE CitedOK'
  OBVIOUS
<1>1. ASSUME NEW e \in Events, BeginPurge(e) PROVE CitedOK'
  <2>1. PICK seen \in PurgeWindow :
          purging' = [purging EXCEPT ![e] =
                       [c \in {d \in seen : Withdrawn(e, d)} |->
                          IF status[c] = "pending" THEN "invalid" ELSE "skipped"]]
    BY <1>1 DEF BeginPurge
  <2>2. \A f \in Events : f # e => purging'[f] = purging[f]
    BY <2>1 DEF Basics, TypeOK
  <2>3. DOMAIN purging'[e] = {d \in seen : Withdrawn(e, d)}
    BY <2>1 DEF Basics, TypeOK
  <2> QED
    BY <2>2, <2>3 DEF CitedOK, Withdrawn
<1>2. ASSUME NEW e \in Events, purging' = [purging EXCEPT ![e] = None] PROVE CitedOK'
  BY <1>2 DEF CitedOK, Basics, TypeOK
<1>3. CASE UNCHANGED purging
  BY <1>3 DEF CitedOK
<1>4. \/ UNCHANGED purging
      \/ \E e \in Events : BeginPurge(e) \/ purging' = [purging EXCEPT ![e] = None]
  BY NextIsStep DEF Step, Aside, vars, Generate, Approve, Skip, AckCard, PrepareCard, RequestSend,
     ExpireOrphan, Overrun, CommitPurge, Trigger, TakeSettled, Take, ApprovePending, ReplaySend,
     RefuseSend, MissRoute, BeginSend, Deliver, FailToDeliver, RecordSend, LoseAnswer, Crash,
     AbortPurge, ReadCard, ShowCard, AbortCard, RetrySendJob
<1> QED
  BY <1>1, <1>2, <1>3, <1>4

\* Only a skip and a purge make a candidate skipped.
LEMMA SkippedStep == Basics /\ SkippedOK /\ CitedOK /\ [Next]_vars => SkippedOK'
<1> SUFFICES ASSUME Basics, SkippedOK, CitedOK, [Next]_vars,
                    NEW c \in Candidates, status'[c] = "skipped"
             PROVE  Settled(c)'
  BY DEF SkippedOK
<1>1. CASE status[c] = "skipped"
  BY <1>1, GrowsStep, SettledStays DEF SkippedOK
<1>2. ASSUME NEW d \in Candidates, NEW k \in Keys, Skip(d, k), status[c] # "skipped" PROVE Settled(c)'
  <2>1. ~Used(d, k) /\ c = d /\ Record(d, k, "skipped")
    BY <1>2 DEF Skip, Transition, SetStatus, Basics, TypeOK
  <2>2. audit'[c][k] = "skipped"
    BY <2>1, RecordGrows, Names DEF Used
  <2> QED
    BY <2>2, Names DEF Settled
<1>3. ASSUME NEW e \in Events, CommitPurge(e), status[c] # "skipped" PROVE Settled(c)'
  <2>1. purging[e] # None /\ c \in DOMAIN purging[e] /\ e \in purged'
    BY <1>3 DEF CommitPurge
  <2> QED
    BY <2>1 DEF CitedOK, Settled
<1>4. CASE \/ UNCHANGED status
           \/ \E d \in Candidates : status' = [status EXCEPT ![d] = IF @ = "none" THEN "pending" ELSE @]
           \/ \E d \in Candidates, new \in {"approved", "sent"} : SetStatus(d, new)
  BY <1>1, <1>4 DEF SetStatus, Basics, TypeOK
<1>5. \/ UNCHANGED status
      \/ \E d \in Candidates : status' = [status EXCEPT ![d] = IF @ = "none" THEN "pending" ELSE @]
      \/ \E d \in Candidates, new \in {"approved", "sent"} : SetStatus(d, new)
      \/ \E d \in Candidates, k \in Keys : Skip(d, k)
      \/ \E e \in Events : CommitPurge(e)
  <2>1. ASSUME NEW w \in Workers, ApprovePending(w)
        PROVE  UNCHANGED status \/ \E d \in Candidates : SetStatus(d, "approved")
    BY <2>1, Names DEF ApprovePending, Basics, BusyOK
  <2>2. ASSUME NEW s \in Senders, RecordSend(s)
        PROVE  UNCHANGED status \/ \E d \in Candidates : SetStatus(d, "sent")
    BY <2>2 DEF RecordSend, Basics, BusyOK
  <2> QED
    BY <2>1, <2>2, NextIsStep, AsideFrame DEF Step, vars, Generate, Approve, Transition, AckCard, PrepareCard, RequestSend,
       ExpireOrphan, Overrun, Trigger, TakeSettled, Take, ReplaySend, RefuseSend, MissRoute,
       BeginSend, Deliver, FailToDeliver, LoseAnswer, Crash
<1> QED
  BY <1>1, <1>2, <1>3, <1>4, <1>5

LEMMA LaneKeyStep == Basics /\ LaneKeyOK /\ [Next]_vars => LaneKeyOK'
<1> SUFFICES ASSUME Basics, LaneKeyOK, [Next]_vars PROVE LaneKeyOK'
  OBVIOUS
<1>1. ASSUME NEW s \in Senders, Leave(s) PROVE LaneKeyOK'
  BY <1>1, Names DEF Leave, LaneKeyOK, Basics, TypeOK
<1>2. ASSUME NEW c \in Candidates, NEW k \in Keys, NEW u \in Users, NEW p \in Platforms, RequestSend(u, c, k, p) PROVE LaneKeyOK'
  BY <1>2, Names, PushConstants DEF RequestSend, Enter, LaneKeyOK, Basics, TypeOK
<1>3. ASSUME NEW w \in Workers, NEW c \in Candidates, NEW e \in Events, Take(w, c, e) PROVE LaneKeyOK'
  BY <1>3, Names DEF Take, Enter, LaneKeyOK, Basics, TypeOK
<1>4. ASSUME UNCHANGED key, NEW s \in Senders, phase[s] # "idle", NEW at, phase' = [phase EXCEPT ![s] = at]
      PROVE  LaneKeyOK'
  BY <1>4, Names DEF LaneKeyOK, Basics, TypeOK
<1>5. CASE UNCHANGED <<phase, key>>
  BY <1>5 DEF LaneKeyOK
<1>6. \/ UNCHANGED <<phase, key>>
      \/ \E s \in Senders : Leave(s)
      \/ \E c \in Candidates, k \in Keys, u \in Users, p \in Platforms : RequestSend(u, c, k, p)
      \/ \E w \in Workers, c \in Candidates, e \in Events : Take(w, c, e)
      \/ UNCHANGED key /\ \E s \in Senders, at \in {"check", "sending", "record"} :
           phase[s] # "idle" /\ phase' = [phase EXCEPT ![s] = at]
  BY NextIsStep, AsideFrame, ReturnLeaves, Names DEF Step, vars, locals, Generate, Approve, Skip, AckCard, PrepareCard,
     ExpireOrphan, Overrun, CommitPurge, Trigger, TakeSettled, ApprovePending, ReplaySend, RefuseSend,
     MissRoute, BeginSend, Deliver, FailToDeliver, RecordSend, LoseAnswer, Crash
<1> QED
  BY <1>1, <1>2, <1>3, <1>4, <1>5, <1>6

\* A lane that returns leaves its job open, done or dead, and touches no other.
LEMMA ReturnEnds ==
  ASSUME Basics, NEW s \in Senders, NEW outcome \in {"done", "failed"},
         Return(s, outcome), NEW c \in Candidates, NEW e \in Events
  PROVE  \/ job'[c][e] = job[c][e]
         \/ job'[c][e] = "done" /\ outcome = "done" /\ s \in Workers /\ cand[s] = c
         \/ job'[c][e] \in {"dead", "open"}
<1>1. CASE ~Mine(s)
  BY <1>1 DEF Return, jobs
<1>2. CASE Mine(s)
  <2>1. PICK to \in {"open", "done", "dead"} :
          /\ job' = [job EXCEPT ![cand[s]][task[s]] = to]
          /\ to = "done" => outcome = "done"
    BY <1>2 DEF Return
  <2>2. s \in Workers
    BY <1>2 DEF Mine
  <2>3. CASE cand[s] = c /\ task[s] = e
    <3>1. job'[c][e] = to
      BY <2>1, <2>3 DEF Basics, TypeOK
    <3> QED
      BY <2>1, <2>2, <2>3, <3>1
  <2>4. CASE cand[s] # c \/ task[s] # e
    BY <2>1, <2>4 DEF Basics, TypeOK
  <2> QED
    BY <2>3, <2>4
<1> QED
  BY <1>1, <1>2

LEMMA EndsStep ==
  Basics /\ SentOK /\ SkippedOK /\ LaneKeyOK /\ JobsEndForAReason /\ [Next]_vars => JobsEndForAReason'
<1> SUFFICES ASSUME Basics, SentOK, SkippedOK, LaneKeyOK, JobsEndForAReason, [Next]_vars,
                    NEW c \in Candidates, NEW e \in Events
             PROVE  /\ job'[c][e] = "done" => Settled(c)' \/ audit'[c][AutoSend] # "none"
                    /\ job'[c][e] = "dead" => attempts'[c][e] = MaxAttempts + redriven'[c][e]
  BY DEF JobsEndForAReason
<1>0. job'[c][e] = "dead" => attempts'[c][e] = MaxAttempts + redriven'[c][e]
  BY BasicsStep DEF Basics, RowsOK
<1> SUFFICES ASSUME job'[c][e] = "done" PROVE Settled(c)' \/ audit'[c][AutoSend] # "none"
  BY <1>0
<1>1. Grows /\ (Settled(c) => Settled(c)') /\ (audit[c][AutoSend] # "none" => audit'[c][AutoSend] # "none")
  BY GrowsStep, SettledStays, Names DEF Grows
<1>2. CASE job'[c][e] = job[c][e]
  BY <1>1, <1>2 DEF JobsEndForAReason
<1>3. ASSUME NEW w \in Workers, NEW d \in Candidates, NEW f \in Events, TakeSettled(w, d, f)
      PROVE  job'[c][e] = job[c][e] \/ Settled(c)
  <2>1. CASE d # c \/ f # e
    BY <1>3, <2>1 DEF TakeSettled, Basics, TypeOK
  <2>2. CASE d = c /\ f = e
    BY <1>3, <2>2 DEF TakeSettled, SentOK, SentWasDelivered, SkippedOK, Settled
  <2> QED
    BY <2>1, <2>2
<1>4. ASSUME NEW s \in Senders, ReplaySend(s)
      PROVE  job'[c][e] = job[c][e] \/ audit'[c][AutoSend] # "none"
  <2>1. s \in Workers /\ cand[s] = c => audit'[c][AutoSend] # "none"
    BY <1>4 DEF ReplaySend, Used, LaneKeyOK
  <2> QED
    BY <1>4, <2>1, ReturnEnds DEF ReplaySend
<1>5. ASSUME NEW s \in Senders, RecordSend(s)
      PROVE  job'[c][e] = job[c][e] \/ audit'[c][AutoSend] # "none"
  <2>1. s \in Workers /\ cand[s] = c => audit'[c][AutoSend] # "none"
    <3>1. PICK d \in Decisions \ {"none"} : Record(cand[s], key[s], d)
      BY <1>5 DEF RecordSend, Decisions
    <3> QED
      BY <1>5, <3>1, <1>1, RecordGrows, Names DEF RecordSend, LaneKeyOK
  <2> QED
    BY <1>5, <2>1, ReturnEnds DEF RecordSend
<1>6. ASSUME NEW s \in Senders, Return(s, "failed")
      PROVE  job'[c][e] = job[c][e]
  BY <1>6, ReturnEnds
<1>7. ASSUME NEW f \in Events, Trigger(f)
      PROVE  job'[c][e] = job[c][e]
  <2>1. PICK d \in Candidates : job' = [job EXCEPT ![d][f] = IF @ = "none" THEN "open" ELSE @]
    BY <1>7 DEF Trigger, Selected, Listed
  <2> QED
    BY <2>1 DEF Basics, TypeOK
<1>8. ASSUME NEW d \in Candidates, NEW f \in Events, RetrySendJob(d, f)
      PROVE  job'[c][e] = job[c][e]
  BY <1>8 DEF RetrySendJob, Basics, TypeOK
<1>9. \/ UNCHANGED job
      \/ \E w \in Workers, d \in Candidates, f \in Events : TakeSettled(w, d, f)
      \/ \E f \in Events : Trigger(f)
      \/ \E d \in Candidates, f \in Events : RetrySendJob(d, f)
      \/ \E s \in Senders : ReplaySend(s) \/ RecordSend(s)
      \/ \E s \in Senders : Return(s, "failed")
  BY NextIsStep DEF Step, Aside, vars, jobs, Generate, Approve, Skip, AckCard, PrepareCard, RequestSend,
     ExpireOrphan, Overrun, CommitPurge, Take, ApprovePending, RefuseSend, MissRoute, BeginSend,
     Deliver, FailToDeliver, LoseAnswer, Crash, BeginPurge, AbortPurge, ReadCard, ShowCard, AbortCard
<1> QED
  BY <1>1, <1>2, <1>3, <1>4, <1>5, <1>6, <1>7, <1>8, <1>9

\* No send job is dropped: one that counts as done has sent its candidate, or the
\* candidate was shown, skipped or withdrawn, or the outcome is on record under the key
\* of the lanes; one in the dead-letter list has had all its attempts.
THEOREM JobsEndForReasons == Spec => []JobsEndForAReason
<1> DEFINE Ends == IInv /\ SkippedOK /\ CitedOK /\ LaneKeyOK /\ JobsEndForAReason
<1>1. Init => Ends
  <2>1. Init => SkippedOK /\ CitedOK /\ LaneKeyOK /\ JobsEndForAReason
    BY Names DEF Init, SkippedOK, CitedOK, LaneKeyOK, JobsEndForAReason
  <2> QED
    BY <2>1, IInvInit
<1>2. Ends /\ [Next]_vars => Ends'
  BY IInvStep, SkippedStep, CitedStep, LaneKeyStep, EndsStep DEF IInv
<1> QED
  BY <1>1, <1>2, PTL DEF Spec

-----------------------------------------------------------------------------
(* The exceptions.                                                           *)

NoDoubt == doubtful = {} /\ crowded = {} /\ faults = 0

\* A lone sender that never fails after the message has gone out.
LEMMA NobodyDoubts ==
  ASSUME MaxFaults = 0, \A s, t \in Senders : s = t
  PROVE  Spec => []NoDoubt
<1>1. Init => NoDoubt
  BY DEF Init, NoDoubt
<1>2. NoDoubt /\ [Next]_vars => NoDoubt'
  <2> SUFFICES ASSUME NoDoubt, [Next]_vars PROVE NoDoubt'
    OBVIOUS
  <2>1. ~Fault
    BY DEF Fault, NoDoubt
  <2>2. ASSUME NEW s \in Senders, BeginSend(s) PROVE NoDoubt'
    <3>1. Beside(s) = {}
      BY DEF Beside
    <3> QED
      BY <2>2, <3>1 DEF BeginSend, NoDoubt, bounds
  <2>3. CASE UNCHANGED <<doubtful, crowded, faults>>
    BY <2>3 DEF NoDoubt
  <2>4. UNCHANGED <<doubtful, crowded, faults>> \/ \E s \in Senders : BeginSend(s)
    BY <2>1, NextIsStep, AsideFrame DEF Step, vars, ghosts, bounds, Request, Generate, Approve, Skip, AckCard, PrepareCard,
       RequestSend, ExpireOrphan, Overrun, CommitPurge, Trigger, TakeSettled, Take, ApprovePending,
       ReplaySend, RefuseSend, MissRoute, Deliver, FailToDeliver, RecordSend, LoseAnswer, Crash
  <2> QED
    BY <2>2, <2>3, <2>4
<1> QED
  BY <1>1, <1>2, PTL DEF Spec

\* With one sender that does not crash and loses no answer there is no exception: a key
\* sends once and every message has an approval of its own.
THEOREM LoneSenderSendsOnce ==
  ASSUME MaxFaults = 0, \A s, t \in Senders : s = t
  PROVE  Spec => []( /\ \A c \in Candidates, k \in AllKeys : messages[c][k] <= 1
                     /\ \A c \in Candidates : sends[c] <= approvals[c] )
<1>1. NoDoubt /\ OncePerKey /\ OneMessagePerApproval
        => /\ \A c \in Candidates, k \in AllKeys : messages[c][k] <= 1
           /\ \A c \in Candidates : sends[c] <= approvals[c]
  BY DEF NoDoubt, OncePerKey, OneMessagePerApproval
<1> QED
  BY <1>1, NobodyDoubts, KeySendsOnce, ApprovalSendsOnce, PTL

================================================================================
