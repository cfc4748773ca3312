----------------------------- MODULE PushDelivery -----------------------------
(***************************************************************************)
(* Push candidates: reminders that wait for approval and are then sent to  *)
(* a chat platform, by a user of the control plane or by the derived lane, *)
(* when an event of a chat has triggered them.                             *)
(*                                                                         *)
(* A send is two transactions with the platform between them: the first    *)
(* checks the candidate, the second records what has become of the         *)
(* message.  A purge and the card of an agent read candidates and then     *)
(* change them whatever they have become: two steps, the reads and the     *)
(* commit, with others in between (Postgres).  Requests that change a      *)
(* candidate whatever its status is take effect at their commit.           *)
(***************************************************************************)
EXTENDS Naturals, FiniteSets

CONSTANTS
  Candidates,
  Rank,         \* [Candidates -> Nat], their order by priority
  Window,       \* how many of them, by priority, a selection looks at
  Events,       \* source events: what a candidate cites, what triggers a push
  Cites,        \* [Candidates -> SUBSET Events], its source_event_ids
  Sees,         \* [Events -> SUBSET Candidates], candidates visible to the event's scope
  SeenBy,       \* [Events -> SUBSET Candidates], candidates whose scope sees the event
  Reaches,      \* [Events -> SUBSET Candidates], for which the event has a platform ref
  Platforms,    \* with a connector
  Feishu,       \* that of the send jobs
  Reachable,    \* [Platforms -> SUBSET Candidates] whose own events have a platform ref
  Workers,      \* derived lanes
  Users,        \* sends of users in flight
  Keys,         \* idempotency keys of users
  AutoApprove, AutoSend, \* those of the derived lane, one each per candidate
  PurgeLimit,   \* how many candidates a purge looks at
  MaxAttempts,  \* max_attempts of a send job
  MaxRequests,  \* bound: requests of users, agents and operators
  MaxFaults,    \* bound: crashes, overruns and lost answers, together
  None

LaneKeys == {AutoApprove, AutoSend}
AllKeys  == Keys \cup LaneKeys
Senders  == Workers \cup Users

ASSUME PushConstants ==
  /\ Rank \in [Candidates -> Nat] /\ Window \in Nat /\ PurgeLimit \in Nat
  /\ \A c, d \in Candidates : Rank[c] = Rank[d] => c = d
  /\ Cites \in [Candidates -> SUBSET Events]
  /\ Sees \in [Events -> SUBSET Candidates] /\ SeenBy \in [Events -> SUBSET Candidates]
  /\ Reaches \in [Events -> SUBSET Candidates] /\ Reachable \in [Platforms -> SUBSET Candidates]
  /\ Feishu \in Platforms /\ Platforms \cap Events = {}
  /\ Workers \cap Users = {} /\ Keys \cap LaneKeys = {} /\ AutoApprove # AutoSend
  /\ MaxAttempts \in Nat \ {0} /\ MaxRequests \in Nat /\ MaxFaults \in Nat
  /\ None \notin Workers /\ None \notin Events \cup Platforms /\ None \notin Candidates

VARIABLES
  status,      \* of a candidate's row, "none" before there is one
  audit,       \* what is recorded of a candidate under a key
  purged,      \* purged source events
  cards,       \* pending candidates that were read for a card, with the key
  purging,     \* of an event: what its purge makes of the candidates it has read
  job, attempts, redriven, lockedBy, \* push_candidate_send rows, by candidate and event
  phase,       \* of a sender
  cand, key,   \* the candidate it sends and under which key
  task,        \* the event of its job, or the platform a user has named
  answer,      \* what the platform has answered
  messages,    \* history: messages delivered for a candidate under a key
  sends,       \* history: messages delivered for a candidate
  approvals,   \* history: how often a candidate became approved
  doubtful,    \* history: sends whose outcome was lost or that ran side by side
  crowded,     \* history: candidates with such sends, whatever their keys
  barred,      \* history: candidates withdrawn while nobody was about to send them
  acked,       \* history: candidates an agent has acknowledged showing
  requests, faults  \* counters of the bounds

jobs    == <<job, attempts, redriven, lockedBy>>
locals  == <<phase, cand, key, task, answer>>
ghosts  == <<messages, sends, approvals, doubtful, crowded, barred, acked>>
bounds  == <<requests, faults>>
vars    == <<status, audit, purged, cards, purging, jobs, locals, ghosts, bounds>>

Init ==
  /\ status    = [c \in Candidates |-> "none"]
  /\ audit     = [c \in Candidates |-> [k \in AllKeys |-> "none"]]
  /\ purged    = {}
  /\ cards     = {}
  /\ purging   = [e \in Events |-> None]
  /\ job       = [c \in Candidates |-> [e \in Events |-> "none"]]
  /\ attempts  = [c \in Candidates |-> [e \in Events |-> 0]]
  /\ redriven  = [c \in Candidates |-> [e \in Events |-> 0]]
  /\ lockedBy  = [c \in Candidates |-> [e \in Events |-> None]]
  /\ phase     = [s \in Senders |-> "idle"]
  /\ cand      = [s \in Senders |-> None]
  /\ key       = [s \in Senders |-> None]
  /\ task      = [s \in Senders |-> None]
  /\ answer    = [s \in Senders |-> FALSE]
  /\ messages  = [c \in Candidates |-> [k \in AllKeys |-> 0]]
  /\ sends     = [c \in Candidates |-> 0]
  /\ approvals = [c \in Candidates |-> 0]
  /\ doubtful  = {}
  /\ crowded   = {}
  /\ barred    = {}
  /\ acked     = {}
  /\ requests  = 0
  /\ faults    = 0

-----------------------------------------------------------------------------
(* Candidates: generation, the requests of users, the purge of a source.   *)

\* The upsert by cooldown key keeps the status of a candidate that exists.
Generate(c) ==
  /\ status' = [status EXCEPT ![c] = IF @ = "none" THEN "pending" ELSE @]
  /\ UNCHANGED <<audit, purged, cards, purging, jobs, locals, ghosts, bounds>>

\* Requests are bounded.
Request == requests < MaxRequests /\ requests' = requests + 1 /\ UNCHANGED faults

\* Mutant: the audit rows of a candidate are not looked up by key.
Used_Never(c, k) == FALSE

Used(c, k) == audit[c][k] # "none"

Known(c)    == status[c] # "none"
Sendable(c) == status[c] \in {"pending", "approved"}

\* The first audit row under a key stays.
Record(c, k, decision) ==
  audit' = [audit EXCEPT ![c][k] = IF @ = "none" THEN decision ELSE @]

\* Who has read the candidate and will send it or approve it, unasked by a user.
AboutToSend(c) ==
  \/ \E s \in Senders : cand[s] = c /\ phase[s] \in {"approve", "sending"}
  \/ \E k \in Keys : <<c, k>> \in cards

\* The status changes, whatever it was.
SetStatus(c, new) ==
  /\ status' = [status EXCEPT ![c] = new]
  /\ approvals' = [approvals EXCEPT ![c] =
                     IF new = "approved" /\ status[c] # new THEN @ + 1 ELSE @]

\* _transition_push_candidate: a key that was used changes nothing.
Transition(c, k, new) ==
  IF Used(c, k) THEN UNCHANGED <<status, audit, approvals>>
  ELSE SetStatus(c, new) /\ Record(c, k, new)

Approve(c, k) ==
  /\ Request
  /\ Known(c)
  /\ Transition(c, k, "approved")
  /\ barred' = IF Used(c, k) THEN barred ELSE barred \ {c}
  /\ UNCHANGED <<purged, cards, purging, jobs, locals, messages, sends, doubtful, crowded, acked>>

Skip(c, k) ==
  /\ Request
  /\ Known(c)
  /\ Transition(c, k, "skipped")
  /\ barred' = IF Used(c, k) \/ AboutToSend(c) THEN barred ELSE barred \cup {c}
  /\ UNCHANGED <<purged, cards, purging, jobs, locals, messages, sends, doubtful, crowded, acked>>

\* What a purge makes of the candidates that cite the event.
Withdrawn(e, c) == e \in Cites[c] /\ Sendable(c)

\* The latest PurgeLimit candidates, in an order that any change may alter.
PurgeWindow ==
  LET known == {c \in Candidates : Known(c)}
  IN  {seen \in SUBSET known : \/ seen = known
                               \/ Cardinality(seen) = PurgeLimit}

\* The row of the event is locked to the end of the transaction.
BeginPurge(e) ==
  /\ Request
  /\ purging[e] = None
  /\ \E seen \in PurgeWindow :
       purging' = [purging EXCEPT ![e] =
                    [c \in {d \in seen : Withdrawn(e, d)} |->
                       IF status[c] = "pending" THEN "invalid" ELSE "skipped"]]
  /\ UNCHANGED <<status, audit, purged, cards, jobs, locals, ghosts>>

CommitPurge(e) ==
  /\ purging[e] # None
  /\ purging' = [purging EXCEPT ![e] = None]
  /\ purged' = purged \cup {e}
  /\ status' = [c \in Candidates |->
                  IF c \in DOMAIN purging[e] THEN purging[e][c] ELSE status[c]]
  /\ barred' = barred \cup {c \in DOMAIN purging[e] : ~AboutToSend(c)}
  /\ UNCHANGED <<audit, cards, jobs, locals, messages, sends, approvals, doubtful, crowded, acked,
                 bounds>>

AbortPurge(e) ==
  /\ purging[e] # None
  /\ purging' = [purging EXCEPT ![e] = None]
  /\ UNCHANGED <<status, audit, purged, cards, jobs, locals, ghosts, bounds>>

\* The candidates a selection looks at: the first Window by priority, sent and
\* skipped ones among them.
Above(c) == {d \in Candidates : Known(d) /\ Rank[d] > Rank[c]}
Listed   == {c \in Candidates : Known(c) /\ Cardinality(Above(c)) < Window}

\* The one it selects from what is visible, if there is one.
Selected(visible) ==
  {c \in Listed \cap visible :
     Sendable(c) /\ \A d \in Listed \cap visible : Sendable(d) => Rank[d] <= Rank[c]}

-----------------------------------------------------------------------------
(* Cards: an agent asks for one to show it with its answer.                *)

\* A pending candidate is approved, at the commit; the key of the request was not used.
ReadCard(c, k, visible) ==
  /\ Request
  /\ c \in Selected(visible)
  /\ status[c] = "pending" /\ ~Used(c, k)
  /\ cards' = cards \cup {<<c, k>>}
  /\ UNCHANGED <<status, audit, purged, purging, jobs, locals, ghosts>>

\* Another request with the key may have read it too.
PrepareCard(c, k) ==
  /\ <<c, k>> \in cards
  /\ cards' \in {cards, cards \ {<<c, k>>}}
  /\ SetStatus(c, "approved")
  /\ Record(c, k, "prepared")
  /\ UNCHANGED <<purged, purging, jobs, locals, messages, sends, doubtful, crowded, barred,
                 acked, bounds>>

\* The transaction fails or its process stops.
AbortCard(c, k) ==
  /\ <<c, k>> \in cards
  /\ cards' = cards \ {<<c, k>>}
  /\ UNCHANGED <<status, audit, purged, purging, jobs, locals, ghosts, bounds>>

\* The card of an approved candidate.
ShowCard(c, k, visible) ==
  /\ c \in Selected(visible)
  /\ status[c] = "approved" /\ ~Used(c, k)
  /\ Request
  /\ Record(c, k, "prepared")
  /\ UNCHANGED <<status, purged, cards, purging, jobs, locals, ghosts>>

\* It has shown the card.
AckCard(c, k) ==
  /\ Request
  /\ Known(c) /\ status[c] # "sent"
  /\ ~Used(c, k)
  /\ SetStatus(c, "sent")
  /\ Record(c, k, "sent")
  /\ acked' = acked \cup {c}
  /\ UNCHANGED <<purged, cards, purging, jobs, locals, messages, sends, doubtful, crowded,
                 barred>>

-----------------------------------------------------------------------------
(* Send jobs.                                                              *)

\* PushTriggerService: an event, its content not redacted, calls for a push.
Trigger(e) ==
  /\ e \notin purged
  /\ \E c \in Selected(Sees[e]) :
       job' = [job EXCEPT ![c][e] = IF @ = "none" THEN "open" ELSE @]
  /\ UNCHANGED <<status, audit, purged, cards, purging, attempts, redriven, lockedBy, locals,
                 ghosts, bounds>>

\* The lane records the outcome of a job whose row is still its own.
Mine(w) == w \in Workers /\ lockedBy[cand[w]][task[w]] = w

\* Faults are bounded.
Fault == faults < MaxFaults /\ faults' = faults + 1 /\ UNCHANGED requests

Leave(s) ==
  /\ phase'  = [phase EXCEPT ![s] = "idle"]
  /\ cand'   = [cand EXCEPT ![s] = None]
  /\ key'    = [key EXCEPT ![s] = None]
  /\ task'   = [task EXCEPT ![s] = None]
  /\ answer' = [answer EXCEPT ![s] = FALSE]

\* Mutant: a failure does not count as an attempt.
Failed_Uncounted(c, e) == attempts[c][e]

Failed(c, e) == attempts[c][e] + 1

\* A sender returns, a lane with the outcome of its job.
Return(s, outcome) ==
  LET c == cand[s]  e == task[s]
      n == IF outcome = "done" THEN attempts[c][e] ELSE Failed(c, e)
      to == IF outcome = "done" THEN "done" ELSE IF n < MaxAttempts THEN "open" ELSE "dead"
  IN  /\ Leave(s)
      /\ IF Mine(s)
         THEN /\ job'      = [job EXCEPT ![c][e] = to]
              /\ attempts' = [attempts EXCEPT ![c][e] = n]
              /\ lockedBy' = [lockedBy EXCEPT ![c][e] = None]
              /\ UNCHANGED redriven
         ELSE UNCHANGED jobs

\* A lane takes a job and reads its candidate.
Enter(s, c, e, k, at) ==
  /\ phase[s] = "idle"
  /\ phase' = [phase EXCEPT ![s] = at]
  /\ cand'  = [cand EXCEPT ![s] = c]
  /\ task'  = [task EXCEPT ![s] = e]
  /\ key'   = [key EXCEPT ![s] = k]
  /\ UNCHANGED answer

\* Mutant: a dead-lettered row is claimed again.
Claimable_Dead(c, e) == job[c][e] \in {"open", "dead"} /\ lockedBy[c][e] = None

Claimable(c, e) == job[c][e] = "open" /\ lockedBy[c][e] = None

\* Mutant: whatever is not approved is approved first.
NeedsApproval_Any(c) == status[c] # "approved"

NeedsApproval(c) == status[c] = "pending"

\* The candidate was sent or skipped: nothing remains to be done.
TakeSettled(w, c, e) ==
  /\ phase[w] = "idle" /\ Claimable(c, e)
  /\ status[c] \in {"sent", "skipped"}
  /\ job' = [job EXCEPT ![c][e] = "done"]
  /\ UNCHANGED <<status, audit, purged, cards, purging, attempts, redriven, lockedBy, locals,
                 ghosts, bounds>>

Take(w, c, e) ==
  /\ Claimable(c, e)
  /\ status[c] \notin {"sent", "skipped"}
  /\ lockedBy' = [lockedBy EXCEPT ![c][e] = w]
  /\ Enter(w, c, e, AutoSend, IF NeedsApproval(c) THEN "approve" ELSE "check")
  /\ UNCHANGED <<status, audit, purged, cards, purging, job, attempts, redriven, ghosts, bounds>>

\* In a transaction of its own, under a key of its own. The candidate was pending, so
\* the key was not used; another lane may have used it since, unseen by this one or seen.
ApprovePending(w) ==
  /\ phase[w] = "approve"
  /\ \/ SetStatus(cand[w], "approved") /\ Record(cand[w], AutoApprove, "approved")
     \/ Used(cand[w], AutoApprove) /\ UNCHANGED <<status, audit, approvals>>
  /\ phase' = [phase EXCEPT ![w] = "check"]
  /\ UNCHANGED <<purged, cards, purging, jobs, cand, key, task, answer, messages, sends, doubtful,
                 crowded, barred, acked, bounds>>

\* ControlService.retry_job
RetrySendJob(c, e) ==
  /\ Request
  /\ job[c][e] = "dead"
  /\ job' = [job EXCEPT ![c][e] = "open"]
  /\ redriven' = [redriven EXCEPT ![c][e] = @ + 1]
  /\ UNCHANGED <<status, audit, purged, cards, purging, attempts, lockedBy, locals, ghosts>>

-----------------------------------------------------------------------------
(* send_push_candidate                                                     *)

\* A user's request to send to a platform, without a delivery event.
RequestSend(u, c, k, p) ==
  /\ Request
  /\ Known(c)
  /\ Enter(u, c, p, k, "check")
  /\ UNCHANGED <<status, audit, purged, cards, purging, jobs, ghosts>>

\* The key was used: the request is answered without doing anything.
ReplaySend(s) ==
  /\ phase[s] = "check"
  /\ Used(cand[s], key[s])
  /\ Return(s, "done")
  /\ UNCHANGED <<status, audit, purged, cards, purging, ghosts, bounds>>

\* Mutant: the status is not looked at.
MaySend_Unapproved(c) == Known(c)

MaySend(c) == status[c] = "approved"

\* The refusal is recorded under the key.
RefuseSend(s) ==
  /\ phase[s] = "check"
  /\ ~Used(cand[s], key[s]) /\ ~MaySend(cand[s])
  /\ Record(cand[s], key[s], "rejected")
  /\ Return(s, "failed")
  /\ UNCHANGED <<status, purged, cards, purging, ghosts, bounds>>

\* The event of the job is in scope, and it has a platform ref or the candidate's
\* own events have one.
Routable(c, e) ==
  \/ e \in Platforms /\ c \in Reachable[e]
  \/ e \in Events /\ c \in SeenBy[e] \cap (Reaches[e] \cup Reachable[Feishu])

MissRoute(s) ==
  /\ phase[s] = "check"
  /\ ~Used(cand[s], key[s]) /\ MaySend(cand[s]) /\ ~Routable(cand[s], task[s])
  /\ Return(s, "failed")
  /\ UNCHANGED <<status, audit, purged, cards, purging, ghosts, bounds>>

InFlight(t) == phase[t] \in {"sending", "record"}
Beside(s)   == {t \in Senders \ {s} : InFlight(t) /\ cand[t] = cand[s]}

\* The first transaction passes.
BeginSend(s) ==
  /\ phase[s] = "check"
  /\ ~Used(cand[s], key[s]) /\ MaySend(cand[s]) /\ Routable(cand[s], task[s])
  /\ phase' = [phase EXCEPT ![s] = "sending"]
  /\ doubtful' = IF \E t \in Beside(s) : key[t] = key[s]
                 THEN doubtful \cup {<<cand[s], key[s]>>} ELSE doubtful
  /\ crowded' = IF Beside(s) # {} THEN crowded \cup {cand[s]} ELSE crowded
  /\ UNCHANGED <<status, audit, purged, cards, purging, jobs, cand, key, task, answer, messages,
                 sends,
                 approvals, barred, acked, bounds>>

Message(c, k) ==
  /\ messages' = [messages EXCEPT ![c][k] = @ + 1]
  /\ sends'    = [sends EXCEPT ![c] = @ + 1]

\* The outcome of a message that went out is lost.
Doubt(c, k) ==
  /\ doubtful' = doubtful \cup {<<c, k>>}
  /\ crowded'  = crowded \cup {c}

\* The platform takes the message, or there is no sender for the platform.
Deliver(s, delivered) ==
  /\ phase[s] = "sending"
  /\ phase'  = [phase EXCEPT ![s] = "record"]
  /\ answer' = [answer EXCEPT ![s] = delivered]
  /\ IF delivered THEN Message(cand[s], key[s]) ELSE UNCHANGED <<messages, sends>>
  /\ UNCHANGED <<status, audit, purged, cards, purging, jobs, cand, key, task, approvals,
                 doubtful, crowded,
                 barred, acked, bounds>>

\* The call of the platform raises.
FailToDeliver(s) ==
  /\ phase[s] = "sending"
  /\ Return(s, "failed")
  /\ UNCHANGED <<status, audit, purged, cards, purging, ghosts, bounds>>

\* It raises although the message has gone out.
LoseAnswer(s) ==
  /\ phase[s] = "sending"
  /\ Fault
  /\ Message(cand[s], key[s])
  /\ Doubt(cand[s], key[s])
  /\ Return(s, "failed")
  /\ UNCHANGED <<status, audit, purged, cards, purging, approvals, barred, acked>>

\* Mutant: the candidate counts as sent whatever the platform has answered.
NowSent_Always(s) == TRUE

NowSent(s) == answer[s]

\* The second transaction.
RecordSend(s) ==
  /\ phase[s] = "record"
  /\ Record(cand[s], key[s], IF answer[s] THEN "sent" ELSE "not_delivered")
  /\ IF NowSent(s) THEN SetStatus(cand[s], "sent") ELSE UNCHANGED <<status, approvals>>
  /\ Return(s, "done")
  /\ UNCHANGED <<purged, cards, purging, messages, sends, doubtful, crowded, barred, acked,
                 bounds>>

-----------------------------------------------------------------------------
(* Crashes and expired locks.                                              *)

Crash(s) ==
  /\ phase[s] # "idle"
  /\ Fault
  /\ IF phase[s] = "record" /\ answer[s] THEN Doubt(cand[s], key[s])
     ELSE UNCHANGED <<doubtful, crowded>>
  /\ Leave(s)
  /\ UNCHANGED <<status, audit, purged, cards, purging, jobs, messages, sends, approvals,
                 barred, acked>>

AtWork(c, e) ==
  \E w \in Workers : lockedBy[c][e] = w /\ phase[w] # "idle" /\ cand[w] = c /\ task[w] = e

\* The lock of a lane that has crashed expires.
ExpireOrphan(c, e) ==
  /\ lockedBy[c][e] # None /\ ~AtWork(c, e)
  /\ lockedBy' = [lockedBy EXCEPT ![c][e] = None]
  /\ UNCHANGED <<status, audit, purged, cards, purging, job, attempts, redriven, locals, ghosts,
                 bounds>>

\* The lock of a lane that is still at work expires.
Overrun(c, e) ==
  /\ AtWork(c, e)
  /\ Fault
  /\ lockedBy' = [lockedBy EXCEPT ![c][e] = None]
  /\ UNCHANGED <<status, audit, purged, cards, purging, job, attempts, redriven, locals, ghosts>>

-----------------------------------------------------------------------------
SendStep(s) ==
  \/ ReplaySend(s) \/ RefuseSend(s) \/ MissRoute(s) \/ BeginSend(s)
  \/ Deliver(s, TRUE) \/ Deliver(s, FALSE) \/ FailToDeliver(s) \/ RecordSend(s)

LaneStep(w) ==
  \/ \E c \in Candidates, e \in Events : TakeSettled(w, c, e) \/ Take(w, c, e)
  \/ ApprovePending(w)
  \/ SendStep(w)

Next ==
  \/ \E c \in Candidates :
       \/ Generate(c)
       \/ \E k \in Keys : \/ Approve(c, k) \/ Skip(c, k)
                          \/ PrepareCard(c, k) \/ AbortCard(c, k) \/ AckCard(c, k)
                          \/ \E visible \in SUBSET Candidates :
                               ReadCard(c, k, visible) \/ ShowCard(c, k, visible)
                          \/ \E u \in Users, p \in Platforms : RequestSend(u, c, k, p)
       \/ \E e \in Events : ExpireOrphan(c, e) \/ Overrun(c, e) \/ RetrySendJob(c, e)
  \/ \E e \in Events : BeginPurge(e) \/ CommitPurge(e) \/ AbortPurge(e) \/ Trigger(e)
  \/ \E w \in Workers : LaneStep(w)
  \/ \E u \in Users : SendStep(u)
  \/ \E s \in Senders : LoseAnswer(s) \/ Crash(s)

Spec == Init /\ [][Next]_vars

\* Lanes make progress (calls of the platform have a timeout) and locks expire.
Fairness ==
  /\ \A w \in Workers : WF_vars(LaneStep(w))
  /\ \A c \in Candidates, e \in Events : WF_vars(ExpireOrphan(c, e))

FairSpec == Spec /\ Fairness

-----------------------------------------------------------------------------
Statuses  == {"none", "pending", "approved", "skipped", "sent", "invalid"}
Decisions == {"none", "approved", "skipped", "prepared", "sent", "not_delivered", "rejected"}

Withdrawals == UNION {[cs -> {"invalid", "skipped"}] : cs \in SUBSET Candidates}

\* Type invariant: candidates, audits, jobs and senders; attempts stay within their
\* budget, which each retry by an operator extends by one.
TypeOK ==
  /\ status    \in [Candidates -> Statuses]
  /\ audit     \in [Candidates -> [AllKeys -> Decisions]]
  /\ purged    \in SUBSET Events
  /\ cards     \in SUBSET (Candidates \X Keys)
  /\ purging   \in [Events -> Withdrawals \cup {None}]
  /\ job       \in [Candidates -> [Events -> {"none", "open", "done", "dead"}]]
  /\ attempts  \in [Candidates -> [Events -> Nat]]
  /\ redriven  \in [Candidates -> [Events -> Nat]]
  /\ \A c \in Candidates, e \in Events : attempts[c][e] <= MaxAttempts + redriven[c][e]
  /\ lockedBy  \in [Candidates -> [Events -> Workers \cup {None}]]
  /\ phase     \in [Senders -> {"idle", "approve", "check", "sending", "record"}]
  /\ cand      \in [Senders -> Candidates \cup {None}]
  /\ key       \in [Senders -> AllKeys \cup {None}]
  /\ task      \in [Senders -> Events \cup Platforms \cup {None}]
  /\ answer    \in [Senders -> BOOLEAN]
  /\ messages  \in [Candidates -> [AllKeys -> Nat]]
  /\ sends     \in [Candidates -> Nat]
  /\ approvals \in [Candidates -> Nat]
  /\ doubtful  \in SUBSET (Candidates \X AllKeys)
  /\ crowded   \in SUBSET Candidates
  /\ barred    \in SUBSET Candidates
  /\ acked     \in SUBSET Candidates
  /\ requests  \in Nat
  /\ faults    \in Nat

(***************************************************************************)
(* One idempotency key sends one message, however often its request or its *)
(* job is repeated, unless the outcome of a message was lost (the sender   *)
(* died or got no answer after the message had gone out) or two senders    *)
(* with the key ran side by side.                                          *)
(***************************************************************************)
OncePerKey ==
  \A c \in Candidates, k \in AllKeys : <<c, k>> \notin doubtful => messages[c][k] <= 1

(***************************************************************************)
(* Each message needs an approval of its own, whatever the keys: requests  *)
(* of users, repeated jobs and several triggers do not send a candidate    *)
(* again that nobody has approved again.  The same exception.              *)
(***************************************************************************)
OneMessagePerApproval ==
  \A c \in Candidates : c \notin crowded => sends[c] <= approvals[c]

(***************************************************************************)
(* A candidate that a user has skipped or a purge has withdrawn is not     *)
(* sent before a user approves it: not by a job that is in the queue, a    *)
(* later trigger, the automatic approval or a candidate generated anew.    *)
(* Who had already read the candidate may still approve it or send it: a   *)
(* lane, or an agent that asks for a card.                                 *)
(***************************************************************************)
WithdrawnIsNotSent ==
  [][\A c \in Candidates : c \in barred => sends'[c] = sends[c]]_vars

(***************************************************************************)
(* What is shown as sent was sent: a message went out, or an agent has     *)
(* shown the card; and a key is recorded as sent only if so.               *)
(***************************************************************************)
SentWasDelivered ==
  \A c \in Candidates :
    status[c] = "sent" \/ (\E k \in AllKeys : audit[c][k] = "sent")
      => sends[c] > 0 \/ c \in acked

(***************************************************************************)
(* Every send job ends, done or in the dead-letter list: refused, without  *)
(* a route, or with a platform that does not answer.                       *)
(***************************************************************************)
SendJobsSettle ==
  \A c \in Candidates, e \in Events :
    job[c][e] = "open" ~> job[c][e] \in {"done", "dead"}

===============================================================================
