------------------------------ MODULE ModelCache ------------------------------
(***************************************************************************)
(* The cache of model results: embeddings and validated LLM answers, under *)
(* the text they were computed from.  An entry names the source events     *)
(* whose content the text holds, so that the purge of one of them reaches  *)
(* it.  A call looks its texts up, asks the provider for those it misses,  *)
(* and stores the answers; each access is a transaction of its own.  A     *)
(* purge is one transaction with much else in it: it marks the entries of  *)
(* its event and commits later (Postgres).                                 *)
(*                                                                         *)
(* A purge replaces the content of the event; a memory item that was made  *)
(* from it keeps its text, which graph writes send to the model under the  *)
(* same events as before.                                                  *)
(***************************************************************************)
EXTENDS Naturals, FiniteSets, Sequences, Functions

CONSTANTS
  Events, Texts,
  Inputs,     \* what a model is asked about,
  Text,       \* [Inputs -> Texts], as text,
  From,       \* [Inputs -> SUBSET Events], and the events the call names for it
  Outlives,   \* [Inputs -> SUBSET Events], those after whose purge it is still asked
              \* about: all of them for a memory item, for a prompt of events those
              \* whose content in it is the redacted one, none for an event
  Calls,      \* calls in flight
  MaxBatch,   \* bound: inputs of a call
  MaxPurging  \* bound: purges at a time

ASSUME CacheConstants ==
  /\ Text \in [Inputs -> Texts] /\ From \in [Inputs -> (SUBSET Events) \ {{}}]
  /\ Outlives \in [Inputs -> SUBSET Events]
  /\ MaxBatch \in Nat /\ MaxPurging \in Nat

VARIABLES
  status, sources,  \* entries, by text
  purged,           \* purged source events
  purging,          \* those whose purge has marked its entries and not committed,
  marked,           \* the entries it has marked, and locked, by their texts
  crossed,          \* history: texts whose entry was written since
  phase, todo,      \* a call: the inputs it has not looked up,
  seen,             \* the sources it will write for the first of them, a hit,
  misses,           \* and the texts it has missed, with their events
  began,            \* history: the events purged when the call began
  served            \* history: events for which a call was answered from an
                    \* entry or has stored it, by text

entries == <<status, sources>>
purges  == <<purging, marked, crossed>>
locals  == <<phase, todo, seen, misses>>
vars    == <<entries, purged, purges, locals, began, served>>

Missed(c) == {t \in Texts : misses[c][t] # {}}
NoMisses  == [t \in Texts |-> {}]

Init ==
  /\ status  = [t \in Texts |-> "none"]
  /\ sources = [t \in Texts |-> {}]
  /\ purged  = {}
  /\ purging = {}
  /\ marked  = [e \in Events |-> {}]
  /\ crossed = [e \in Events |-> {}]
  /\ phase   = [c \in Calls |-> "idle"]
  /\ todo    = [c \in Calls |-> <<>>]
  /\ seen    = [c \in Calls |-> {}]
  /\ misses  = [c \in Calls |-> NoMisses]
  /\ began   = [c \in Calls |-> {}]
  /\ served  = [t \in Texts |-> {}]

-----------------------------------------------------------------------------
(* The repository.                                                         *)

\* Entries locked by a purge: who would read or write one waits.
Locked == UNION {marked[e] : e \in Events}

\* The purges under way have looked at the entry as it was before.
Cross(t) ==
  /\ t \notin Locked
  /\ crossed' = [e \in Events |-> IF e \in purging THEN crossed[e] \cup {t} ELSE crossed[e]]
  /\ UNCHANGED <<purging, marked>>

\* Mutant: an entry is overwritten, sources included.
Put_Overwrites(t, A) ==
  /\ status'  = [status EXCEPT ![t] = "active"]
  /\ sources' = [sources EXCEPT ![t] = A]
  /\ Cross(t)

\* The sources of an entry that exists are kept, whatever its status was.
Put(t, A) ==
  /\ status'  = [status EXCEPT ![t] = "active"]
  /\ sources' = [sources EXCEPT ![t] = @ \cup A]
  /\ Cross(t)

\* Mutant: an entry that other events share is spared.
Invalidated_Sole(e) == {t \in Texts : status[t] = "active" /\ sources[t] = {e}}

Invalidated(e) == {t \in Texts : status[t] = "active" /\ e \in sources[t]}

\* One purge waits for another that has marked an entry of both.
BeginPurge(e) ==
  /\ e \notin purging /\ Cardinality(purging) < MaxPurging
  /\ Invalidated(e) \cap Locked = {}
  /\ purging' = purging \cup {e}
  /\ marked'  = [marked EXCEPT ![e] = Invalidated(e)]
  /\ UNCHANGED <<entries, purged, crossed, locals, began, served>>

EndPurge(e) ==
  /\ e \in purging
  /\ purging' = purging \ {e}
  /\ marked'  = [marked EXCEPT ![e] = {}]
  /\ crossed' = [crossed EXCEPT ![e] = {}]
  /\ UNCHANGED <<sources, locals, began, served>>

CommitPurge(e) ==
  /\ EndPurge(e)
  /\ purged' = purged \cup {e}
  /\ status' = [t \in Texts |-> IF t \in marked[e] THEN "invalidated" ELSE status[t]]

\* One of the other steps of the transaction fails.
AbortPurge(e) ==
  /\ EndPurge(e)
  /\ UNCHANGED <<purged, status>>

PurgeSource(e) == BeginPurge(e) \/ CommitPurge(e) \/ AbortPurge(e)

-----------------------------------------------------------------------------
(* A call: embed_batch with its inputs, or an LLM adapter with its prompt. *)

\* A call begins with the read of what it will ask about, with the content of that
\* time: nothing looks whether the events of an item are purged.
Begin(c, batch) ==
  /\ phase[c] = "idle"
  /\ \A i \in Range(batch) : From[i] \cap purged \subseteq Outlives[i]
  /\ phase' = [phase EXCEPT ![c] = "lookup"]
  /\ todo'  = [todo EXCEPT ![c] = batch]
  /\ began' = [began EXCEPT ![c] = purged]
  /\ UNCHANGED <<entries, purged, purges, seen, misses, served>>

\* Mutant: the end of the batch is missed.
Advance_Beyond(c, missed) ==
  /\ todo'  = [todo EXCEPT ![c] = Tail(@)]
  /\ phase' = [phase EXCEPT ![c] = IF Len(todo[c]) > 0 THEN "lookup"
                                   ELSE IF missed THEN "provider" ELSE "idle"]

\* The first input is done with: the next one, the provider, or the end.
Advance(c, missed) ==
  /\ todo'  = [todo EXCEPT ![c] = Tail(@)]
  /\ phase' = [phase EXCEPT ![c] = IF Len(todo[c]) > 1 THEN "lookup"
                                   ELSE IF missed THEN "provider" ELSE "idle"]

Serve(t, A) == served' = [served EXCEPT ![t] = @ \cup A]

\* A miss waits for the provider; equal texts of a batch are asked for once.
Miss(c) ==
  LET i == Head(todo[c])
  IN  /\ phase[c] = "lookup" /\ status[Text[i]] # "active"
      /\ misses' = [misses EXCEPT ![c][Text[i]] = @ \cup From[i]]
      /\ Advance(c, TRUE)
      /\ UNCHANGED <<entries, purged, purges, seen, began, served>>

NamesAll(i) == From[i] \subseteq sources[Text[i]]

\* The merge is sorted and compared with the stored order, which is the first
\* call's own until the entry is merged: it may differ though the events are all named.
MayBeUnsorted(t) == \E d, e \in sources[t] : d # e

\* A hit that names all the events of the input is answered as it is,
Hit(c) ==
  LET i == Head(todo[c])
  IN  /\ phase[c] = "lookup" /\ status[Text[i]] = "active" /\ NamesAll(i)
      /\ Text[i] \notin Locked
      /\ Serve(Text[i], From[i])
      /\ Advance(c, Missed(c) # {})
      /\ UNCHANGED <<entries, purged, purges, seen, misses, began>>

\* another is written again, with the sources as they were read and the new ones,
HitOther(c) ==
  LET i == Head(todo[c])
  IN  /\ phase[c] = "lookup" /\ status[Text[i]] = "active"
      /\ Text[i] \notin Locked
      /\ ~NamesAll(i) \/ MayBeUnsorted(Text[i])
      /\ seen'  = [seen EXCEPT ![c] = sources[Text[i]] \cup From[i]]
      /\ phase' = [phase EXCEPT ![c] = "merge"]
      /\ UNCHANGED <<entries, purged, purges, todo, misses, began, served>>

\* and becomes active again if a purge has come between.
Merge(c) ==
  LET i == Head(todo[c])
  IN  /\ phase[c] = "merge"
      /\ Put(Text[i], seen[c])
      /\ Serve(Text[i], From[i])
      /\ seen' = [seen EXCEPT ![c] = {}]
      /\ Advance(c, Missed(c) # {})
      /\ UNCHANGED <<purged, misses, began>>

Answer(c) ==
  /\ phase[c] = "provider"
  /\ phase' = [phase EXCEPT ![c] = "store"]
  /\ UNCHANGED <<entries, purged, purges, todo, seen, misses, began, served>>

\* The answers are stored one by one, as active entries, whatever was purged meanwhile.
Store(c, t) ==
  /\ phase[c] = "store" /\ t \in Missed(c)
  /\ Put(t, misses[c][t])
  /\ Serve(t, misses[c][t])
  /\ misses' = [misses EXCEPT ![c][t] = {}]
  /\ phase'  = [phase EXCEPT ![c] = IF Missed(c) = {t} THEN "idle" ELSE "store"]
  /\ UNCHANGED <<purged, todo, seen, began>>

\* The provider or a transaction fails, the process crashes, or the answer is one
\* that had to be repaired, which is not stored.
GiveUp(c) ==
  /\ phase[c] # "idle"
  /\ phase'  = [phase EXCEPT ![c] = "idle"]
  /\ todo'   = [todo EXCEPT ![c] = <<>>]
  /\ seen'   = [seen EXCEPT ![c] = {}]
  /\ misses' = [misses EXCEPT ![c] = NoMisses]
  /\ UNCHANGED <<entries, purged, purges, began, served>>

Batches == UNION {[1..n -> Inputs] : n \in 1..MaxBatch}

CallStep(c) ==
  \/ \E batch \in Batches : Begin(c, batch)
  \/ Miss(c) \/ Hit(c) \/ HitOther(c) \/ Merge(c) \/ Answer(c)
  \/ \E t \in Texts : Store(c, t)
  \/ GiveUp(c)

Next ==
  \/ \E e \in Events : PurgeSource(e)
  \/ \E c \in Calls : CallStep(c)

Spec == Init /\ [][Next]_vars

-----------------------------------------------------------------------------
(* Properties.                                                             *)

\* Type invariant: entries, calls and what they have missed are of the kinds the
\* repository and the clients know; only a call between a hit and its rewrite
\* holds the sources to write.
TypeOK ==
  /\ status  \in [Texts -> {"none", "active", "invalidated"}]
  /\ sources \in [Texts -> SUBSET Events]
  /\ purged  \in SUBSET Events /\ purging \in SUBSET Events
  /\ marked  \in [Events -> SUBSET Texts] /\ crossed \in [Events -> SUBSET Texts]
  /\ phase   \in [Calls -> {"idle", "lookup", "merge", "provider", "store"}]
  /\ todo    \in [Calls -> Seq(Inputs)]
  /\ seen    \in [Calls -> SUBSET Events]
  /\ misses  \in [Calls -> [Texts -> SUBSET Events]]
  /\ began   \in [Calls -> SUBSET Events]
  /\ served  \in [Texts -> SUBSET Events]
  /\ \A c \in Calls : (phase[c] \in {"lookup", "merge"}) <=> todo[c] # <<>>

\* An entry names every event whose call it has answered and every event whose call
\* has stored it: otherwise the purge of that event would pass the entry by.  The
\* lookup and the write are different transactions, calls for the same text of
\* different events run side by side, and the entry may be invalidated between.
SourcesAreKept == \A t \in Texts : served[t] \subseteq sources[t]

\* An entry none of whose events is left.
Orphan(t) == status[t] = "active" /\ sources[t] # {} /\ sources[t] \subseteq purged

\* The events of a text that a call is about to write.
Writing(c, t) ==
  CASE phase[c] = "merge" /\ Text[Head(todo[c])] = t -> From[Head(todo[c])]
    [] phase[c] = "store"                            -> misses[c][t]
    [] OTHER                                         -> {}

\* The events after whose purge a text is still asked about.
Lasting(t) == UNION {Outlives[i] : i \in {j \in Inputs : Text[j] = t}}

\* A purge leaves no entry behind that only purged events have, but for one that was
\* written between its look at the entries and its commit.  Afterwards such an entry
\* comes only from a call that writes it for purged events.  Those that were purged
\* before the call began are the ones whose purge leaves the text in use, the events of
\* a memory item with this text: what is asked about for any other event was read
\* before its purge, in a call that has crossed the purge.
OrphansComeFromOverlaps ==
  [][\A t \in Texts : ~Orphan(t) /\ Orphan(t)' =>
       \/ \E e \in purging : t \in crossed[e]
       \/ \E c \in Calls :
            /\ Writing(c, t) # {} /\ Writing(c, t) \subseteq purged
            /\ Writing(c, t) \cap began[c] \subseteq Lasting(t)]_vars
===============================================================================
