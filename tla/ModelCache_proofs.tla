--------------------------- MODULE ModelCache_proofs ---------------------------
(***************************************************************************)
(* Proofs about ModelCache.                                                *)
(***************************************************************************)
EXTENDS ModelCache, SequenceTheorems, TLAPS

-----------------------------------------------------------------------------
(* Types.                                                                  *)

LEMMA TypeInit == Init => TypeOK
BY DEF Init, TypeOK, NoMisses

LEMMA PutType ==
  ASSUME TypeOK, NEW t \in Texts, NEW A \in SUBSET Events, Put(t, A)
  PROVE  /\ status'  \in [Texts -> {"none", "active", "invalidated"}]
         /\ sources' \in [Texts -> SUBSET Events]
         /\ purging' \in SUBSET Events
         /\ marked'  \in [Events -> SUBSET Texts]
         /\ crossed' \in [Events -> SUBSET Texts]
BY DEF TypeOK, Put, Cross

LEMMA PurgeFrame ==
  ASSUME NEW e \in Events, PurgeSource(e)
  PROVE  UNCHANGED <<sources, locals, began, served>>
BY DEF PurgeSource, BeginPurge, CommitPurge, AbortPurge, EndPurge, entries

LEMMA PurgeType ==
  ASSUME TypeOK, NEW e \in Events, PurgeSource(e)
  PROVE  /\ status'  \in [Texts -> {"none", "active", "invalidated"}]
         /\ purged'  \in SUBSET Events
         /\ purging' \in SUBSET Events
         /\ marked'  \in [Events -> SUBSET Texts]
         /\ crossed' \in [Events -> SUBSET Texts]
<1>1. CASE BeginPurge(e)
  BY <1>1 DEF TypeOK, BeginPurge, Invalidated, entries
<1>2. CASE CommitPurge(e)
  BY <1>2 DEF TypeOK, CommitPurge, EndPurge
<1>3. CASE AbortPurge(e)
  BY <1>3 DEF TypeOK, AbortPurge, EndPurge
<1> QED
  BY <1>1, <1>2, <1>3 DEF PurgeSource

LEMMA ServeType ==
  ASSUME TypeOK, NEW t \in Texts, NEW A \in SUBSET Events, Serve(t, A)
  PROVE  served' \in [Texts -> SUBSET Events]
BY DEF TypeOK, Serve

\* The first input of a call that has one left.
LEMMA HeadInput ==
  ASSUME TypeOK, NEW c \in Calls, phase[c] \in {"lookup", "merge"}
  PROVE  /\ Head(todo[c]) \in Inputs
         /\ Text[Head(todo[c])] \in Texts
         /\ From[Head(todo[c])] \in SUBSET Events
         /\ From[Head(todo[c])] # {}
<1>1. todo[c] \in Seq(Inputs) /\ todo[c] # <<>>
  BY DEF TypeOK
<1>2. Head(todo[c]) \in Inputs
  BY <1>1, HeadTailProperties
<1>3. \A i \in Inputs : Text[i] \in Texts /\ From[i] \in SUBSET Events /\ From[i] # {}
  BY CacheConstants
<1> QED
  BY <1>2, <1>3, Zenon

LEMMA AdvanceType ==
  ASSUME TypeOK, NEW c \in Calls, phase[c] \in {"lookup", "merge"},
         NEW missed \in BOOLEAN, Advance(c, missed)
  PROVE  /\ phase' \in [Calls -> {"idle", "lookup", "merge", "provider", "store"}]
         /\ todo'  \in [Calls -> Seq(Inputs)]
         /\ \A d \in Calls : (phase'[d] \in {"lookup", "merge"}) <=> todo'[d] # <<>>
<1>1. todo[c] \in Seq(Inputs) /\ todo[c] # <<>>
  BY DEF TypeOK
<1>2. /\ Tail(todo[c]) \in Seq(Inputs)
      /\ Len(Tail(todo[c])) = Len(todo[c]) - 1
      /\ Len(todo[c]) \in Nat
  BY <1>1, HeadTailProperties, LenProperties
<1>3. Tail(todo[c]) # <<>> <=> Len(todo[c]) > 1
  <2> DEFINE rest == Tail(todo[c])  n == Len(todo[c])
  <2>0. rest \in Seq(Inputs) /\ Len(rest) = n - 1 /\ n \in Nat
    BY <1>2
  <2> HIDE DEF rest, n
  <2>1. rest = <<>> => Len(rest) = 0
    BY EmptySeq, Zenon
  <2>2. rest # <<>> => Len(rest) \in Nat \ {0}
    BY <2>0, EmptySeq, Zenon
  <2>3. rest # <<>> <=> n > 1
    BY <2>0, <2>1, <2>2
  <2> QED
    BY <2>3 DEF rest, n
<1>4. /\ todo' = [todo EXCEPT ![c] = Tail(todo[c])]
      /\ phase' \in [Calls -> {"idle", "lookup", "merge", "provider", "store"}]
  BY DEF Advance, TypeOK
<1>5. todo' \in [Calls -> Seq(Inputs)]
  BY <1>2, <1>4 DEF TypeOK
<1>6. todo'[c] # <<>> <=> Len(todo[c]) > 1
  BY <1>3, <1>4 DEF TypeOK
<1>7. phase'[c] \in {"lookup", "merge"} <=> Len(todo[c]) > 1
  BY <1>2 DEF Advance, TypeOK
<1>8. ASSUME NEW d \in Calls, d # c
      PROVE  (phase'[d] \in {"lookup", "merge"}) <=> todo'[d] # <<>>
  BY <1>4, <1>8 DEF Advance, TypeOK
<1> QED
  BY <1>4, <1>5, <1>6, <1>7, <1>8

LEMMA TypeStep == TypeOK /\ [Next]_vars => TypeOK'
<1> SUFFICES ASSUME TypeOK, [Next]_vars PROVE TypeOK'
  OBVIOUS
<1> USE DEF entries, purges, locals
<1>1. CASE UNCHANGED vars
  BY <1>1 DEF TypeOK, vars
<1>2. ASSUME NEW e \in Events, PurgeSource(e) PROVE TypeOK'
  BY <1>2, PurgeFrame, PurgeType DEF TypeOK
<1>3. ASSUME NEW c \in Calls, NEW batch \in Batches, Begin(c, batch) PROVE TypeOK'
  <2>1. PICK n \in 1 .. MaxBatch : batch \in [1 .. n -> Inputs]
    BY DEF Batches
  <2>2. n \in Nat /\ n > 0
    BY CacheConstants
  <2>3. batch \in Seq(Inputs) /\ Len(batch) = n
    BY <2>1, <2>2, IsASeq, LenProperties
  <2>4. batch # <<>>
    BY <2>2, <2>3, EmptySeq
  <2> QED
    BY <1>3, <2>3, <2>4 DEF TypeOK, Begin
<1>4. ASSUME NEW c \in Calls, Miss(c) PROVE TypeOK'
  <2>1. phase[c] \in {"lookup", "merge"} /\ Advance(c, TRUE)
    BY <1>4 DEF Miss
  <2>2. misses' \in [Calls -> [Texts -> SUBSET Events]]
    BY <1>4, <2>1, HeadInput DEF Miss, TypeOK
  <2> QED
    BY <1>4, <2>1, <2>2, AdvanceType DEF Miss, TypeOK
<1>5. ASSUME NEW c \in Calls, Hit(c) PROVE TypeOK'
  <2>1. phase[c] \in {"lookup", "merge"} /\ Advance(c, Missed(c) # {})
    BY <1>5 DEF Hit
  <2>2. served' \in [Texts -> SUBSET Events]
    BY <1>5, <2>1, HeadInput, ServeType DEF Hit
  <2>3. (Missed(c) # {}) \in BOOLEAN
    OBVIOUS
  <2> QED
    BY <1>5, <2>1, <2>2, <2>3, AdvanceType DEF Hit, TypeOK
<1>6. ASSUME NEW c \in Calls, HitOther(c) PROVE TypeOK'
  <2>1. phase[c] \in {"lookup", "merge"}
    BY <1>6 DEF HitOther
  <2>2. seen' \in [Calls -> SUBSET Events]
    BY <1>6, <2>1, HeadInput DEF HitOther, TypeOK
  <2> QED
    BY <1>6, <2>1, <2>2 DEF HitOther, TypeOK
<1>7. ASSUME NEW c \in Calls, Merge(c) PROVE TypeOK'
  <2>1. phase[c] \in {"lookup", "merge"} /\ Advance(c, Missed(c) # {})
    BY <1>7 DEF Merge
  <2>2. seen[c] \in SUBSET Events
    BY DEF TypeOK
  <2>3. /\ status'  \in [Texts -> {"none", "active", "invalidated"}]
        /\ sources' \in [Texts -> SUBSET Events]
        /\ purging' \in SUBSET Events
        /\ marked'  \in [Events -> SUBSET Texts]
        /\ crossed' \in [Events -> SUBSET Texts]
    BY <1>7, <2>1, <2>2, HeadInput, PutType DEF Merge
  <2>4. served' \in [Texts -> SUBSET Events]
    BY <1>7, <2>1, HeadInput, ServeType DEF Merge
  <2>5. (Missed(c) # {}) \in BOOLEAN
    OBVIOUS
  <2> QED
    BY <1>7, <2>1, <2>3, <2>4, <2>5, AdvanceType DEF Merge, TypeOK
<1>8. ASSUME NEW c \in Calls, Answer(c) PROVE TypeOK'
  BY <1>8 DEF TypeOK, Answer
<1>9. ASSUME NEW c \in Calls, NEW t \in Texts, Store(c, t) PROVE TypeOK'
  <2>1. misses[c][t] \in SUBSET Events
    BY DEF TypeOK
  <2>2. /\ status'  \in [Texts -> {"none", "active", "invalidated"}]
        /\ sources' \in [Texts -> SUBSET Events]
        /\ purging' \in SUBSET Events
        /\ marked'  \in [Events -> SUBSET Texts]
        /\ crossed' \in [Events -> SUBSET Texts]
        /\ served'  \in [Texts -> SUBSET Events]
    BY <1>9, <2>1, PutType, ServeType DEF Store
  <2>3. misses' \in [Calls -> [Texts -> SUBSET Events]]
    BY <1>9 DEF Store, TypeOK
  <2> QED
    BY <1>9, <2>2, <2>3 DEF Store, TypeOK
<1>10. ASSUME NEW c \in Calls, GiveUp(c) PROVE TypeOK'
  BY <1>10, EmptySeq DEF TypeOK, GiveUp, NoMisses
<1> QED
  BY <1>1, <1>2, <1>3, <1>4, <1>5, <1>6, <1>7, <1>8, <1>9, <1>10 DEF Next, CallStep

\* The state keeps its types: the calls and the entries are of the kinds that the
\* cache clients and the repository know.
THEOREM TypeCorrect == Spec => []TypeOK
BY TypeInit, TypeStep, PTL DEF Spec

-----------------------------------------------------------------------------
(* The sources of an entry.                                                *)

\* Whatever is put, the sources of an entry only grow.
LEMMA PutKeeps ==
  ASSUME TypeOK, NEW t \in Texts, NEW A \in SUBSET Events, Put(t, A)
  PROVE  /\ \A u \in Texts : sources[u] \subseteq sources'[u]
         /\ A \subseteq sources'[t]
BY DEF TypeOK, Put

LEMMA ServedBy ==
  ASSUME TypeOK, SourcesAreKept, NEW t \in Texts, NEW A \in SUBSET Events, Serve(t, A),
         \A u \in Texts : sources[u] \subseteq sources'[u],
         A \subseteq sources'[t]
  PROVE  SourcesAreKept'
BY DEF TypeOK, SourcesAreKept, Serve

\* An unfinished rewrite of an entry holds the events of its own input.
SeenOK == \A c \in Calls : phase[c] = "merge" => From[Head(todo[c])] \subseteq seen[c]

LEMMA SeenStep == TypeOK /\ SeenOK /\ [Next]_vars => SeenOK'
<1> SUFFICES ASSUME TypeOK, SeenOK, [Next]_vars PROVE SeenOK'
  OBVIOUS
<1> USE DEF entries, purges, locals
<1>1. CASE UNCHANGED vars
  BY <1>1 DEF SeenOK, vars
<1>2. ASSUME NEW e \in Events, PurgeSource(e) PROVE SeenOK'
  BY <1>2, PurgeFrame DEF SeenOK
<1>3. ASSUME NEW c \in Calls, NEW batch \in Batches, Begin(c, batch) PROVE SeenOK'
  BY <1>3 DEF SeenOK, Begin, TypeOK
<1>4. ASSUME NEW c \in Calls, Miss(c) PROVE SeenOK'
  BY <1>4 DEF SeenOK, Miss, Advance, TypeOK
<1>5. ASSUME NEW c \in Calls, Hit(c) PROVE SeenOK'
  BY <1>5 DEF SeenOK, Hit, Advance, TypeOK
<1>6. ASSUME NEW c \in Calls, HitOther(c) PROVE SeenOK'
  BY <1>6 DEF SeenOK, HitOther, TypeOK
<1>7. ASSUME NEW c \in Calls, Merge(c) PROVE SeenOK'
  BY <1>7 DEF SeenOK, Merge, Advance, TypeOK
<1>8. ASSUME NEW c \in Calls, Answer(c) PROVE SeenOK'
  BY <1>8 DEF SeenOK, Answer, TypeOK
<1>9. ASSUME NEW c \in Calls, NEW t \in Texts, Store(c, t) PROVE SeenOK'
  BY <1>9 DEF SeenOK, Store, TypeOK
<1>10. ASSUME NEW c \in Calls, GiveUp(c) PROVE SeenOK'
  BY <1>10 DEF SeenOK, GiveUp, TypeOK
<1> QED
  BY <1>1, <1>2, <1>3, <1>4, <1>5, <1>6, <1>7, <1>8, <1>9, <1>10 DEF Next, CallStep

LEMMA KeptStep == TypeOK /\ SeenOK /\ SourcesAreKept /\ [Next]_vars => SourcesAreKept'
<1> SUFFICES ASSUME TypeOK, SeenOK, SourcesAreKept, [Next]_vars PROVE SourcesAreKept'
  OBVIOUS
<1> USE DEF entries, purges, locals
<1>1. CASE UNCHANGED <<sources, served>>
  BY <1>1 DEF SourcesAreKept
<1>2. ASSUME NEW c \in Calls, Hit(c) PROVE SourcesAreKept'
  <2>1. phase[c] = "lookup"
    BY <1>2 DEF Hit
  <2>2. From[Head(todo[c])] \subseteq sources'[Text[Head(todo[c])]]
    BY <1>2 DEF Hit, NamesAll
  <2> QED
    BY <1>2, <2>1, <2>2, HeadInput, ServedBy DEF Hit
<1>3. ASSUME NEW c \in Calls, Merge(c) PROVE SourcesAreKept'
  <2>1. phase[c] = "merge" /\ seen[c] \in SUBSET Events
    BY <1>3 DEF Merge, TypeOK
  <2>2. /\ \A u \in Texts : sources[u] \subseteq sources'[u]
        /\ seen[c] \subseteq sources'[Text[Head(todo[c])]]
    BY <1>3, <2>1, HeadInput, PutKeeps DEF Merge
  <2>3. From[Head(todo[c])] \subseteq seen[c]
    BY <2>1 DEF SeenOK
  <2> QED
    BY <1>3, <2>1, <2>2, <2>3, HeadInput, ServedBy DEF Merge
<1>4. ASSUME NEW c \in Calls, NEW t \in Texts, Store(c, t) PROVE SourcesAreKept'
  <2>1. misses[c][t] \in SUBSET Events
    BY DEF TypeOK
  <2>2. /\ \A u \in Texts : sources[u] \subseteq sources'[u]
        /\ misses[c][t] \subseteq sources'[t]
    BY <1>4, <2>1, PutKeeps DEF Store
  <2> QED
    BY <1>4, <2>1, <2>2, ServedBy DEF Store
<1> QED
  BY <1>1, <1>2, <1>3, <1>4, PurgeFrame
  DEF Next, CallStep, vars, Begin, Miss, HitOther, Answer, GiveUp

\* An entry names every event for which a call was answered from it or has stored
\* it, whatever ran between the lookup and the write.
THEOREM SourcesKept == Spec => []SourcesAreKept
<1>1. Init => SeenOK /\ SourcesAreKept
  BY DEF Init, SeenOK, SourcesAreKept
<1>2. TypeOK /\ SeenOK /\ SourcesAreKept /\ [Next]_vars => SeenOK' /\ SourcesAreKept'
  BY SeenStep, KeptStep
<1> QED
  BY <1>1, <1>2, TypeCorrect, PTL DEF Spec

-----------------------------------------------------------------------------
(* Orphans.                                                                *)

\* A call that is over has nothing left to store.
IdleOK == \A c \in Calls : phase[c] = "idle" => \A t \in Texts : misses[c][t] = {}

LEMMA IdleStep == TypeOK /\ IdleOK /\ [Next]_vars => IdleOK'
<1> SUFFICES ASSUME TypeOK, IdleOK, [Next]_vars PROVE IdleOK'
  OBVIOUS
<1> USE DEF entries, purges, locals
<1>1. CASE UNCHANGED <<phase, misses>>
  BY <1>1 DEF IdleOK
<1>2. ASSUME NEW c \in Calls, NEW batch \in Batches, Begin(c, batch) PROVE IdleOK'
  BY <1>2 DEF IdleOK, Begin, TypeOK
<1>3. ASSUME NEW c \in Calls, Miss(c) PROVE IdleOK'
  BY <1>3 DEF IdleOK, Miss, Advance, TypeOK
<1>4. ASSUME NEW c \in Calls, Hit(c) PROVE IdleOK'
  BY <1>4 DEF IdleOK, Hit, Advance, Missed, TypeOK
<1>5. ASSUME NEW c \in Calls, HitOther(c) PROVE IdleOK'
  BY <1>5 DEF IdleOK, HitOther, TypeOK
<1>6. ASSUME NEW c \in Calls, Merge(c) PROVE IdleOK'
  BY <1>6 DEF IdleOK, Merge, Advance, Missed, TypeOK
<1>7. ASSUME NEW c \in Calls, Answer(c) PROVE IdleOK'
  BY <1>7 DEF IdleOK, Answer, TypeOK
<1>8. ASSUME NEW c \in Calls, NEW t \in Texts, Store(c, t) PROVE IdleOK'
  BY <1>8 DEF IdleOK, Store, Missed, TypeOK
<1>9. ASSUME NEW c \in Calls, GiveUp(c) PROVE IdleOK'
  BY <1>9 DEF IdleOK, GiveUp, NoMisses, TypeOK
<1> QED
  BY <1>1, <1>2, <1>3, <1>4, <1>5, <1>6, <1>7, <1>8, <1>9, PurgeFrame DEF Next, CallStep, vars

\* Of the events that were purged before a call began, those of its inputs and of
\* its misses are events whose purge leaves the input, or the text, in use.
TodoOK   == \A c \in Calls : \A i \in Range(todo[c]) : From[i] \cap began[c] \subseteq Outlives[i]
MissesOK == \A c \in Calls : \A t \in Texts : misses[c][t] \cap began[c] \subseteq Lasting(t)

\* The inputs that are left are inputs of the call.
LEMMA RangeOfTail ==
  ASSUME NEW S, NEW s \in Seq(S), s # <<>>
  PROVE  Head(s) \in Range(s) /\ Range(Tail(s)) \subseteq Range(s)
<1>1. Len(s) \in Nat /\ DOMAIN s = 1 .. Len(s)
  BY LenProperties
<1>2. Len(s) # 0
  BY EmptySeq
<1>3. Head(s) = s[1] /\ 1 \in DOMAIN s
  BY <1>1, <1>2
<1>4. /\ Tail(s) \in Seq(S) /\ Len(Tail(s)) = Len(s) - 1
      /\ \A n \in 1 .. Len(Tail(s)) : Tail(s)[n] = s[n + 1]
  BY HeadTailProperties
<1>5. DOMAIN Tail(s) = 1 .. Len(Tail(s))
  BY <1>4, LenProperties
<1>6. \A n \in DOMAIN Tail(s) : n + 1 \in DOMAIN s /\ Tail(s)[n] = s[n + 1]
  BY <1>1, <1>4, <1>5
<1>7. Head(s) \in Range(s)
  BY <1>3, Zenon DEF Range
<1>8. \A x \in Range(Tail(s)) : x \in Range(s)
  <2>1. ASSUME NEW x \in Range(Tail(s)) PROVE x \in Range(s)
    <3>1. PICK n \in DOMAIN Tail(s) : x = Tail(s)[n]
      BY Zenon DEF Range
    <3>2. n + 1 \in DOMAIN s /\ x = s[n + 1]
      BY <1>6, <3>1
    <3> QED
      BY <3>2, Zenon DEF Range
  <2> QED
    BY <2>1
<1> QED
  BY <1>7, <1>8

LEMMA LastingOf ==
  ASSUME NEW i \in Inputs
  PROVE  Outlives[i] \subseteq Lasting(Text[i])
BY DEF Lasting

LEMMA TodoStep == TypeOK /\ TodoOK /\ [Next]_vars => TodoOK'
<1> SUFFICES ASSUME TypeOK, TodoOK, [Next]_vars PROVE TodoOK'
  OBVIOUS
<1> USE DEF entries, purges, locals
<1>1. CASE UNCHANGED <<todo, began>>
  BY <1>1, Zenon DEF TodoOK
<1>2. ASSUME NEW c \in Calls, NEW batch \in Batches, Begin(c, batch) PROVE TodoOK'
  <2>1. /\ todo'[c] = batch /\ began'[c] = purged
        /\ \A d \in Calls \ {c} : todo'[d] = todo[d] /\ began'[d] = began[d]
    BY <1>2 DEF Begin, TypeOK
  <2>2. \A i \in Range(batch) : From[i] \cap purged \subseteq Outlives[i]
    BY <1>2 DEF Begin
  <2> QED
    BY <2>1, <2>2, Zenon DEF TodoOK
<1>3. ASSUME NEW c \in Calls, NEW missed \in BOOLEAN, phase[c] \in {"lookup", "merge"},
             Advance(c, missed), UNCHANGED began
      PROVE  TodoOK'
  <2>1. todo[c] \in Seq(Inputs) /\ todo[c] # <<>>
    BY <1>3 DEF TypeOK
  <2>2. Range(Tail(todo[c])) \subseteq Range(todo[c])
    BY <2>1, RangeOfTail
  <2>3. /\ todo'[c] = Tail(todo[c])
        /\ \A d \in Calls \ {c} : todo'[d] = todo[d]
    BY <1>3 DEF Advance, TypeOK
  <2> QED
    BY <1>3, <2>2, <2>3, Zenon DEF TodoOK
<1>4. ASSUME NEW c \in Calls, GiveUp(c) PROVE TodoOK'
  <2>1. /\ todo'[c] = <<>> /\ UNCHANGED began
        /\ \A d \in Calls \ {c} : todo'[d] = todo[d]
    BY <1>4 DEF GiveUp, TypeOK
  <2>2. Range(<<>>) = {}
    BY DEF Range
  <2> QED
    BY <2>1, <2>2, Zenon DEF TodoOK
<1>5. ASSUME NEW c \in Calls, Miss(c) \/ Hit(c) \/ Merge(c)
      PROVE  /\ phase[c] \in {"lookup", "merge"} /\ UNCHANGED began
             /\ Advance(c, TRUE) \/ Advance(c, Missed(c) # {})
  BY <1>5 DEF Miss, Hit, Merge
<1>6. TRUE \in BOOLEAN /\ \A c \in Calls : (Missed(c) # {}) \in BOOLEAN
  OBVIOUS
<1>7. ASSUME NEW c \in Calls, Miss(c) \/ Hit(c) \/ Merge(c) PROVE TodoOK'
  <2>1. /\ phase[c] \in {"lookup", "merge"} /\ UNCHANGED began
        /\ Advance(c, TRUE) \/ Advance(c, Missed(c) # {})
    BY <1>5, <1>7
  <2>2. CASE Advance(c, TRUE)
    BY <1>3, <2>1, <2>2
  <2>3. CASE Advance(c, Missed(c) # {})
    BY <1>3, <1>6, <2>1, <2>3
  <2> QED
    BY <2>1, <2>2, <2>3
<1> QED
  BY <1>1, <1>2, <1>4, <1>7, PurgeFrame DEF Next, CallStep, vars, HitOther, Answer, Store

LEMMA MissesStep == TypeOK /\ IdleOK /\ TodoOK /\ MissesOK /\ [Next]_vars => MissesOK'
<1> SUFFICES ASSUME TypeOK, IdleOK, TodoOK, MissesOK, [Next]_vars PROVE MissesOK'
  OBVIOUS
<1> USE DEF entries, purges, locals
<1>0. \A t \in Texts : Lasting(t)' = Lasting(t)
  BY DEF Lasting
<1>1. CASE UNCHANGED <<misses, began>>
  BY <1>1, <1>0, Zenon DEF MissesOK
<1>2. ASSUME NEW c \in Calls, NEW batch \in Batches, Begin(c, batch) PROVE MissesOK'
  <2>1. /\ UNCHANGED misses
        /\ \A d \in Calls \ {c} : began'[d] = began[d]
        /\ \A t \in Texts : misses[c][t] = {}
    BY <1>2 DEF Begin, TypeOK, IdleOK
  <2> QED
    BY <1>0, <2>1 DEF MissesOK
<1>3. ASSUME NEW c \in Calls, Miss(c) PROVE MissesOK'
  <2> DEFINE i == Head(todo[c])
  <2>1. phase[c] \in {"lookup", "merge"} /\ todo[c] \in Seq(Inputs) /\ todo[c] # <<>>
    BY <1>3 DEF Miss, TypeOK
  <2>2. i \in Range(todo[c]) /\ i \in Inputs /\ Text[i] \in Texts
    BY <2>1, RangeOfTail, HeadInput
  <2>3. From[i] \cap began[c] \subseteq Lasting(Text[i])
    BY <2>2, LastingOf, Zenon DEF TodoOK
  <2>4. /\ UNCHANGED began
        /\ misses' = [misses EXCEPT ![c][Text[i]] = @ \cup From[i]]
    BY <1>3 DEF Miss
  <2> HIDE DEF i
  <2>5. /\ misses'[c][Text[i]] = misses[c][Text[i]] \cup From[i]
        /\ \A d \in Calls, t \in Texts : d # c \/ t # Text[i] => misses'[d][t] = misses[d][t]
    BY <2>2, <2>4 DEF TypeOK
  <2>6. misses[c][Text[i]] \cap began[c] \subseteq Lasting(Text[i])
    BY <2>2 DEF MissesOK
  <2>7. misses'[c][Text[i]] \cap began[c] \subseteq Lasting(Text[i])
    BY <2>3, <2>5, <2>6
  <2>8. ASSUME NEW d \in Calls, NEW t \in Texts
        PROVE  misses'[d][t] \cap began'[d] \subseteq Lasting(t)
    <3>1. CASE d = c /\ t = Text[i]
      BY <2>4, <2>7, <3>1
    <3>2. CASE d # c \/ t # Text[i]
      BY <2>4, <2>5, <3>2 DEF MissesOK
    <3> QED
      BY <3>1, <3>2
  <2> QED
    BY <1>0, <2>8 DEF MissesOK
<1>4. ASSUME NEW c \in Calls, NEW t \in Texts, Store(c, t) PROVE MissesOK'
  <2>1. /\ UNCHANGED began
        /\ \A d \in Calls, u \in Texts : misses'[d][u] \subseteq misses[d][u]
    BY <1>4 DEF Store, TypeOK
  <2> QED
    BY <1>0, <2>1 DEF MissesOK
<1>5. ASSUME NEW c \in Calls, GiveUp(c) PROVE MissesOK'
  <2>1. /\ UNCHANGED began
        /\ \A d \in Calls, u \in Texts : misses'[d][u] \subseteq misses[d][u]
    BY <1>5 DEF GiveUp, NoMisses, TypeOK
  <2> QED
    BY <1>0, <2>1 DEF MissesOK
<1> QED
  BY <1>1, <1>2, <1>3, <1>4, <1>5, PurgeFrame
  DEF Next, CallStep, vars, Hit, HitOther, Merge, Answer

\* A purge under way has marked the entries of its event but those written since.
PassedOK == \A e \in purging : Invalidated(e) \subseteq marked[e] \cup crossed[e]

LEMMA PassedStep == TypeOK /\ PassedOK /\ [Next]_vars => PassedOK'
<1> SUFFICES ASSUME TypeOK, PassedOK, [Next]_vars PROVE PassedOK'
  OBVIOUS
<1> USE DEF entries, purges
<1>1. CASE UNCHANGED <<entries, purges>>
  BY <1>1 DEF PassedOK, Invalidated
<1>2. ASSUME NEW e \in Events, BeginPurge(e) PROVE PassedOK'
  <2>1. /\ purging' = purging \cup {e} /\ UNCHANGED <<status, sources, crossed>>
        /\ marked'[e] = Invalidated(e)
        /\ \A d \in Events \ {e} : marked'[d] = marked[d]
    BY <1>2 DEF BeginPurge, TypeOK
  <2>2. \A d \in Events : Invalidated(d)' = Invalidated(d)
    BY <2>1 DEF Invalidated
  <2>3. ASSUME NEW d \in purging' PROVE Invalidated(d)' \subseteq marked'[d] \cup crossed'[d]
    <3>1. d \in Events
      BY <1>2, <2>1 DEF TypeOK
    <3>2. CASE d = e
      BY <2>1, <2>2, <3>2
    <3>3. CASE d # e
      BY <2>1, <2>2, <3>1, <3>3 DEF PassedOK
    <3> QED
      BY <3>2, <3>3
  <2> QED
    BY <2>3 DEF PassedOK
<1>3. ASSUME NEW e \in Events, CommitPurge(e) \/ AbortPurge(e) PROVE PassedOK'
  <2>1. /\ purging' = purging \ {e} /\ UNCHANGED sources
        /\ \A d \in Events \ {e} : marked'[d] = marked[d] /\ crossed'[d] = crossed[d]
        /\ \A t \in Texts : status'[t] = "active" => status[t] = "active"
    BY <1>3 DEF CommitPurge, AbortPurge, EndPurge, TypeOK
  <2>2. \A d \in Events : Invalidated(d)' \subseteq Invalidated(d)
    BY <2>1 DEF Invalidated
  <2>3. \A d \in purging' : d \in purging /\ d \in Events \ {e}
    BY <2>1 DEF TypeOK
  <2>4. ASSUME NEW d \in purging' PROVE Invalidated(d)' \subseteq marked'[d] \cup crossed'[d]
    BY <2>1, <2>2, <2>3 DEF PassedOK
  <2> QED
    BY <2>4 DEF PassedOK
<1>4. ASSUME NEW t \in Texts, NEW A \in SUBSET Events, Put(t, A) PROVE PassedOK'
  <2>1. /\ UNCHANGED <<purging, marked>>
        /\ \A e \in purging : crossed'[e] = crossed[e] \cup {t}
        /\ \A u \in Texts \ {t} : status'[u] = status[u] /\ sources'[u] = sources[u]
    BY <1>4 DEF Put, Cross, TypeOK
  <2>2. \A e \in Events : Invalidated(e)' \subseteq Invalidated(e) \cup {t}
    BY <2>1 DEF Invalidated
  <2>3. ASSUME NEW e \in purging' PROVE Invalidated(e)' \subseteq marked'[e] \cup crossed'[e]
    <3>1. e \in purging /\ e \in Events
      BY <2>1 DEF TypeOK
    <3> QED
      BY <2>1, <2>2, <3>1 DEF PassedOK
  <2> QED
    BY <2>3 DEF PassedOK
<1>5. ASSUME NEW c \in Calls, Merge(c) PROVE PassedOK'
  <2>1. phase[c] = "merge" /\ seen[c] \in SUBSET Events
    BY <1>5 DEF Merge, TypeOK
  <2>2. Put(Text[Head(todo[c])], seen[c])
    BY <1>5 DEF Merge
  <2> QED
    BY <1>4, <2>1, <2>2, HeadInput
<1>6. ASSUME NEW c \in Calls, NEW t \in Texts, Store(c, t) PROVE PassedOK'
  <2>1. misses[c][t] \in SUBSET Events /\ Put(t, misses[c][t])
    BY <1>6 DEF Store, TypeOK
  <2> QED
    BY <1>4, <2>1
<1> QED
  BY <1>1, <1>2, <1>3, <1>5, <1>6
  DEF Next, PurgeSource, CallStep, vars, Begin, Miss, Hit, HitOther, Answer, GiveUp

NewOrphan(t) == ~Orphan(t) /\ Orphan(t)'

Crossed(t) == \E e \in purging : t \in crossed[e]

Overlapped(t) ==
  \E c \in Calls :
     /\ Writing(c, t) # {} /\ Writing(c, t) \subseteq purged
     /\ Writing(c, t) \cap began[c] \subseteq Lasting(t)

LEMMA PurgeLeavesCrossed ==
  ASSUME TypeOK, PassedOK, NEW e \in Events, PurgeSource(e), NEW t \in Texts, NewOrphan(t)
  PROVE  Crossed(t)
<1>1. CASE UNCHANGED <<status, sources, purged>>
  BY <1>1 DEF NewOrphan, Orphan
<1>2. CASE CommitPurge(e)
  <2>1. e \in purging /\ UNCHANGED sources /\ purged' = purged \cup {e}
    BY <1>2 DEF CommitPurge, EndPurge
  <2>2. t \notin marked[e] /\ status[t] = "active"
    BY <1>2 DEF CommitPurge, NewOrphan, Orphan, TypeOK
  <2>3. e \in sources[t]
    BY <2>1, <2>2 DEF NewOrphan, Orphan, TypeOK
  <2>4. t \in Invalidated(e)
    BY <2>2, <2>3 DEF Invalidated
  <2> QED
    BY <2>1, <2>2, <2>4 DEF PassedOK, Crossed
<1> QED
  BY <1>1, <1>2 DEF PurgeSource, BeginPurge, AbortPurge, EndPurge, entries

LEMMA WriteMakes ==
  ASSUME TypeOK, NEW t \in Texts, NEW u \in Texts, NEW A \in SUBSET Events, Put(t, A),
         UNCHANGED purged, NewOrphan(u)
  PROVE  u = t /\ A \subseteq purged
BY DEF TypeOK, Put, NewOrphan, Orphan

LEMMA OrphanStep ==
  ASSUME TypeOK, SeenOK, TodoOK, MissesOK, PassedOK, [Next]_vars, NEW t \in Texts, NewOrphan(t)
  PROVE  Crossed(t) \/ Overlapped(t)
<1> USE DEF entries, purges, locals
<1>1. CASE UNCHANGED <<status, sources, purged>>
  BY <1>1 DEF NewOrphan, Orphan
<1>2. ASSUME NEW e \in Events, PurgeSource(e) PROVE Crossed(t)
  BY <1>2, PurgeLeavesCrossed
<1>3. ASSUME NEW c \in Calls, Merge(c) PROVE Overlapped(t)
  <2> DEFINE i == Head(todo[c])
  <2>1. phase[c] = "merge" /\ seen[c] \in SUBSET Events
    BY <1>3 DEF Merge, TypeOK
  <2>2. t = Text[i] /\ seen[c] \subseteq purged
    BY <1>3, <2>1, HeadInput, WriteMakes DEF Merge
  <2>3. Writing(c, t) = From[i]
    BY <2>1, <2>2 DEF Writing
  <2>4. From[i] # {} /\ From[i] \subseteq purged
    BY <2>1, <2>2, HeadInput DEF SeenOK
  <2>5. todo[c] \in Seq(Inputs) /\ todo[c] # <<>>
    BY <2>1 DEF TypeOK
  <2>6. i \in Range(todo[c]) /\ i \in Inputs
    BY <2>1, <2>5, RangeOfTail, HeadInput
  <2>7. From[i] \cap began[c] \subseteq Lasting(t)
    BY <2>2, <2>6, LastingOf, Zenon DEF TodoOK
  <2> QED
    BY <2>3, <2>4, <2>7 DEF Overlapped
<1>4. ASSUME NEW c \in Calls, NEW u \in Texts, Store(c, u) PROVE Overlapped(t)
  <2>1. misses[c][u] \in SUBSET Events
    BY DEF TypeOK
  <2>2. t = u /\ misses[c][u] \subseteq purged
    BY <1>4, <2>1, WriteMakes DEF Store
  <2>3. misses[c][t] # {} /\ Writing(c, t) = misses[c][t]
    BY <1>4, <2>2 DEF Store, Missed, Writing
  <2>4. misses[c][t] \cap began[c] \subseteq Lasting(t)
    BY DEF MissesOK
  <2> QED
    BY <2>2, <2>3, <2>4 DEF Overlapped
<1> QED
  BY <1>1, <1>2, <1>3, <1>4
  DEF Next, CallStep, vars, Begin, Miss, Hit, HitOther, Answer, GiveUp

\* A purge leaves no entry behind that only purged events have, but for one written
\* while it was under way: a call that brings one back later writes it for purged
\* events, of which it has read all before their purge but those whose purge leaves
\* the text in use.
THEOREM OrphansOverlap == Spec => OrphansComeFromOverlaps
<1>1. Init => SeenOK /\ IdleOK /\ TodoOK /\ MissesOK /\ PassedOK
  BY DEF Init, SeenOK, IdleOK, TodoOK, MissesOK, PassedOK, NoMisses
<1>2. TypeOK /\ SeenOK /\ TodoOK /\ MissesOK /\ PassedOK /\ [Next]_vars
        => [\A t \in Texts : ~Orphan(t) /\ Orphan(t)' =>
              \/ \E e \in purging : t \in crossed[e]
              \/ \E c \in Calls :
                   /\ Writing(c, t) # {} /\ Writing(c, t) \subseteq purged
                   /\ Writing(c, t) \cap began[c] \subseteq Lasting(t)]_vars
  BY OrphanStep DEF NewOrphan, Crossed, Overlapped
<1>3. TypeOK /\ SeenOK /\ IdleOK /\ TodoOK /\ MissesOK /\ PassedOK /\ [Next]_vars
        => SeenOK' /\ IdleOK' /\ TodoOK' /\ MissesOK' /\ PassedOK'
  BY SeenStep, IdleStep, TodoStep, MissesStep, PassedStep
<1> QED
  BY <1>1, <1>2, <1>3, TypeCorrect, PTL DEF Spec, OrphansComeFromOverlaps
===============================================================================
