----------------------------- MODULE LocalStore -----------------------------
(***************************************************************************)
(* The browser's queue of local changes: edge/client/local-store.ts and its *)
(* in-page twin in edge/client/shopper-state.client.js.  All tabs of one    *)
(* browser share the IndexedDB stores.  Each tab may replay the queue on    *)
(* its own: it reads the whole list, submits one change after the other to  *)
(* POST /v1/sync/merge and deletes each one that the answer contains.  A     *)
(* tab may be closed, the browser may go offline, and an answer may be lost  *)
(* between any two of these steps.                                           *)
(*                                                                         *)
(* An IndexedDB transaction is one step: count and add of a record share a   *)
(* readwrite transaction, list and delete have their own.  The keys are      *)
(* autoIncrement keys, which are never used twice.                           *)
(***************************************************************************)
EXTENDS Naturals, FiniteSets, Sequences, SequencesExt, TLAPS,
        FiniteSetTheorems, WellFoundedInduction

CONSTANTS
  Tabs,
  MAXIMUM_PENDING_CHANGES,
  MaxSequence,    \* bound: changes recorded in all
  MaxCloses,      \* bound: tabs closed or reloaded
  MaxMerges       \* bound: changes that reach the core

QueueAssumption ==
  /\ MAXIMUM_PENDING_CHANGES \in Nat \ {0}
  /\ MaxSequence \in Nat
  /\ MaxCloses \in Nat
  /\ MaxMerges \in Nat

VARIABLES
  pending,        \* the 'pending-changes' store: the sequences it holds
  lastSequence,   \* its key generator
  online,         \* navigator.onLine
  replay,         \* per tab: what replayPendingChanges has left to do, or Idle
  merged,         \* external: the sequences POST /v1/sync/merge has answered for, in order
  closes

vars == <<pending, lastSequence, online, replay, merged, closes>>

Idle == [at |-> "idle", rest |-> {}]
Stages == {"idle", "session", "list", "submit", "sent", "answered", "refused"}

TypeOK ==
  /\ pending \in SUBSET (1..MaxSequence)
  /\ Cardinality(pending) <= MAXIMUM_PENDING_CHANGES
  /\ lastSequence \in 0..MaxSequence
  /\ online \in BOOLEAN
  /\ replay \in [Tabs -> [at: Stages, rest: SUBSET (1..MaxSequence)]]
  /\ merged \in Seq(1..MaxSequence)
  /\ closes \in 0..MaxCloses

Init ==
  /\ pending = {}
  /\ lastSequence = 0
  /\ online \in BOOLEAN
  /\ replay = [t \in Tabs |-> Idle]
  /\ merged = <<>>
  /\ closes = 0

(* The list a replay has read is sorted by sequence; the loop takes the next *)
(* change from its front.  The model keeps the changes still to come as a    *)
(* set: the front is the earliest of them.                                   *)
Earliest(rest) == Min(rest)

Rest(p) == p.rest \ {Earliest(p.rest)}

(* Mutant: the limit is checked one too late. *)
AppendChangeWithinLimit_Late ==
  /\ lastSequence < MaxSequence
  /\ Cardinality(pending) <= MAXIMUM_PENDING_CHANGES
  /\ lastSequence' = lastSequence + 1
  /\ pending' = pending \cup {lastSequence'}

(* appendChangeWithinLimit, for any tab: refused at the limit, with nothing  *)
(* written.                                                                  *)
AppendChangeWithinLimit ==
  /\ lastSequence < MaxSequence
  /\ Cardinality(pending) < MAXIMUM_PENDING_CHANGES
  /\ lastSequence' = lastSequence + 1
  /\ pending' = pending \cup {lastSequence'}

(* recordChange. *)
RecordChange ==
  AppendChangeWithinLimit /\ UNCHANGED <<online, replay, merged, closes>>

(* replayPendingChanges: at most one replay at a time in a tab, started when *)
(* the page boots online and at every 'online' event.                        *)
ReplayStart(t) ==
  /\ online
  /\ replay[t].at = "idle"
  /\ replay' = [replay EXCEPT ![t].at = "session"]
  /\ UNCHANGED <<pending, lastSequence, online, merged, closes>>

(* Mutant: a refused session leaves replayInFlight set. *)
EstablishSession_NoFinally(t) ==
  /\ replay[t].at = "session"
  /\ online /\ replay' = [replay EXCEPT ![t].at = "list"]
  /\ UNCHANGED <<pending, lastSequence, online, merged, closes>>

(* establishSession: without a session nothing is submitted. *)
EstablishSession(t) ==
  /\ replay[t].at = "session"
  /\ \/ online /\ replay' = [replay EXCEPT ![t].at = "list"]
     \/ replay' = [replay EXCEPT ![t] = Idle]
  /\ UNCHANGED <<pending, lastSequence, online, merged, closes>>

(* readPendingChanges, listChanges: one readonly transaction, sorted. *)
ListChanges(t) ==
  /\ replay[t].at = "list"
  /\ replay' = [replay EXCEPT ![t] = [at |-> "submit", rest |-> pending]]
  /\ UNCHANGED <<pending, lastSequence, online, merged, closes>>

(* The head of the loop: the next change is sent, or the replay is over. *)
Submit(t) ==
  /\ replay[t].at = "submit"
  /\ replay' = [replay EXCEPT ![t] = IF replay[t].rest = {} THEN Idle ELSE [@ EXCEPT !.at = "sent"]]
  /\ UNCHANGED <<pending, lastSequence, online, merged, closes>>

(* acceptedMerge: the answer has the shape of a merged state and its log     *)
(* contains this very change; anything else does not acknowledge it.         *)
AcceptedMerge(answer) == answer = "contains"

(* The request reaches the core, which merges it (SyncMerge: the log then    *)
(* contains the change), or does not: the fetch fails, the edge refuses.     *)
(* Only an answer that arrives and is readable acknowledges.                 *)
Answer(t) ==
  /\ replay[t].at = "sent"
  /\ \E answer \in {"contains", "unreadable", "none"} :
       /\ replay' = [replay EXCEPT ![t].at = IF AcceptedMerge(answer) THEN "answered" ELSE "refused"]
       /\ \/ /\ online
             /\ Len(merged) < MaxMerges
             /\ merged' = Append(merged, Earliest(replay[t].rest))
          \/ answer # "contains" /\ UNCHANGED merged
  /\ UNCHANGED <<pending, lastSequence, online, closes>>

(* Mutant: the whole list is dropped once its first change is acknowledged. *)
DeleteChanges_All(t) ==
  /\ replay[t].at = "answered"
  /\ pending' = pending \ replay[t].rest
  /\ replay' = [replay EXCEPT ![t] = [at |-> "submit", rest |-> Rest(@)]]
  /\ UNCHANGED <<lastSequence, online, merged, closes>>

(* acceptedMerge holds: deletePendingChange, and on to the next change. *)
DeleteChanges(t) ==
  /\ replay[t].at = "answered"
  /\ pending' = pending \ {Earliest(replay[t].rest)}
  /\ replay' = [replay EXCEPT ![t] = [at |-> "submit", rest |-> Rest(@)]]
  /\ UNCHANGED <<lastSequence, online, merged, closes>>

(* Mutant: a refused change is passed over. *)
Break_Continues(t) ==
  /\ replay[t].at = "refused"
  /\ replay' = [replay EXCEPT ![t] = [at |-> "submit", rest |-> Rest(@)]]
  /\ UNCHANGED <<pending, lastSequence, online, merged, closes>>

(* Not acknowledged: the loop ends, the rest is retained. *)
Break(t) ==
  /\ replay[t].at = "refused"
  /\ replay' = [replay EXCEPT ![t] = Idle]
  /\ UNCHANGED <<pending, lastSequence, online, merged, closes>>

(* The tab is closed or reloaded: its replay is gone, the stores stay. *)
Close(t) ==
  /\ closes < MaxCloses
  /\ closes' = closes + 1
  /\ replay[t] # Idle
  /\ replay' = [replay EXCEPT ![t] = Idle]
  /\ UNCHANGED <<pending, lastSequence, online, merged>>

(* navigator.onLine. *)
Connectivity ==
  online' = ~online /\ UNCHANGED <<pending, lastSequence, replay, merged, closes>>

ReplayStep(t) ==
  \/ EstablishSession(t) \/ ListChanges(t) \/ Submit(t)
  \/ Answer(t) \/ DeleteChanges(t) \/ Break(t)

Next ==
  \/ RecordChange
  \/ Connectivity
  \/ \E t \in Tabs : ReplayStart(t) \/ ReplayStep(t) \/ Close(t)

(* Every step of a replay that has begun ends: a fetch is settled, by an     *)
(* answer or by a failure, and so is a transaction.  Nothing makes the       *)
(* browser come online, and nothing but boot or an 'online' event starts a   *)
(* replay.                                                                   *)
Fairness ==
  \A t \in Tabs : WF_vars(ReplayStep(t))

Spec == Init /\ [][Next]_vars /\ Fairness

-----------------------------------------------------------------------------
(* A recorded change leaves the queue only after the core has merged it,     *)
(* whatever tabs replay at the same time, close or lose the network          *)
(* (deletePendingChange follows acceptedMerge).                              *)
NoChangeLost ==
  \A n \in 1..lastSequence : n \in pending \/ n \in ToSet(merged)

(* The core sees the changes in the order they were recorded: the first      *)
(* merge of a change comes after the first merge of every earlier one, also  *)
(* when two tabs replay the same queue (the loop stops at the first refusal).*)
MergedInOrder ==
  \A n \in ToSet(merged) : \A m \in 1..(n - 1) :
    \E i \in 1..Len(merged) : /\ merged[i] = m
                              /\ \A j \in 1..(i - 1) : merged[j] # n

(* A replay does not go on for ever: a tab that replays is idle again, so    *)
(* that the next 'online' event can start another one.                       *)
ReplayEnds == \A t \in Tabs : (replay[t].at # "idle") ~> (replay[t].at = "idle")

-----------------------------------------------------------------------------
(* The inductive invariant.  What a replay has left was read from the queue, *)
(* so whatever precedes it was merged; what it holds as answered is merged.  *)

PendingWasRecorded == pending \subseteq 1..lastSequence

PrecedingIsMerged ==
  \A t \in Tabs : \A n \in replay[t].rest : \A m \in 1..(n - 1) :
    m \in replay[t].rest \/ m \in ToSet(merged)

AnsweredIsMerged ==
  \A t \in Tabs :
    /\ replay[t].at \in {"sent", "answered", "refused"} => replay[t].rest # {}
    /\ replay[t].at = "answered" => Earliest(replay[t].rest) \in ToSet(merged)

QueueInv ==
  /\ TypeOK
  /\ PendingWasRecorded
  /\ PrecedingIsMerged
  /\ AnsweredIsMerged
  /\ NoChangeLost
  /\ MergedInOrder

(* The front of a list of changes that is not empty is its earliest one.     *)
LEMMA EarliestIsLeast ==
  ASSUME NEW rest \in SUBSET Nat, rest # {}
  PROVE  /\ Earliest(rest) \in rest
         /\ \A m \in rest : Earliest(rest) <= m
  <1> DEFINE Less == {p \in Nat \X Nat : p[1] < p[2]}
  <1>1. IsWellFoundedOn(Less, Nat)
    BY NatLessThanWellFounded, Zenon DEF OpToRel
  <1>2. PICK x \in rest : \A y \in rest : ~ (<<y, x>> \in Less)
    BY <1>1, WFMin, Zenon
  <1>3. \A y \in rest : x <= y
    <2> SUFFICES ASSUME NEW y \in rest PROVE x <= y
        OBVIOUS
    <2>1. <<y, x>> \in Nat \X Nat /\ <<y, x>>[1] = y /\ <<y, x>>[2] = x
      OBVIOUS
    <2>2. ~ (y < x)
      BY <1>2, <2>1, Zenon
    <2> QED
      BY <2>2
  <1> QED
    BY <1>3 DEF Earliest, Min

(* A merge adds its change to the merged ones and moves none of them.        *)
LEMMA MergedGrows ==
  ASSUME NEW S, NEW s \in Seq(S), NEW e \in S
  PROVE  /\ Append(s, e) \in Seq(S)
         /\ ToSet(Append(s, e)) = ToSet(s) \cup {e}
         /\ Len(Append(s, e)) = Len(s) + 1
         /\ \A i \in 1..Len(s) : Append(s, e)[i] = s[i]
         /\ ToSet(s) = {s[i] : i \in 1..Len(s)}
         /\ ToSet(s) \subseteq S
  <1> DEFINE a == Append(s, e)
  <1>1. /\ a \in Seq(S)
        /\ Len(a) = Len(s) + 1
        /\ \A i \in 1..Len(s) : a[i] = s[i]
        /\ a[Len(s) + 1] = e
    OBVIOUS
  <1>2. DOMAIN s = 1..Len(s) /\ DOMAIN a = 1..Len(a) /\ Len(s) \in Nat
    BY <1>1
  <1>3. ToSet(a) = {a[i] : i \in 1..(Len(s) + 1)}
    BY <1>1, <1>2 DEF ToSet
  <1>4. {a[i] : i \in 1..(Len(s) + 1)} = {s[i] : i \in 1..Len(s)} \cup {e}
    <2>1. \A i \in 1..(Len(s) + 1) : i \in 1..Len(s) \/ i = Len(s) + 1
      BY <1>2
    <2>2. \A i \in 1..Len(s) : i \in 1..(Len(s) + 1)
      BY <1>2
    <2>3. Len(s) + 1 \in 1..(Len(s) + 1)
      BY <1>2
    <2> HIDE DEF a
    <2> QED
      BY <1>1, <2>1, <2>2, <2>3
  <1>5. ToSet(s) = {s[i] : i \in 1..Len(s)}
    BY <1>2 DEF ToSet
  <1>6. {s[i] : i \in 1..Len(s)} \subseteq S
    OBVIOUS
  <1> QED
    BY <1>1, <1>3, <1>4, <1>5, <1>6

(* The empty queue of a new browser profile.                                 *)
LEMMA QueueInit == QueueAssumption /\ Init => QueueInv
  <1> SUFFICES ASSUME QueueAssumption, Init PROVE QueueInv
      OBVIOUS
  <1>1. Cardinality({}) = 0
    BY FS_EmptySet
  <1>2. ToSet(<< >>) = {}
    BY DEF ToSet
  <1> QED
    BY <1>1, <1>2 DEF QueueAssumption, Init, QueueInv, TypeOK, Idle, Stages,
       PendingWasRecorded, PrecedingIsMerged, AnsweredIsMerged, NoChangeLost, MergedInOrder

(* The queue is a finite set.                                                *)
LEMMA PendingIsFinite ==
  ASSUME QueueAssumption, TypeOK
  PROVE  IsFiniteSet(pending) /\ Cardinality(pending) \in Nat
  <1>1. IsFiniteSet(1..MaxSequence)
    BY FS_Interval DEF QueueAssumption
  <1>2. IsFiniteSet(pending)
    BY <1>1, FS_Subset DEF TypeOK
  <1> QED
    BY <1>2, FS_CardinalityType

(* A recorded change has the next sequence, which no replay and no merge has *)
(* seen.                                                                     *)
LEMMA RecordKeeps == QueueAssumption /\ QueueInv /\ RecordChange => QueueInv'
  <1> SUFFICES ASSUME QueueAssumption, QueueInv, RecordChange PROVE QueueInv'
      OBVIOUS
  <1> USE DEF RecordChange, AppendChangeWithinLimit, QueueAssumption
  <1>1. TypeOK'
    <2>1. IsFiniteSet(pending) /\ Cardinality(pending) \in Nat
      BY PendingIsFinite DEF QueueInv
    <2>2. Cardinality(pending \cup {lastSequence'})
            = IF lastSequence' \in pending THEN Cardinality(pending) ELSE Cardinality(pending) + 1
      BY <2>1, FS_AddElement
    <2>3. Cardinality(pending') <= MAXIMUM_PENDING_CHANGES
      BY <2>1, <2>2 DEF QueueInv, TypeOK
    <2>4. lastSequence' \in 0..MaxSequence /\ pending' \in SUBSET (1..MaxSequence)
      BY DEF QueueInv, TypeOK
    <2> QED
      BY <2>3, <2>4 DEF QueueInv, TypeOK
  <1>2. PendingWasRecorded' /\ NoChangeLost'
    BY DEF QueueInv, TypeOK, PendingWasRecorded, NoChangeLost
  <1>3. PrecedingIsMerged' /\ AnsweredIsMerged' /\ MergedInOrder'
    BY DEF QueueInv, PrecedingIsMerged, AnsweredIsMerged, MergedInOrder
  <1> QED
    BY <1>1, <1>2, <1>3 DEF QueueInv

(* A step that only moves one tab's replay and leaves it a list whose        *)
(* predecessors are merged keeps the invariant.                              *)
LEMMA ReplayKeeps ==
  ASSUME QueueInv, NEW t \in Tabs, NEW p \in [at: Stages, rest: SUBSET (1..MaxSequence)],
         replay' = [replay EXCEPT ![t] = p],
         UNCHANGED <<pending, lastSequence, merged>>,
         online' \in BOOLEAN, closes' \in 0..MaxCloses,
         \A n \in p.rest : \A m \in 1..(n - 1) : m \in p.rest \/ m \in ToSet(merged),
         p.at \in {"sent", "answered", "refused"} => p.rest # {},
         p.at = "answered" => Earliest(p.rest) \in ToSet(merged)
  PROVE  QueueInv'
  <1>1. \A u \in Tabs : replay'[u] = IF u = t THEN p ELSE replay[u]
    BY DEF QueueInv, TypeOK
  <1>2. TypeOK'
    BY DEF QueueInv, TypeOK
  <1>3. PendingWasRecorded' /\ NoChangeLost' /\ MergedInOrder'
    BY DEF QueueInv, PendingWasRecorded, NoChangeLost, MergedInOrder
  <1>4. PrecedingIsMerged' /\ AnsweredIsMerged'
    BY <1>1 DEF QueueInv, PrecedingIsMerged, AnsweredIsMerged
  <1> QED
    BY <1>2, <1>3, <1>4 DEF QueueInv

(* The loop moves on to what is left behind the front.                       *)
LEMMA RestKeeps ==
  ASSUME QueueInv, NEW t \in Tabs, replay[t].at = "answered"
  PROVE  /\ Rest(replay[t]) \in SUBSET (1..MaxSequence)
         /\ \A n \in Rest(replay[t]) : \A m \in 1..(n - 1) :
              m \in Rest(replay[t]) \/ m \in ToSet(merged)
  BY DEF QueueInv, TypeOK, Rest, PrecedingIsMerged, AnsweredIsMerged

(* A merge of the front of a list comes after the merges of all that was     *)
(* recorded before it.                                                       *)
LEMMA AnswerKeeps == QueueAssumption /\ QueueInv /\ (\E t \in Tabs : Answer(t)) => QueueInv'
  <1> SUFFICES ASSUME QueueAssumption, QueueInv, NEW t \in Tabs, Answer(t) PROVE QueueInv'
      OBVIOUS
  <1> DEFINE rest == replay[t].rest
             n == Earliest(rest)
  <1>1. rest # {} /\ rest \in SUBSET (1..MaxSequence) /\ replay[t].at = "sent"
    BY DEF Answer, QueueInv, TypeOK, AnsweredIsMerged
  <1>2. n \in rest /\ \A m \in rest : n <= m
    <2>1. rest \in SUBSET Nat
      BY <1>1 DEF QueueAssumption
    <2> QED
      BY <1>1, <2>1, EarliestIsLeast
  <1>3. \A m \in 1..(n - 1) : m \in ToSet(merged)
    <2>1. \A m \in 1..(n - 1) : m \notin rest
      BY <1>1, <1>2 DEF QueueAssumption
    <2> QED
      BY <1>2, <2>1 DEF QueueInv, PrecedingIsMerged
  <1>4. PICK answer \in {"contains", "unreadable", "none"} :
          /\ replay' = [replay EXCEPT ![t].at = IF AcceptedMerge(answer) THEN "answered" ELSE "refused"]
          /\ \/ merged' = Append(merged, n)
             \/ answer # "contains" /\ UNCHANGED merged
    BY DEF Answer
  <1>5. PICK at \in {"answered", "refused"} :
          /\ replay' = [replay EXCEPT ![t] = [at |-> at, rest |-> rest]]
          /\ at = "answered" => answer = "contains"
    <2>1. replay[t] \in [at: Stages, rest: SUBSET (1..MaxSequence)]
      BY DEF QueueInv, TypeOK
    <2>2. \A at : [replay[t] EXCEPT !.at = at] = [at |-> at, rest |-> rest]
      BY <2>1
    <2>3. CASE answer = "contains"
      <3>1. replay' = [replay EXCEPT ![t].at = "answered"]
        BY <1>4, <2>3 DEF AcceptedMerge
      <3>2. replay' = [replay EXCEPT ![t] = [at |-> "answered", rest |-> rest]]
        BY <2>1, <2>2, <3>1
      <3> QED
        BY <2>3, <3>2
    <2>4. CASE answer # "contains"
      <3>1. replay' = [replay EXCEPT ![t].at = "refused"]
        BY <1>4, <2>4 DEF AcceptedMerge
      <3>2. replay' = [replay EXCEPT ![t] = [at |-> "refused", rest |-> rest]]
        BY <2>1, <2>2, <3>1
      <3> QED
        BY <3>2
    <2> QED
      BY <2>3, <2>4
  <1>6. UNCHANGED <<pending, lastSequence, online, closes>>
    BY DEF Answer
  <1>7. CASE UNCHANGED merged /\ answer # "contains"
    <2>1. [at |-> at, rest |-> rest] \in [at: Stages, rest: SUBSET (1..MaxSequence)]
      BY <1>1 DEF Stages
    <2> QED
      BY <1>1, <1>5, <1>6, <1>7, <2>1, ReplayKeeps DEF QueueInv, TypeOK, PrecedingIsMerged
  <1>8. CASE merged' = Append(merged, n)
    <2>1. /\ merged' \in Seq(1..MaxSequence)
          /\ ToSet(merged') = ToSet(merged) \cup {n}
          /\ Len(merged') = Len(merged) + 1
          /\ \A i \in 1..Len(merged) : merged'[i] = merged[i]
          /\ ToSet(merged) = {merged[i] : i \in 1..Len(merged)}
          /\ ToSet(merged) \subseteq 1..MaxSequence
          /\ Len(merged) \in Nat
      <3>1. merged \in Seq(1..MaxSequence) /\ n \in 1..MaxSequence
        BY <1>1, <1>2 DEF QueueInv, TypeOK
      <3>2. Len(merged) \in Nat
        BY <3>1
      <3> HIDE DEF n
      <3>3. /\ Append(merged, n) \in Seq(1..MaxSequence)
            /\ ToSet(Append(merged, n)) = ToSet(merged) \cup {n}
            /\ Len(Append(merged, n)) = Len(merged) + 1
            /\ \A i \in 1..Len(merged) : Append(merged, n)[i] = merged[i]
            /\ ToSet(merged) = {merged[i] : i \in 1..Len(merged)}
            /\ ToSet(merged) \subseteq 1..MaxSequence
        BY <3>1, MergedGrows, Zenon
      <3> QED
        BY <1>8, <3>2, <3>3
    <2>2. TypeOK'
      BY <1>1, <1>5, <1>6, <2>1 DEF QueueInv, TypeOK, Stages
    <2>3. \A u \in Tabs : replay'[u].rest = replay[u].rest
      BY <1>5 DEF QueueInv, TypeOK
    <2>4. PendingWasRecorded' /\ NoChangeLost'
      BY <1>6, <2>1 DEF QueueInv, PendingWasRecorded, NoChangeLost
    <2>5. PrecedingIsMerged'
      BY <2>1, <2>3 DEF QueueInv, PrecedingIsMerged
    <2>6. AnsweredIsMerged'
      <3> SUFFICES ASSUME NEW u \in Tabs
                   PROVE  /\ replay'[u].at \in {"sent", "answered", "refused"} => replay'[u].rest # {}
                          /\ replay'[u].at = "answered" => Earliest(replay'[u].rest) \in ToSet(merged')
          BY DEF AnsweredIsMerged
      <3>1. CASE u = t
        BY <1>1, <1>5, <2>1, <2>3, <3>1
      <3>2. CASE u # t
        BY <1>5, <2>1, <3>2 DEF QueueInv, TypeOK, AnsweredIsMerged
      <3> QED
        BY <3>1, <3>2
    <2>7. MergedInOrder'
      <3> SUFFICES ASSUME NEW k \in ToSet(merged'), NEW m \in 1..(k - 1)
                   PROVE  \E i \in 1..Len(merged') : /\ merged'[i] = m
                                                     /\ \A j \in 1..(i - 1) : merged'[j] # k
          BY DEF MergedInOrder
      <3>1. CASE k \in ToSet(merged)
        <4>1. PICK i \in 1..Len(merged) : /\ merged[i] = m
                                          /\ \A j \in 1..(i - 1) : merged[j] # k
          BY <3>1 DEF QueueInv, MergedInOrder
        <4> QED
          BY <2>1, <4>1
      <3>2. CASE k \notin ToSet(merged)
        <4>1. k = n
          BY <2>1, <3>2
        <4>2. PICK i \in 1..Len(merged) : merged[i] = m
          BY <1>3, <2>1, <4>1
        <4>3. \A j \in 1..(i - 1) : merged[j] # k
          BY <2>1, <3>2, <4>2
        <4> QED
          BY <2>1, <4>2, <4>3
      <3> QED
        BY <3>1, <3>2
    <2> QED
      BY <2>2, <2>4, <2>5, <2>6, <2>7 DEF QueueInv
  <1> QED
    BY <1>4, <1>7, <1>8

(* A change is deleted after its merge was acknowledged; the rest of the     *)
(* list has no predecessors but merged ones.                                 *)
LEMMA DeleteKeeps == QueueAssumption /\ QueueInv /\ (\E t \in Tabs : DeleteChanges(t)) => QueueInv'
  <1> SUFFICES ASSUME QueueAssumption, QueueInv, NEW t \in Tabs, DeleteChanges(t) PROVE QueueInv'
      OBVIOUS
  <1> DEFINE n == Earliest(replay[t].rest)
             p == [at |-> "submit", rest |-> Rest(replay[t])]
  <1>1. /\ replay' = [replay EXCEPT ![t] = p]
        /\ pending' = pending \ {n}
        /\ UNCHANGED <<lastSequence, online, merged, closes>>
        /\ replay[t].at = "answered"
    BY DEF DeleteChanges, QueueInv, TypeOK
  <1>2. n \in ToSet(merged)
    BY <1>1 DEF QueueInv, AnsweredIsMerged
  <1>3. TypeOK'
    <2>1. IsFiniteSet(pending) /\ Cardinality(pending) \in Nat
      BY PendingIsFinite DEF QueueInv
    <2>2. Cardinality(pending \ {n}) = IF n \in pending THEN Cardinality(pending) - 1 ELSE Cardinality(pending)
      BY <2>1, FS_RemoveElement
    <2>3. replay' \in [Tabs -> [at: Stages, rest: SUBSET (1..MaxSequence)]]
      BY <1>1, RestKeeps DEF QueueInv, TypeOK, Stages
    <2>4. Cardinality(pending') <= MAXIMUM_PENDING_CHANGES
      BY <1>1, <2>1, <2>2 DEF QueueInv, TypeOK, QueueAssumption
    <2> HIDE DEF n, p
    <2> QED
      BY <1>1, <2>3, <2>4 DEF QueueInv, TypeOK
  <1>4. PendingWasRecorded' /\ NoChangeLost' /\ MergedInOrder'
    <2> HIDE DEF n, p
    <2>1. PendingWasRecorded' /\ NoChangeLost'
      BY <1>1, <1>2 DEF QueueInv, PendingWasRecorded, NoChangeLost
    <2>2. MergedInOrder'
      BY <1>1 DEF QueueInv, MergedInOrder
    <2> QED
      BY <2>1, <2>2
  <1>5. PrecedingIsMerged' /\ AnsweredIsMerged'
    <2>1. \A u \in Tabs : replay'[u] = IF u = t THEN p ELSE replay[u]
      BY <1>1 DEF QueueInv, TypeOK
    <2> QED
      BY <1>1, <2>1, RestKeeps DEF QueueInv, PrecedingIsMerged, AnsweredIsMerged
  <1> QED
    BY <1>3, <1>4, <1>5 DEF QueueInv

(* Every other step of a replay keeps its list, empties it or reads it anew. *)
LEMMA ReplayStepsKeep ==
  ASSUME QueueAssumption, QueueInv, NEW t \in Tabs,
         ReplayStart(t) \/ EstablishSession(t) \/ ListChanges(t) \/ Submit(t) \/ Break(t) \/ Close(t)
  PROVE  QueueInv'
  <1> DEFINE P == [at: Stages, rest: SUBSET (1..MaxSequence)]
  <1>1. replay[t] \in P /\ Idle \in P /\ online \in BOOLEAN /\ closes \in 0..MaxCloses
    BY DEF QueueInv, TypeOK, Idle, Stages
  <1>2. CASE \/ EstablishSession(t) /\ replay' = [replay EXCEPT ![t] = Idle]
             \/ Submit(t) /\ replay[t].rest = {}
             \/ Break(t)
             \/ Close(t)
    <2>1. /\ replay' = [replay EXCEPT ![t] = Idle]
          /\ UNCHANGED <<pending, lastSequence, merged>>
          /\ online' \in BOOLEAN /\ closes' \in 0..MaxCloses
      BY <1>1, <1>2 DEF EstablishSession, Submit, Break, Close, QueueAssumption
    <2>2. Idle.rest = {} /\ Idle.at = "idle"
      BY DEF Idle
    <2> QED
      BY <1>1, <2>1, <2>2, ReplayKeeps
  <1>3. CASE ListChanges(t)
    <2> DEFINE p == [at |-> "submit", rest |-> pending]
    <2>1. /\ replay' = [replay EXCEPT ![t] = p]
          /\ UNCHANGED <<pending, lastSequence, merged, online, closes>>
      BY <1>3 DEF ListChanges
    <2>2. p \in P
      BY DEF QueueInv, TypeOK, Stages
    <2>3. \A n \in pending : \A m \in 1..(n - 1) : m \in pending \/ m \in ToSet(merged)
      BY DEF QueueInv, TypeOK, PendingWasRecorded, NoChangeLost, QueueAssumption
    <2> QED
      BY <1>1, <2>1, <2>2, <2>3, ReplayKeeps
  <1>4. CASE \/ ReplayStart(t)
             \/ EstablishSession(t) /\ replay' = [replay EXCEPT ![t].at = "list"]
             \/ Submit(t) /\ replay[t].rest # {}
    <2>1. PICK at \in {"session", "list", "sent"} :
            /\ replay' = [replay EXCEPT ![t] = [at |-> at, rest |-> replay[t].rest]]
            /\ at = "sent" => replay[t].rest # {}
            /\ UNCHANGED <<pending, lastSequence, merged, closes>>
            /\ online' \in BOOLEAN
      BY <1>1, <1>4 DEF ReplayStart, EstablishSession, Submit, QueueInv, TypeOK
    <2>2. [at |-> at, rest |-> replay[t].rest] \in P
      BY <1>1 DEF Stages
    <2> QED
      BY <1>1, <2>1, <2>2, ReplayKeeps DEF QueueInv, PrecedingIsMerged
  <1> QED
    BY <1>2, <1>3, <1>4 DEF EstablishSession

(* Every step of the tabs, the browser and the core keeps the invariant.     *)
LEMMA QueueStep == QueueAssumption /\ QueueInv /\ [Next]_vars => QueueInv'
  <1> SUFFICES ASSUME QueueAssumption, QueueInv, [Next]_vars PROVE QueueInv'
      OBVIOUS
  <1>1. CASE Connectivity \/ UNCHANGED vars
    <2>1. UNCHANGED <<pending, lastSequence, replay, merged, closes>>
      BY <1>1 DEF Connectivity, vars
    <2>2. online' \in BOOLEAN
      BY <1>1 DEF Connectivity, vars, QueueInv, TypeOK
    <2>3. TypeOK'
      BY <2>1, <2>2 DEF QueueInv, TypeOK
    <2>4. PendingWasRecorded' /\ PrecedingIsMerged' /\ AnsweredIsMerged'
      BY <2>1 DEF QueueInv, PendingWasRecorded, PrecedingIsMerged, AnsweredIsMerged
    <2>5. NoChangeLost' /\ MergedInOrder'
      BY <2>1 DEF QueueInv, NoChangeLost, MergedInOrder
    <2> QED
      BY <2>3, <2>4, <2>5 DEF QueueInv
  <1> QED
    BY <1>1, RecordKeeps, AnswerKeeps, DeleteKeeps, ReplayStepsKeep DEF Next, ReplayStep

(* The queue stays within its limit and its stores in their types, whatever  *)
(* the tabs do (appendChangeWithinLimit).                                    *)
THEOREM QueueTypeCorrect == ASSUME QueueAssumption PROVE Spec => []TypeOK
  <1>1. QueueInv => TypeOK
    BY DEF QueueInv
  <1> QED
    BY <1>1, QueueInit, QueueStep, PTL DEF Spec

(* For any number of tabs that replay one queue, are closed and lose answers *)
(* in any order, a recorded change is in the queue until the core has merged *)
(* it (replayPendingChanges, deletePendingChange).                           *)
THEOREM NoOfflineChangeLost == ASSUME QueueAssumption PROVE Spec => []NoChangeLost
  <1>1. QueueInv => NoChangeLost
    BY DEF QueueInv
  <1> QED
    BY <1>1, QueueInit, QueueStep, PTL DEF Spec

(* ... and the core first sees the changes in the order of their recording.  *)
THEOREM OfflineChangesInOrder == ASSUME QueueAssumption PROVE Spec => []MergedInOrder
  <1>1. QueueInv => MergedInOrder
    BY DEF QueueInv
  <1> QED
    BY <1>1, QueueInit, QueueStep, PTL DEF Spec
==============================================================================
