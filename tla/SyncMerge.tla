------------------------------ MODULE SyncMerge ------------------------------
(***************************************************************************)
(* The merge of offline histories, src/core/sync-merge.ts.  mergeSequences  *)
(* is stateless: a caller hands in the state it has (base) and two          *)
(* sequences of changes, and keeps the answer as its next base.  The module *)
(* has the merge as operators, and around it replicas that author changes   *)
(* offline and merge each other's logs in any order, repeatedly, with       *)
(* clocks that agree, disagree or stand still.                              *)
(*                                                                         *)
(* A change is identified by its canonical JSON, so two changes are the     *)
(* same change exactly when they are equal as records.  compareChange is a  *)
(* total order on changes, so a sorted list of distinct changes and the set *)
(* of its elements determine each other: the event log and the fields are   *)
(* kept as sets, and the order is used where the code uses it, to choose    *)
(* the winner of a field.  Text is ordered by number here.                  *)
(***************************************************************************)
EXTENDS Naturals, FiniteSets

CONSTANTS
  Replicas,     \* device ids, numbers because compareText orders them
  Scopes, Fields, Values,
  Times,        \* what Date.now() can say on a device, not monotonic across devices
  MaxChanges    \* changes authored in all

VARIABLES
  replica,      \* what each replica keeps: the last MergedState it was given
  authored      \* every change that was authored, for the properties

vars == <<replica, authored>>

(* FieldChange and ChangeOrigin. *)
FieldChange ==
  [scope: Scopes, field: Fields, value: Values,
   deviceId: Replicas, sequence: 1..MaxChanges, recordedAtMs: Times]

EMPTY_MERGED_STATE == [fields |-> {}, eventLog |-> {}]

(* compareChange(left, right) < 0: by time, then device, then sequence, and  *)
(* for one device that repeats a sequence by what the change says.           *)
Keys(c) == <<c.recordedAtMs, c.deviceId, c.sequence, c.scope, c.field, c.value>>

CompareChange(left, right) ==
  \E i \in 1..6 : /\ Keys(left)[i] < Keys(right)[i]
                  /\ \A j \in 1..(i - 1) : Keys(left)[j] = Keys(right)[j]

SameField(c, d) == c.scope = d.scope /\ c.field = d.field

(* The loop over the sorted log: the last change of a field wins. *)
Winners(eventLog) ==
  {c \in eventLog : \A d \in eventLog : SameField(c, d) => ~CompareChange(c, d)}

(* Mutant: the fields of the base are kept whatever comes later. *)
MergeSequences_BaseWins(base, left, right) ==
  LET eventLog == base.eventLog \cup base.fields \cup left \cup right
      fresh == {c \in eventLog : \A d \in base.fields : ~SameField(c, d)}
  IN [fields |-> base.fields \cup Winners(fresh), eventLog |-> eventLog]

(* Mutant: the new log holds what won, and no more. *)
MergeSequences_KeepsWinners(base, left, right) ==
  LET eventLog == base.eventLog \cup base.fields \cup left \cup right
  IN [fields |-> Winners(eventLog), eventLog |-> Winners(eventLog)]

(* mergeSequences: base.eventLog, base.fields, left and right, each change   *)
(* once.                                                                     *)
MergeSequences(base, left, right) ==
  LET eventLog == base.eventLog \cup base.fields \cup left \cup right
  IN [fields |-> Winners(eventLog), eventLog |-> eventLog]

-----------------------------------------------------------------------------
(* The replicas. *)
Init ==
  /\ replica = [r \in Replicas |-> EMPTY_MERGED_STATE]
  /\ authored = {}

(* A change made on a device with that device's next sequence and whatever   *)
(* its clock says, merged into its own state as "left" with no "right".      *)
Author(r) ==
  /\ Cardinality(authored) < MaxChanges
  /\ \E c \in FieldChange :
       /\ c.deviceId = r
       /\ c.sequence = 1 + Cardinality({d \in authored : d.deviceId = r})
       /\ authored' = authored \cup {c}
       /\ replica' = [replica EXCEPT ![r] = MergeSequences(@, {c}, {})]

(* r merges what q sends it, all of its log or any part that q still has     *)
(* queued, on either side.                                                   *)
Merge(r, q) ==
  \E part \in SUBSET replica[q].eventLog :
    /\ part # {}
    /\ \/ replica' = [replica EXCEPT ![r] = MergeSequences(@, part, {})]
       \/ replica' = [replica EXCEPT ![r] = MergeSequences(@, {}, part)]
    /\ UNCHANGED authored

Next ==
  \/ \E r \in Replicas : Author(r)
  \/ \E r, q \in Replicas : Merge(r, q)

Spec == Init /\ [][Next]_vars

-----------------------------------------------------------------------------
(* The merge is confluent: replicas that have received the same changes,     *)
(* in whatever order, in whatever pieces and on whichever side, hold the     *)
(* same state, in which every field that was ever written has one value and  *)
(* no change of that field the replica knows of is later (property matrix    *)
(* row "Merge confluence", mergeSequences).                                  *)
Confluence ==
  /\ \A r, q \in Replicas :
       replica[r].eventLog = replica[q].eventLog => replica[r] = replica[q]
  /\ \A r \in Replicas : \A c \in replica[r].eventLog :
       \E w \in replica[r].fields :
         /\ SameField(w, c)
         /\ w = c \/ CompareChange(c, w)
         /\ \A x \in replica[r].fields : SameField(x, c) => x = w

(* A merge drops nothing from a replica's log, and moves a field only to a   *)
(* later change (mergeSequences keeps the union of the logs).                *)
NothingForgotten ==
  [][\A r \in Replicas :
       /\ replica[r].eventLog \subseteq replica'[r].eventLog
       /\ \A c \in replica[r].fields : \E w \in replica'[r].fields :
            SameField(w, c) /\ (w = c \/ CompareChange(c, w))]_vars
=============================================================================
