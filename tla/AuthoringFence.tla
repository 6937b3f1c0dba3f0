--------------------------- MODULE AuthoringFence ---------------------------
(***************************************************************************)
(* The coordinator together with the places that accept its permits.  A    *)
(* journal keeps, for the scope it serves, a fence (the last permit it     *)
(* executed) and the outcomes of the permits it executed, and writes both  *)
(* in the transaction of the business write.  Journals are the Durable     *)
(* Objects that call runAuthoringFencedMutation (AgentRegistry, one        *)
(* ThemeDeployment per merchant) and the admission state of                *)
(* src/admission/agent-state.js, which carries the same test.              *)
(*                                                                         *)
(* Nothing is assumed of the callers here: an issued permit may reach a    *)
(* journal late, twice, or after it was completed.                         *)
(***************************************************************************)
EXTENDS AuthoringClaim, TLAPS

CONSTANTS
    Journals,
    Compacting,      \* the journals that retire outcomes of expired leases
    journalScope     \* the scope, and with it the target, a journal serves

ASSUME JournalFields ==
    /\ journalScope \in [Journals -> Scopes]
    /\ Compacting \subseteq Journals

VARIABLES
    fence,           \* authoring_mutation_fence of each journal
    outcome          \* authoring_mutation_outcome: permits executed and kept

fenceVars == <<fence, outcome>>
authoringVars == <<now, claim, released, reservation, sequence, completion,
                   reconciliation, issued, fence, outcome>>

FenceTypeOK ==
    /\ fence \in [Journals -> Permits \cup {NoPermit}]
    /\ outcome \in [Journals -> SUBSET Permits]

FenceInit ==
    /\ fence = [j \in Journals |-> NoPermit]
    /\ outcome = [j \in Journals |-> {}]
-----------------------------------------------------------------------------
\* Mutant: the number is not compared.
IsStale_EpochOnly(p, prior) ==
    \/ leaseEpoch[p.claim] < leaseEpoch[prior.claim]
    \/ leaseEpoch[p.claim] = leaseEpoch[prior.claim] /\ p.claim # prior.claim

\* isStale: a lower epoch; or the same epoch with another lease, or with a
\* number that is not above the high-water mark.
IsStale(p, prior) ==
    \/ leaseEpoch[p.claim] < leaseEpoch[prior.claim]
    \/ /\ leaseEpoch[p.claim] = leaseEpoch[prior.claim]
       /\ p.claim # prior.claim \/ p.sequence <= prior.sequence

\* A journal that has the outcome of a permit answers with it, whatever the
\* time and the fence; otherwise the lease must be live and the permit fresh.
Executable(j, p) ==
    /\ ScopeOf(p) = journalScope[j]
    /\ p \notin outcome[j]
    /\ leaseExpiresAtMs[p.claim] > now
    /\ fence[j] # NoPermit => ~IsStale(p, fence[j])

\* An execution: fence and outcome move in the transaction of the write.  A
\* compacting journal retires outcomes in it, only those whose lease has ended.
Execute(j, p, retired) ==
    /\ Executable(j, p)
    /\ retired \subseteq {q \in outcome[j] : leaseExpiresAtMs[q.claim] <= now}
    /\ retired = {} \/ j \in Compacting
    /\ fence' = [fence EXCEPT ![j] = p]
    /\ outcome' = [outcome EXCEPT ![j] = (@ \ retired) \cup {p}]

FenceStep ==
    \E j \in Journals, p \in issued :
        \E retired \in SUBSET outcome[j] : Execute(j, p, retired) /\ UNCHANGED claimVars

AuthoringInit == ClaimInit /\ FenceInit

AuthoringNext == (ClaimNext /\ UNCHANGED fenceVars) \/ FenceStep

AuthoringSpec == AuthoringInit /\ [][AuthoringNext]_authoringVars
-----------------------------------------------------------------------------
AuthoringTypeOK == ClaimTypeOK /\ FenceTypeOK

\* The permits of a scope are totally ordered by their number, and the lease
\* epochs follow that order: an older lease never gets a later number.
PermitsOrdered ==
    \A p, q \in issued : ScopeOf(p) = ScopeOf(q) =>
        /\ p.sequence = q.sequence => p = q
        /\ p.sequence < q.sequence => leaseEpoch[p.claim] <= leaseEpoch[q.claim]

\* Two scopes that are in use at the same time (an active lease or an
\* unresolved mutation) never have overlapping write sets, as long as neither
\* lease was released: authoring-claim.ts decides disjointness atomically.
InUse(s) == Active(s) \/ HasReservation(s)

WritersDisjoint ==
    \A s, t \in Scopes :
        s # t /\ InUse(s) /\ InUse(t) /\ ~released[s] /\ ~released[t]
            => ~WriteSetsOverlap(claim[s], claim[t])

\* An unresolved mutation keeps the lease it was reserved under in the row of
\* its scope, also when that lease has expired, and evidence is only kept for
\* unresolved mutations.
UnresolvedIsHeld ==
    /\ \A s \in Scopes : HasReservation(s) =>
          claim[s] = reservation[s].claim /\ reservation[s].sequence = sequence[s]
    /\ \A e \in reconciliation : reservation[ScopeOf(e[1])] = e[1]

\* Every journal executes the permits of its scope in the order they were
\* reserved, so none twice: also when they arrive late, out of order or again,
\* and after the outcome of an expired one was compacted.
ExecutedInOrder ==
    [][\A j \in Journals : fence'[j] # fence[j] /\ fence[j] # NoPermit =>
          fence[j].sequence < fence'[j].sequence]_authoringVars

\* What makes the above inductive: rows and reservations belong to their
\* scopes, no two rows share a claim identifier, every permit was issued below
\* the number and the epoch its scope is at, and a fence holds an issued permit
\* of the scope the journal serves.
RowsWellFormed ==
    /\ \A s \in Scopes : claim[s] # NoClaim => semanticScope[claim[s]] = s
    /\ \A s, t \in Scopes :
          s # t /\ claim[s] # NoClaim /\ claim[t] # NoClaim
              => claimId[claim[s]] # claimId[claim[t]]
    /\ \A s \in Scopes : HasReservation(s) =>
          reservation[s] \in issued /\ ScopeOf(reservation[s]) = s

IssuedBelow ==
    \A p \in issued :
        /\ p.sequence <= sequence[ScopeOf(p)]
        /\ claim[ScopeOf(p)] # NoClaim
        /\ leaseEpoch[p.claim] <= leaseEpoch[claim[ScopeOf(p)]]

FenceIssued ==
    \A j \in Journals : fence[j] # NoPermit =>
        fence[j] \in issued /\ ScopeOf(fence[j]) = journalScope[j]

AuthoringInv ==
    /\ AuthoringTypeOK
    /\ RowsWellFormed
    /\ IssuedBelow
    /\ PermitsOrdered
    /\ UnresolvedIsHeld
    /\ WritersDisjoint
    /\ FenceIssued

\* docs/production-runtime.md:245: the coordinator "refuses stale, overlapping,
\* expired, or mutation-reserved authority".  With released leases left in.
ReservedAuthorityDisjoint ==
    \A s, t \in Scopes : s # t /\ HasReservation(s) /\ HasReservation(t)
        => ~WriteSetsOverlap(claim[s], claim[t])
-----------------------------------------------------------------------------
(***************************************************************************)
(* AuthoringInv is inductive: one lemma per operation of the coordinator   *)
(* and one for an execution by a journal.  The theorems at the end hold    *)
(* for any scopes, claims and journals, and for callers that retry,        *)
(* duplicate and delay as they like.                                       *)
(***************************************************************************)
USE ClaimFields, Bounds, NoPermitAssumption, JournalFields

\* A permit has a claim, an operation, a positive number and a scope.
LEMMA PermitFields ==
    ASSUME NEW p \in Permits
    PROVE  /\ p.claim \in Claims
           /\ p.operation \in Operations
           /\ p.sequence \in Nat
           /\ p.sequence \in 1 .. MaxSequence
           /\ ScopeOf(p) \in Scopes
           /\ leaseEpoch[p.claim] \in Nat
           /\ leaseExpiresAtMs[p.claim] \in Nat
BY DEF Permits, ScopeOf

\* The initial state satisfies the invariant: there is no row and no permit.
LEMMA AuthoringInitInv == AuthoringInit => AuthoringInv
BY DEF AuthoringInit, ClaimInit, FenceInit, AuthoringInv, AuthoringTypeOK, ClaimTypeOK,
       FenceTypeOK, RowsWellFormed, IssuedBelow, PermitsOrdered, UnresolvedIsHeld,
       WritersDisjoint, FenceIssued, HasReservation, InUse, Active

\* acquire replaces a row of lower epoch that is not reserved.
LEMMA AcquireInv ==
    ASSUME AuthoringInv, NEW c \in Claims, Acquire(c), UNCHANGED fenceVars
    PROVE  AuthoringInv'
<1> DEFINE s == semanticScope[c]
<1> s \in Scopes
  OBVIOUS
<1> USE DEF AuthoringInv, Acquire, fenceVars
<1>0. ~HasReservation(s)
  BY DEF HasReservation
<1>1. AuthoringTypeOK'
  BY DEF AuthoringTypeOK, ClaimTypeOK, FenceTypeOK
<1>2. /\ claim'[s] = c
      /\ \A t \in Scopes \ {s} : claim'[t] = claim[t] /\ released'[t] = released[t]
  BY DEF AuthoringTypeOK, ClaimTypeOK
<1>3. RowsWellFormed'
  BY <1>0, <1>2 DEF RowsWellFormed, HasReservation, ScopeOf
<1>4. IssuedBelow'
  <2> SUFFICES ASSUME NEW p \in issued
               PROVE  /\ p.sequence <= sequence[ScopeOf(p)]
                      /\ claim'[ScopeOf(p)] # NoClaim
                      /\ leaseEpoch[p.claim] <= leaseEpoch[claim'[ScopeOf(p)]]
    BY DEF IssuedBelow, ScopeOf
  <2>1. p \in Permits
    BY DEF AuthoringTypeOK, ClaimTypeOK
  <2>2. CASE ScopeOf(p) = s
    <3>1. claim[s] # NoClaim /\ leaseEpoch[p.claim] <= leaseEpoch[claim[s]]
      BY <2>2 DEF IssuedBelow
    <3>2. claim[s] \in Claims
      BY <3>1 DEF AuthoringTypeOK, ClaimTypeOK
    <3>3. leaseEpoch[claim[s]] < leaseEpoch[c]
      BY <3>1, <3>2
    <3> QED BY <1>2, <2>1, <2>2, <3>1, <3>2, <3>3, PermitFields DEF IssuedBelow
  <2>3. CASE ScopeOf(p) # s
    BY <1>2, <2>1, <2>3, PermitFields DEF IssuedBelow
  <2> QED BY <2>2, <2>3
<1>5. PermitsOrdered'
  BY DEF PermitsOrdered, ScopeOf
<1>6. UnresolvedIsHeld'
  BY <1>0, <1>2 DEF UnresolvedIsHeld, HasReservation, ScopeOf
<1>7. WritersDisjoint'
  <2>1. ASSUME NEW t \in Scopes \ {s}, InUse(t)', ~released'[t]
        PROVE  ~WriteSetsOverlap(claim[t], c)
    <3>1. InUse(t) /\ claim'[t] = claim[t]
      BY <1>2, <2>1 DEF InUse, Active, HasReservation
    <3>2. CASE Active(t)
      BY <3>2
    <3>3. CASE HasReservation(t)
      <4>1. claim[t] # NoClaim
        BY <3>3 DEF UnresolvedIsHeld, AuthoringTypeOK, ClaimTypeOK, Permits,
            HasReservation
      <4> QED BY <3>3, <4>1
    <3> QED BY <3>1, <3>2, <3>3 DEF InUse
  <2>2. ASSUME NEW t \in Scopes \ {s}, NEW u \in Scopes \ {s}, t # u,
               InUse(t)', InUse(u)', ~released'[t], ~released'[u]
        PROVE  ~WriteSetsOverlap(claim[t], claim[u])
    BY <1>2, <2>2 DEF WritersDisjoint, InUse, Active, HasReservation
  <2> QED BY <1>2, <2>1, <2>2 DEF WritersDisjoint, WriteSetsOverlap
<1>8. FenceIssued'
  BY DEF FenceIssued, ScopeOf
<1> QED BY <1>1, <1>3, <1>4, <1>5, <1>6, <1>7, <1>8

\* beginMutation issues the next number under the lease in the row.
LEMMA BeginInv ==
    ASSUME AuthoringInv, NEW c \in Claims, NEW op \in Operations,
           BeginMutation(c, op), UNCHANGED fenceVars
    PROVE  AuthoringInv'
<1> DEFINE s == semanticScope[c]
           p == [claim |-> c, operation |-> op, sequence |-> sequence[s] + 1]
<1> s \in Scopes
  OBVIOUS
<1> USE DEF AuthoringInv, BeginMutation, fenceVars
<1>0. /\ p \in Permits
      /\ p.claim = c /\ p.sequence = sequence[s] + 1 /\ ScopeOf(p) = s
      /\ claim[s] = c /\ sequence[s] \in Nat
  BY DEF AuthoringTypeOK, ClaimTypeOK, Permits, ScopeOf, MutationAdmission
<1>1. AuthoringTypeOK'
  BY <1>0 DEF AuthoringTypeOK, ClaimTypeOK, FenceTypeOK
<1>2. /\ reservation'[s] = p /\ sequence'[s] = sequence[s] + 1
      /\ issued' = issued \cup {p}
      /\ \A t \in Scopes \ {s} :
            reservation'[t] = reservation[t] /\ sequence'[t] = sequence[t]
  BY DEF AuthoringTypeOK, ClaimTypeOK
<1> HIDE DEF p
<1>3. RowsWellFormed'
  BY <1>0, <1>2 DEF RowsWellFormed, HasReservation, ScopeOf
<1>4. \A q \in issued : q \in Permits /\ (ScopeOf(q) = s => q.sequence < p.sequence)
  BY <1>0, PermitFields DEF IssuedBelow, AuthoringTypeOK, ClaimTypeOK
<1>5. IssuedBelow'
  <2>1. /\ p.sequence <= sequence'[ScopeOf(p)]
        /\ claim[ScopeOf(p)] # NoClaim
        /\ leaseEpoch[p.claim] <= leaseEpoch[claim[ScopeOf(p)]]
    BY <1>0, <1>2
  <2>2. ASSUME NEW q \in issued
        PROVE  q.sequence <= sequence'[ScopeOf(q)]
    <3>1. q \in Permits /\ q.sequence <= sequence[ScopeOf(q)]
      BY DEF IssuedBelow, AuthoringTypeOK, ClaimTypeOK
    <3> QED BY <1>0, <1>2, <3>1, PermitFields
  <2> QED BY <1>2, <2>1, <2>2 DEF IssuedBelow, ScopeOf
<1>6. PermitsOrdered'
  <2>1. ASSUME NEW q \in issued, ScopeOf(q) = s
        PROVE  leaseEpoch[q.claim] <= leaseEpoch[p.claim]
    BY <1>0, <2>1 DEF IssuedBelow
  <2>2. ASSUME NEW q \in issued, ScopeOf(q) = s
        PROVE  q.sequence < p.sequence /\ q.sequence \in Nat /\ p.sequence \in Nat
    BY <1>0, <1>4, <2>2, PermitFields
  <2>3. \A q \in issued \cup {p}, r \in issued \cup {p} : ScopeOf(q) = ScopeOf(r) =>
           /\ q.sequence = r.sequence => q = r
           /\ q.sequence < r.sequence => leaseEpoch[q.claim] <= leaseEpoch[r.claim]
    BY <1>0, <2>1, <2>2 DEF PermitsOrdered
  <2> QED BY <1>2, <2>3 DEF PermitsOrdered, ScopeOf
<1>7. UnresolvedIsHeld'
  <2>1. \A t \in Scopes : HasReservation(t)' =>
           claim[t] = reservation'[t].claim /\ reservation'[t].sequence = sequence'[t]
    BY <1>0, <1>2 DEF UnresolvedIsHeld, HasReservation
  <2>2. \A e \in reconciliation : ScopeOf(e[1]) # s /\ ScopeOf(e[1]) \in Scopes
    <3> TAKE e \in reconciliation
    <3>1. e[1] \in Permits /\ reservation[ScopeOf(e[1])] = e[1]
      BY DEF UnresolvedIsHeld, AuthoringTypeOK, ClaimTypeOK
    <3> QED BY <3>1, PermitFields DEF HasReservation
  <2> QED BY <1>2, <2>1, <2>2 DEF UnresolvedIsHeld, ScopeOf
<1>8. WritersDisjoint'
  <2>1. released[s] \/ InUse(s)
    BY <1>0 DEF InUse, Active, MutationAdmission
  <2>2. \A t \in Scopes : InUse(t)' /\ ~released[t] => InUse(t)
    BY <1>2, <2>1 DEF InUse, Active, HasReservation
  <2> QED BY <2>2 DEF WritersDisjoint, WriteSetsOverlap
<1>9. FenceIssued'
  BY <1>2 DEF FenceIssued, ScopeOf
<1> QED BY <1>1, <1>3, <1>5, <1>6, <1>7, <1>8, <1>9

\* completeMutation ends the reservation and its evidence together.
LEMMA CompleteInv ==
    ASSUME AuthoringInv, NEW p \in issued, CompleteMutation(p), UNCHANGED fenceVars
    PROVE  AuthoringInv'
<1> DEFINE s == ScopeOf(p)
<1> USE DEF AuthoringInv, CompleteMutation, fenceVars
<1>0. p \in Permits /\ s \in Scopes
  BY PermitFields DEF AuthoringTypeOK, ClaimTypeOK
<1>1. AuthoringTypeOK'
  BY <1>0 DEF AuthoringTypeOK, ClaimTypeOK, FenceTypeOK
<1>2. /\ reservation'[s] = NoPermit
      /\ \A t \in Scopes \ {s} : reservation'[t] = reservation[t]
  BY <1>0 DEF AuthoringTypeOK, ClaimTypeOK
<1> HIDE DEF s
<1>3. RowsWellFormed'
  BY <1>2 DEF RowsWellFormed, HasReservation, ScopeOf
<1>4. IssuedBelow' /\ PermitsOrdered' /\ FenceIssued'
  BY DEF IssuedBelow, PermitsOrdered, FenceIssued, ScopeOf
<1>5. UnresolvedIsHeld'
  <2>1. \A t \in Scopes : HasReservation(t)' =>
           claim[t] = reservation'[t].claim /\ reservation'[t].sequence = sequence[t]
    BY <1>2 DEF UnresolvedIsHeld, HasReservation
  <2>2. \A e \in reconciliation' : reservation'[ScopeOf(e[1])] = e[1]
    <3> TAKE e \in reconciliation'
    <3>1. e[1] \in Permits /\ e[1] # p /\ reservation[ScopeOf(e[1])] = e[1]
      BY DEF UnresolvedIsHeld, AuthoringTypeOK, ClaimTypeOK
    <3>2. ScopeOf(e[1]) \in Scopes /\ ScopeOf(e[1]) # s
      BY <3>1, PermitFields DEF s
    <3> QED BY <1>2, <3>1, <3>2
  <2> QED BY <2>1, <2>2 DEF UnresolvedIsHeld, ScopeOf
<1>6. WritersDisjoint'
  <2>1. \A t \in Scopes : InUse(t)' => InUse(t)
    BY <1>2 DEF InUse, Active, HasReservation
  <2> QED BY <2>1 DEF WritersDisjoint, WriteSetsOverlap
<1> QED BY <1>1, <1>3, <1>4, <1>5, <1>6

\* preserveMutationReconciliation only adds evidence for a reserved permit.
LEMMA PreserveInv ==
    ASSUME AuthoringInv, NEW p \in issued, NEW phase \in Phases,
           PreserveMutationReconciliation(p, phase), UNCHANGED fenceVars
    PROVE  AuthoringInv'
<1> USE DEF AuthoringInv, PreserveMutationReconciliation, fenceVars
<1>1. AuthoringTypeOK'
  BY DEF AuthoringTypeOK, ClaimTypeOK, FenceTypeOK
<1>2. /\ RowsWellFormed' /\ IssuedBelow' /\ PermitsOrdered' /\ FenceIssued'
  BY DEF RowsWellFormed, IssuedBelow, PermitsOrdered, FenceIssued, ScopeOf,
      HasReservation
<1>3. UnresolvedIsHeld'
  <2>1. \A e \in reconciliation' : reservation[ScopeOf(e[1])] = e[1]
    BY DEF UnresolvedIsHeld
  <2> QED BY <2>1 DEF UnresolvedIsHeld, ScopeOf, HasReservation
<1>4. WritersDisjoint'
  BY DEF WritersDisjoint, WriteSetsOverlap, InUse, Active, HasReservation
<1> QED BY <1>1, <1>2, <1>3, <1>4

\* release and the clock only take scopes out of use.
LEMMA ReleaseInv ==
    ASSUME AuthoringInv, NEW c \in Claims, Release(c), UNCHANGED fenceVars
    PROVE  AuthoringInv'
<1> USE DEF AuthoringInv, Release, fenceVars
<1>1. AuthoringTypeOK'
  BY DEF AuthoringTypeOK, ClaimTypeOK, FenceTypeOK
<1>2. /\ RowsWellFormed' /\ IssuedBelow' /\ PermitsOrdered' /\ FenceIssued'
  BY DEF RowsWellFormed, IssuedBelow, PermitsOrdered, FenceIssued, ScopeOf,
      HasReservation
<1>3. UnresolvedIsHeld'
  BY DEF UnresolvedIsHeld, ScopeOf, HasReservation
<1>4. WritersDisjoint'
  <2>1. \A t \in Scopes : ~released'[t] => ~released[t] /\ released'[t] = released[t]
    <3>1. ASSUME NEW t \in Scopes, t = semanticScope[c] PROVE released'[t]
      BY <3>1 DEF AuthoringTypeOK, ClaimTypeOK
    <3>2. ASSUME NEW t \in Scopes, t # semanticScope[c] PROVE released'[t] = released[t]
      BY <3>2 DEF AuthoringTypeOK, ClaimTypeOK
    <3> QED BY <3>1, <3>2
  <2>2. \A t \in Scopes : InUse(t)' /\ ~released'[t] => InUse(t)
    BY <2>1 DEF InUse, Active, HasReservation
  <2> QED BY <2>1, <2>2 DEF WritersDisjoint, WriteSetsOverlap
<1> QED BY <1>1, <1>2, <1>3, <1>4

\* See ReleaseInv.
LEMMA TickInv ==
    ASSUME AuthoringInv, Tick, UNCHANGED fenceVars
    PROVE  AuthoringInv'
<1> USE DEF AuthoringInv, Tick, fenceVars
<1>1. AuthoringTypeOK'
  BY DEF AuthoringTypeOK, ClaimTypeOK, FenceTypeOK
<1>2. /\ RowsWellFormed' /\ IssuedBelow' /\ PermitsOrdered' /\ FenceIssued'
  BY DEF RowsWellFormed, IssuedBelow, PermitsOrdered, FenceIssued, ScopeOf,
      HasReservation
<1>3. UnresolvedIsHeld'
  BY DEF UnresolvedIsHeld, ScopeOf, HasReservation
<1>4. WritersDisjoint'
  <2>1. \A t \in Scopes : InUse(t)' => InUse(t)
    <3> SUFFICES ASSUME NEW t \in Scopes, Active(t)' PROVE Active(t)
      BY DEF InUse, HasReservation
    <3>1. claim[t] \in Claims
      BY DEF Active, AuthoringTypeOK, ClaimTypeOK
    <3>2. leaseExpiresAtMs[claim[t]] \in Nat /\ now \in Nat
      BY <3>1 DEF AuthoringTypeOK, ClaimTypeOK
    <3> QED BY <3>2 DEF Active
  <2> QED BY <2>1 DEF WritersDisjoint, WriteSetsOverlap
<1> QED BY <1>1, <1>2, <1>3, <1>4

\* An execution only moves the journal.
LEMMA ExecuteInv ==
    ASSUME AuthoringInv, FenceStep
    PROVE  AuthoringInv'
<1> USE DEF AuthoringInv, claimVars
<1>0. PICK j \in Journals, p \in issued :
         \E retired \in SUBSET outcome[j] : Execute(j, p, retired) /\ UNCHANGED claimVars
  BY DEF FenceStep
<1>1. /\ UNCHANGED claimVars
      /\ fence' = [fence EXCEPT ![j] = p]
      /\ ScopeOf(p) = journalScope[j]
      /\ \E retired \in SUBSET outcome[j] :
            outcome' = [outcome EXCEPT ![j] = (@ \ retired) \cup {p}]
  BY <1>0 DEF Execute, Executable
<1>2. AuthoringTypeOK'
  BY <1>1 DEF AuthoringTypeOK, ClaimTypeOK, FenceTypeOK
<1>3. /\ RowsWellFormed' /\ IssuedBelow' /\ PermitsOrdered'
  BY <1>1 DEF RowsWellFormed, IssuedBelow, PermitsOrdered, ScopeOf, HasReservation
<1>4. UnresolvedIsHeld' /\ WritersDisjoint'
  BY <1>1 DEF UnresolvedIsHeld, ScopeOf, HasReservation, WritersDisjoint,
              WriteSetsOverlap, InUse, Active
<1>5. FenceIssued'
  BY <1>1 DEF FenceIssued, ScopeOf, AuthoringTypeOK, FenceTypeOK
<1> QED BY <1>2, <1>3, <1>4, <1>5

\* Every step preserves the invariant.
LEMMA AuthoringNextInv ==
    ASSUME AuthoringInv, [AuthoringNext]_authoringVars
    PROVE  AuthoringInv'
<1>1. CASE ClaimNext /\ UNCHANGED fenceVars
  BY <1>1, AcquireInv, BeginInv, CompleteInv, PreserveInv, ReleaseInv, TickInv
     DEF ClaimNext
<1>2. CASE FenceStep
  BY <1>2, ExecuteInv
<1>3. CASE UNCHANGED authoringVars
  BY <1>3 DEF authoringVars, AuthoringInv, AuthoringTypeOK, ClaimTypeOK, FenceTypeOK,
              RowsWellFormed, IssuedBelow, PermitsOrdered, UnresolvedIsHeld,
              WritersDisjoint, FenceIssued, ScopeOf, HasReservation, WriteSetsOverlap,
              InUse, Active
<1> QED BY <1>1, <1>2, <1>3 DEF AuthoringNext

\* The invariant holds throughout.
LEMMA AuthoringInvariance == AuthoringSpec => []AuthoringInv
BY AuthoringInitInv, AuthoringNextInv, PTL DEF AuthoringSpec

\* Rows, reservations, numbers and journals of the coordinator and the targets
\* stay in their types.
THEOREM AuthoringTypeCorrect == AuthoringSpec => []AuthoringTypeOK
BY AuthoringInvariance, PTL DEF AuthoringInv

\* The numbers of a scope's permits are unique and follow the lease epochs.
THEOREM PermitOrder == AuthoringSpec => []PermitsOrdered
BY AuthoringInvariance, PTL DEF AuthoringInv

\* Scopes in use under unreleased leases have disjoint write sets.
THEOREM DisjointWriters == AuthoringSpec => []WritersDisjoint
BY AuthoringInvariance, PTL DEF AuthoringInv

\* An unresolved mutation keeps its lease in place, expired or not.
THEOREM UnresolvedStaysHeld == AuthoringSpec => []UnresolvedIsHeld
BY AuthoringInvariance, PTL DEF AuthoringInv

\* A journal executes the permits of its scope in the order of reservation.
THEOREM ExecutionOrder == AuthoringSpec => ExecutedInOrder
<1> DEFINE A == \A j \in Journals : fence'[j] # fence[j] /\ fence[j] # NoPermit =>
                    fence[j].sequence < fence'[j].sequence
<1>1. ASSUME AuthoringInv, [AuthoringNext]_authoringVars
      PROVE  [A]_authoringVars
  <2>1. CASE (ClaimNext /\ UNCHANGED fenceVars) \/ UNCHANGED authoringVars
    BY <2>1 DEF fenceVars, authoringVars
  <2>2. CASE FenceStep
    <3>0. PICK j \in Journals, p \in issued :
             \E retired \in SUBSET outcome[j] : Execute(j, p, retired)
      BY <2>2 DEF FenceStep
    <3>1. /\ fence' = [fence EXCEPT ![j] = p]
          /\ ScopeOf(p) = journalScope[j]
          /\ fence[j] # NoPermit => ~IsStale(p, fence[j])
      BY <3>0 DEF Execute, Executable
    <3>2. ASSUME fence[j] # NoPermit, p # fence[j]
          PROVE  fence[j].sequence < p.sequence
      <4> DEFINE f == fence[j]
      <4>1. /\ f \in issued /\ ScopeOf(f) = ScopeOf(p)
            /\ f \in Permits /\ p \in Permits
        BY <1>1, <3>1, <3>2 DEF AuthoringInv, FenceIssued, AuthoringTypeOK, ClaimTypeOK
      <4>2. /\ f.sequence \in Nat /\ p.sequence \in Nat
            /\ leaseEpoch[f.claim] \in Nat /\ leaseEpoch[p.claim] \in Nat
        BY <4>1, PermitFields
      <4>3. /\ leaseEpoch[f.claim] <= leaseEpoch[p.claim]
            /\ leaseEpoch[f.claim] = leaseEpoch[p.claim] => f.sequence < p.sequence
        BY <3>1, <3>2, <4>2 DEF IsStale
      <4>4. /\ p.sequence # f.sequence
            /\ p.sequence < f.sequence => leaseEpoch[p.claim] <= leaseEpoch[f.claim]
        BY <1>1, <3>2, <4>1 DEF AuthoringInv, PermitsOrdered
      <4> HIDE DEF f
      <4>5. f.sequence < p.sequence
        BY <4>2, <4>3, <4>4
      <4> QED BY <4>5 DEF f
    <3>3. \A k \in Journals : fence'[k] = IF k = j THEN p ELSE fence[k]
      BY <1>1, <3>1 DEF AuthoringInv, AuthoringTypeOK, FenceTypeOK
    <3> QED BY <3>2, <3>3
  <2> QED BY <1>1, <2>1, <2>2 DEF AuthoringNext
<1> QED BY <1>1, AuthoringInvariance, PTL DEF AuthoringSpec, ExecutedInOrder

\* An earlier permit of a scope is stale to a later one.
LEMMA EarlierIsStale ==
    ASSUME AuthoringInv, NEW p \in issued, NEW q \in issued,
           ScopeOf(p) = ScopeOf(q), p.sequence <= q.sequence
    PROVE  IsStale(p, q)
<1>1. p \in Permits /\ q \in Permits
  BY DEF AuthoringInv, AuthoringTypeOK, ClaimTypeOK
<1>2. /\ p.sequence \in Nat /\ q.sequence \in Nat
      /\ leaseEpoch[p.claim] \in Nat /\ leaseEpoch[q.claim] \in Nat
  BY <1>1, PermitFields
<1>3. /\ p.sequence = q.sequence => p = q
      /\ p.sequence < q.sequence => leaseEpoch[p.claim] <= leaseEpoch[q.claim]
  BY DEF AuthoringInv, PermitsOrdered
<1> QED BY <1>2, <1>3 DEF IsStale

\* A journal executes only permits later than its fence.
LEMMA ExecutableIsLater ==
    ASSUME AuthoringInv, NEW j \in Journals, NEW p \in issued,
           Executable(j, p), fence[j] # NoPermit
    PROVE  fence[j].sequence < p.sequence
<1>1. fence[j] \in issued /\ ScopeOf(fence[j]) = ScopeOf(p)
  BY DEF AuthoringInv, FenceIssued, Executable
<1>2. p \in Permits /\ fence[j] \in Permits
  BY <1>1 DEF AuthoringInv, AuthoringTypeOK, ClaimTypeOK
<1>3. ~(p.sequence <= fence[j].sequence)
  BY <1>1, EarlierIsStale DEF Executable
<1> QED BY <1>2, <1>3, PermitFields

\* The permit in reservation is the last one its scope was issued.
LEMMA ReservedIsLast ==
    ASSUME AuthoringInv, NEW s \in Scopes, HasReservation(s),
           NEW p \in issued, ScopeOf(p) = s
    PROVE  /\ p.sequence <= reservation[s].sequence
           /\ p # reservation[s] => p.sequence < reservation[s].sequence
<1>1. /\ reservation[s] \in issued /\ ScopeOf(reservation[s]) = s
      /\ reservation[s].sequence = sequence[s]
  BY DEF AuthoringInv, RowsWellFormed, UnresolvedIsHeld
<1>2. p \in Permits /\ reservation[s] \in Permits
  BY <1>1 DEF AuthoringInv, AuthoringTypeOK, ClaimTypeOK
<1>3. p.sequence <= sequence[s]
  BY DEF AuthoringInv, IssuedBelow
<1>4. p.sequence = reservation[s].sequence => p = reservation[s]
  BY <1>1 DEF AuthoringInv, PermitsOrdered
<1>5. p.sequence \in Nat /\ reservation[s].sequence \in Nat
  BY <1>2, PermitFields
<1> QED BY <1>1, <1>3, <1>4, <1>5

\* What is stale to a fence is stale to every permit that fence lets pass.
LEMMA StaleStaysStale ==
    ASSUME NEW p \in Permits, NEW f \in Permits, NEW q \in Permits,
           IsStale(p, f), ~IsStale(q, f)
    PROVE  IsStale(p, q)
<1>1. /\ p.sequence \in Nat /\ f.sequence \in Nat /\ q.sequence \in Nat
      /\ leaseEpoch[p.claim] \in Nat /\ leaseEpoch[f.claim] \in Nat
      /\ leaseEpoch[q.claim] \in Nat
  BY PermitFields
<1> QED BY <1>1 DEF IsStale

\* A permit that a journal would not execute now it never will, whatever it
\* retires: the lease ends once, the fence moves forward, an executed permit is
\* only forgotten after its lease.
LEMMA ExecutableFalls ==
    ASSUME AuthoringInv, [AuthoringNext]_authoringVars,
           NEW j \in Journals, NEW p \in issued, Executable(j, p)'
    PROVE  Executable(j, p)
<1>0. /\ p \in Permits /\ leaseExpiresAtMs[p.claim] \in Nat
      /\ now \in Nat /\ fence \in [Journals -> Permits \cup {NoPermit}]
      /\ outcome \in [Journals -> SUBSET Permits]
      /\ issued \subseteq Permits
  BY PermitFields DEF AuthoringInv, AuthoringTypeOK, ClaimTypeOK, FenceTypeOK
<1>1. CASE UNCHANGED fenceVars /\ (ClaimNext \/ UNCHANGED authoringVars)
  <2>1. now' = now \/ now' = now + 1
    BY <1>1 DEF ClaimNext, authoringVars, Acquire, Release, BeginMutation, CompleteMutation,
       PreserveMutationReconciliation, Tick
  <2>2. leaseExpiresAtMs[p.claim] > now
    BY <1>0, <2>1 DEF Executable
  <2> QED BY <1>1, <2>2 DEF Executable, ScopeOf, fenceVars, IsStale
<1>2. CASE FenceStep
  <2>0. PICK k \in Journals, q \in issued :
           \E retired \in SUBSET outcome[k] : Execute(k, q, retired) /\ UNCHANGED claimVars
    BY <1>2 DEF FenceStep
  <2>1. PICK retired \in SUBSET outcome[k] : Execute(k, q, retired) /\ UNCHANGED claimVars
    BY <2>0
  <2>2. /\ fence' = [fence EXCEPT ![k] = q]
        /\ outcome' = [outcome EXCEPT ![k] = (@ \ retired) \cup {q}]
        /\ \A r \in retired : leaseExpiresAtMs[r.claim] <= now
        /\ fence[k] # NoPermit => ~IsStale(q, fence[k])
        /\ now' = now
    BY <2>1 DEF Execute, Executable, claimVars
  <2>3. leaseExpiresAtMs[p.claim] > now /\ ScopeOf(p) = journalScope[j]
    BY <2>2 DEF Executable, ScopeOf
  <2>4. p \notin outcome[j]
    <3>1. p \notin retired
      BY <1>0, <2>2, <2>3
    <3> QED BY <1>0, <2>2, <3>1 DEF Executable
  <2>5. fence[j] # NoPermit => ~IsStale(p, fence[j])
    <3>1. CASE j # k
      BY <1>0, <2>2, <3>1 DEF Executable, IsStale
    <3>2. ASSUME j = k, fence[j] # NoPermit, IsStale(p, fence[j])
          PROVE  FALSE
      <4>1. IsStale(p, q)
        BY <1>0, <2>2, <3>2, StaleStaysStale
      <4>2. fence'[j] = q /\ q # NoPermit
        BY <1>0, <2>2, <3>2
      <4>3. ~IsStale(p, fence'[j])
        BY <4>2 DEF Executable, IsStale
      <4> QED BY <4>1, <4>2, <4>3
    <3> QED BY <3>1, <3>2
  <2> QED BY <2>3, <2>4, <2>5 DEF Executable
<1> QED BY <1>1, <1>2 DEF AuthoringNext, authoringVars, fenceVars
=============================================================================
