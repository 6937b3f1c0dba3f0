--------------------------- MODULE AuthoringClaim ---------------------------
(***************************************************************************)
(* The coordinator of src/core/authoring-claim.ts: one Durable Object that *)
(* leases semantic scopes to operators and reserves, one at a time per     *)
(* scope, the mutations they make.  All scopes share the object            *)
(* (core-clients.ts:38), so every method below is one atomic step.         *)
(*                                                                         *)
(* A claim is a constant; its fields are functions of it.  A mutation      *)
(* request carries the headers of a claim (scope, id, epoch, fence         *)
(* revision), which name it, so a request is the claim it presents.  A     *)
(* refusal changes nothing and is a stuttering step.                       *)
(***************************************************************************)
EXTENDS Integers, FiniteSets

CONSTANTS
    Scopes, Targets, Operations,
    Claims, NoClaim,
    semanticScope, claimId, declaredWriteSet, leaseEpoch, leaseExpiresAtMs,
    operationScope,     \* the scope in an operation's request digest
    writeTarget,        \* the write target the code binds to a scope
    NoPermit,
    MaxTime,            \* the model's clock stops here
    MaxSequence         \* the mutations reserved per scope

ASSUME ClaimFields ==
    /\ semanticScope \in [Claims -> Scopes]
    /\ claimId \in [Claims -> Nat]
    /\ declaredWriteSet \in [Claims -> SUBSET Targets \ {{}}]
    /\ leaseEpoch \in [Claims -> Nat \ {0}]
    /\ leaseExpiresAtMs \in [Claims -> Nat]
    /\ operationScope \in [Operations -> Scopes]
    /\ writeTarget \in [Scopes -> Targets]
    /\ NoClaim \notin Claims

ASSUME Bounds == MaxTime \in Nat /\ MaxSequence \in Nat

\* A permit: the claim it was reserved under, the operation (its request
\* digest) and the mutation sequence number of the scope.  Its mutation id is
\* made of the claim's epoch, the sequence and the digest.
Permits == [claim: Claims, operation: Operations, sequence: 1 .. MaxSequence]

ASSUME NoPermitAssumption == NoPermit \notin Permits

ScopeOf(p) == semanticScope[p.claim]

\* Where registerAgent stopped when it left evidence behind.
Phases == {"commerce-commit-rejected", "commerce-commit-unconfirmed",
           "reservation-completion-unconfirmed"}

VARIABLES
    now,             \* Date.now()
    claim,           \* authoring_claim: the claim in each scope's row
    released,        \* released_at_ms IS NOT NULL
    reservation,     \* authoring_mutation_reservation
    sequence,        \* authoring_mutation_sequence
    completion,      \* authoring_mutation_completion
    reconciliation,  \* authoring_mutation_reconciliation: <<permit, phase>>
    issued           \* the permits beginMutation ever returned

claimVars == <<now, claim, released, reservation, sequence, completion,
               reconciliation, issued>>

ClaimTypeOK ==
    /\ now \in 0 .. MaxTime
    /\ claim \in [Scopes -> Claims \cup {NoClaim}]
    /\ released \in [Scopes -> BOOLEAN]
    /\ reservation \in [Scopes -> Permits \cup {NoPermit}]
    /\ sequence \in [Scopes -> 0 .. MaxSequence]
    /\ completion \subseteq Permits
    /\ reconciliation \subseteq Permits \X Phases
    /\ issued \subseteq Permits

ClaimInit ==
    /\ now = 0
    /\ claim = [s \in Scopes |-> NoClaim]
    /\ released = [s \in Scopes |-> FALSE]
    /\ reservation = [s \in Scopes |-> NoPermit]
    /\ sequence = [s \in Scopes |-> 0]
    /\ completion = {}
    /\ reconciliation = {}
    /\ issued = {}
-----------------------------------------------------------------------------
HasReservation(s) == reservation[s] # NoPermit

\* #active: the row is neither released nor expired.
Active(s) ==
    claim[s] # NoClaim /\ ~released[s] /\ leaseExpiresAtMs[claim[s]] > now

WriteSetsOverlap(c, d) == declaredWriteSet[c] \cap declaredWriteSet[d] # {}

\* Mutant: the epoch of the row it replaces is not compared.
Acquire_AnyEpoch(c) ==
    LET s == semanticScope[c] IN
    /\ leaseExpiresAtMs[c] > now
    /\ \A t \in Scopes : HasReservation(t) => ~WriteSetsOverlap(claim[t], c)
    /\ \A t \in Scopes : Active(t) => ~WriteSetsOverlap(claim[t], c)
    /\ \A t \in Scopes \ {s} : claim[t] # NoClaim => claimId[claim[t]] # claimId[c]
    /\ claim' = [claim EXCEPT ![s] = c]
    /\ released' = [released EXCEPT ![s] = FALSE]
    /\ UNCHANGED <<now, reservation, sequence, completion, reconciliation, issued>>

\* Mutant: only active leases are compared, not reserved ones.
Acquire_IgnoresReserved(c) ==
    LET s == semanticScope[c] IN
    /\ leaseExpiresAtMs[c] > now
    /\ \A t \in Scopes : Active(t) => ~WriteSetsOverlap(claim[t], c)
    /\ claim[s] # NoClaim => leaseEpoch[c] > leaseEpoch[claim[s]]
    /\ \A t \in Scopes \ {s} : claim[t] # NoClaim => claimId[claim[t]] # claimId[c]
    /\ claim' = [claim EXCEPT ![s] = c]
    /\ released' = [released EXCEPT ![s] = FALSE]
    /\ UNCHANGED <<now, reservation, sequence, completion, reconciliation, issued>>

\* acquire.  An exact repeat of the active claim is accepted without a write.
\* A claim id that another scope's row holds violates the table's UNIQUE
\* constraint: the insert throws and nothing changes.
Acquire(c) ==
    LET s == semanticScope[c] IN
    /\ leaseExpiresAtMs[c] > now
    /\ HasReservation(s) => claim[s] = c
    /\ \A t \in Scopes : HasReservation(t) /\ claimId[claim[t]] # claimId[c]
                            => ~WriteSetsOverlap(claim[t], c)
    /\ ~Active(s)
    /\ \A t \in Scopes : Active(t) => ~WriteSetsOverlap(claim[t], c)
    /\ claim[s] # NoClaim => leaseEpoch[c] > leaseEpoch[claim[s]]
    /\ \A t \in Scopes \ {s} : claim[t] # NoClaim => claimId[claim[t]] # claimId[c]
    /\ claim' = [claim EXCEPT ![s] = c]
    /\ released' = [released EXCEPT ![s] = FALSE]
    /\ UNCHANGED <<now, reservation, sequence, completion, reconciliation, issued>>

\* #mutationAdmission: it does not look at released_at_ms, nor at the
\* reservations of other scopes.
MutationAdmission(c) ==
    LET s == semanticScope[c] IN
    /\ claim[s] = c
    /\ leaseExpiresAtMs[c] > now
    /\ writeTarget[s] \in declaredWriteSet[c]
    /\ \A t \in Scopes : Active(t) /\ claimId[claim[t]] # claimId[c]
                            => ~WriteSetsOverlap(claim[t], c)

\* The permit of an operation that is still reserved, or that was completed
\* under this claim, is handed out again as it is, also after the lease ended.
Reserved(c, op) ==
    {p \in {reservation[semanticScope[c]]} \ {NoPermit} :
        p.claim = c /\ p.operation = op}

Completed(c, op) ==
    {p \in completion : ~HasReservation(semanticScope[c])
                          /\ p.claim = c /\ p.operation = op}

\* Mutant: the permit carries the number before the increment.
BeginMutation_OldNumber(c, op) ==
    LET s == semanticScope[c]
        permit == [claim |-> c, operation |-> op, sequence |-> sequence[s]]
    IN
    /\ operationScope[op] = s
    /\ ~HasReservation(s)
    /\ Completed(c, op) = {}
    /\ MutationAdmission(c)
    /\ sequence[s] < MaxSequence
    /\ sequence' = [sequence EXCEPT ![s] = @ + 1]
    /\ reservation' = [reservation EXCEPT ![s] = permit]
    /\ issued' = issued \cup {permit}
    /\ UNCHANGED <<now, claim, released, completion, reconciliation>>

\* beginMutation for an operation that is neither: the next number of the
\* scope, and the reservation, in one transaction.
BeginMutation(c, op) ==
    LET s == semanticScope[c]
        permit == [claim |-> c, operation |-> op, sequence |-> sequence[s] + 1]
    IN
    /\ operationScope[op] = s
    /\ ~HasReservation(s)
    /\ Completed(c, op) = {}
    /\ MutationAdmission(c)
    /\ sequence[s] < MaxSequence
    /\ sequence' = [sequence EXCEPT ![s] = @ + 1]
    /\ reservation' = [reservation EXCEPT ![s] = permit]
    /\ issued' = issued \cup {permit}
    /\ UNCHANGED <<now, claim, released, completion, reconciliation>>

\* Mutant: the evidence outlives the reservation.
CompleteMutation_KeepsEvidence(p) ==
    /\ reservation[ScopeOf(p)] = p
    /\ completion' = completion \cup {p}
    /\ reservation' = [reservation EXCEPT ![ScopeOf(p)] = NoPermit]
    /\ UNCHANGED <<now, claim, released, sequence, reconciliation, issued>>

\* completeMutation: only the exact permit of the reservation, with no look at
\* the lease.  The evidence kept for the mutation goes with the reservation.
CompleteMutation(p) ==
    /\ reservation[ScopeOf(p)] = p
    /\ \A q \in completion : q.claim = p.claim /\ q.operation = p.operation => q = p
    /\ completion' = completion \cup {p}
    /\ reservation' = [reservation EXCEPT ![ScopeOf(p)] = NoPermit]
    /\ reconciliation' = {e \in reconciliation : e[1] # p}
    /\ UNCHANGED <<now, claim, released, sequence, issued>>

\* preserveMutationReconciliation: the first evidence for a mutation stays.
PreserveMutationReconciliation(p, phase) ==
    /\ reservation[ScopeOf(p)] = p
    /\ \A e \in reconciliation : e[1] # p
    /\ reconciliation' = reconciliation \cup {<<p, phase>>}
    /\ UNCHANGED <<now, claim, released, reservation, sequence, completion, issued>>

\* release: refused while the scope is reserved.
Release(c) ==
    LET s == semanticScope[c] IN
    /\ ~HasReservation(s)
    /\ Active(s)
    /\ claim[s] = c
    /\ released' = [released EXCEPT ![s] = TRUE]
    /\ UNCHANGED <<now, claim, reservation, sequence, completion, reconciliation, issued>>

Tick ==
    /\ now < MaxTime
    /\ now' = now + 1
    /\ UNCHANGED <<claim, released, reservation, sequence, completion,
                   reconciliation, issued>>

\* Whoever holds a permit may complete it or leave evidence for it, at any
\* time and any number of times: retries and late calls are among its steps.
ClaimNext ==
    \/ \E c \in Claims : Acquire(c) \/ Release(c)
    \/ \E c \in Claims, op \in Operations : BeginMutation(c, op)
    \/ \E p \in issued : CompleteMutation(p)
    \/ \E p \in issued, phase \in Phases : PreserveMutationReconciliation(p, phase)
    \/ Tick
=============================================================================
