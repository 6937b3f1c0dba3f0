-------------------------- MODULE AgentRegistration -------------------------
(***************************************************************************)
(* The two operator requests that change the agent registry, registerAgent *)
(* (core-actions.ts:55) and DELETE /agents/:id (core-http-handler.ts:94),  *)
(* run by concurrent Worker requests against three stores: the coordinator *)
(* (AuthoringClaim), the admission state behind ACOS_ADMISSION and the     *)
(* AgentRegistry, the last two guarded by the fence of AuthoringFence.     *)
(* Each step is one RPC; between two of them the request may end.          *)
(*                                                                         *)
(* One agent is modelled.  The admission receipt inside a record is bound  *)
(* to one permit, so the permit's sequence number stands for the record's  *)
(* content hash, with 0 for no record; the same inputs registered again    *)
(* get another hash, as in the code.                                       *)
(***************************************************************************)
EXTENDS AuthoringFence

CONSTANTS
    Handlers,                        \* Worker requests running at a time
    NoRequest,
    RegistryScope,                   \* 'operator-registry'
    kind, inputs, expectedHash,      \* what an operation asks for
    MAX_COMMERCE_RETAINED_OUTCOMES   \* capacity of the admission journal

ASSUME RegistrationFields ==
    /\ RegistryScope \in Scopes
    /\ Operations # {}
    /\ kind \in [Operations -> {"register", "deregister"}]
    /\ expectedHash \in [Operations -> Nat]
    /\ {"acos", "registry"} \subseteq Journals
    /\ "registry" \notin Compacting
    /\ \A j \in {"acos", "registry"} : journalScope[j] = RegistryScope
    /\ MAX_COMMERCE_RETAINED_OUTCOMES \in Nat \ {0}

Inputs == {inputs[op] : op \in Operations}
Requests == [claim: Claims, operation: Operations]
Records == [hash: 0 .. MaxSequence, inputs: Inputs, active: BOOLEAN]
NoRecord == [hash |-> 0, inputs |-> CHOOSE i \in Inputs : TRUE, active |-> FALSE]

VARIABLES
    pc,          \* where each request is
    request,     \* the claim and the operation it presents
    permit,      \* reserved.reservation.permit
    existing,    \* the record AgentRegistry read before its transaction
    record,      \* the agent's row of agent_admission
    accepted,    \* the permits whose journalled registry outcome is ok
    admitted     \* the permits the admission state ever registered

requestVars == <<pc, request, permit, existing>>
vars == <<now, claim, released, reservation, sequence, completion,
          reconciliation, issued, fence, outcome,
          pc, request, permit, existing, record, accepted, admitted>>

TypeOK ==
    /\ AuthoringTypeOK
    /\ pc \in [Handlers -> {"idle", "reserve", "preflight", "admission", "read",
                            "commit", "refused", "finish"} \cup Phases]
    /\ request \in [Handlers -> Requests \cup {NoRequest}]
    /\ permit \in [Handlers -> Permits \cup {NoPermit}]
    /\ existing \in [Handlers -> Records]
    /\ record \in Records
    /\ accepted \subseteq outcome["registry"]
    /\ admitted \subseteq Permits

Init ==
    /\ AuthoringInit
    /\ pc = [h \in Handlers |-> "idle"]
    /\ request = [h \in Handlers |-> NoRequest]
    /\ permit = [h \in Handlers |-> NoPermit]
    /\ existing = [h \in Handlers |-> NoRecord]
    /\ record = NoRecord
    /\ accepted = {}
    /\ admitted = {}
-----------------------------------------------------------------------------
Goto(h, label) == pc' = [pc EXCEPT ![h] = label]

\* The request has answered or is gone, and with it what it had in memory.
End(h) ==
    /\ Goto(h, "idle")
    /\ request' = [request EXCEPT ![h] = NoRequest]
    /\ permit' = [permit EXCEPT ![h] = NoPermit]
    /\ existing' = [existing EXCEPT ![h] = NoRecord]

\* admitOperatorMutation, the point-in-time check before the slow preparation.
Start(h, r) ==
    /\ pc[h] = "idle"
    /\ operationScope[r.operation] = RegistryScope
    /\ semanticScope[r.claim] = RegistryScope
    /\ MutationAdmission(r.claim)
    /\ request' = [request EXCEPT ![h] = r]
    /\ Goto(h, "reserve")
    /\ UNCHANGED <<claimVars, fenceVars, permit, existing, record, accepted, admitted>>

\* reserveOperatorMutation.  A reserved or completed operation is resumed with
\* the permit it had.  A refusal answers the request, as Abandon does.
Reserve(h) ==
    LET c == request[h].claim
        op == request[h].operation
        resumed == Reserved(c, op) \cup Completed(c, op)
    IN
    /\ pc[h] = "reserve"
    /\ \/ /\ \E p \in resumed : permit' = [permit EXCEPT ![h] = p]
          /\ UNCHANGED claimVars
       \/ /\ BeginMutation(c, op)
          /\ permit' = [permit EXCEPT ![h] = reservation'[RegistryScope]]
    /\ Goto(h, IF kind[op] = "register" THEN "preflight" ELSE "read")
    /\ request' = [request EXCEPT ![h] = NoRequest]
    /\ UNCHANGED <<fenceVars, existing, record, accepted, admitted>>

\* sameRegistration
SameRegistration(r, op) == r.hash # 0 /\ r.active /\ r.inputs = inputs[op]

\* The precondition on the record a registration replaces.
RegistrationPrecondition(r, op) ==
    r.hash = expectedHash[op] \/ SameRegistration(r, op)

\* Mutant: a passing preflight is taken for an admission.
Preflight_SkipsAdmission(h) ==
    /\ pc[h] = "preflight"
    /\ Goto(h, IF RegistrationPrecondition(record, permit[h].operation)
               THEN "read" ELSE "refused")
    /\ UNCHANGED <<claimVars, fenceVars, request, permit, existing, record,
                   accepted, admitted>>

\* registry.preflightRegistration; a refusal completes the reservation.
Preflight(h) ==
    /\ pc[h] = "preflight"
    /\ Goto(h, IF RegistrationPrecondition(record, permit[h].operation)
               THEN "admission" ELSE "refused")
    /\ UNCHANGED <<claimVars, fenceVars, request, permit, existing, record,
                   accepted, admitted>>

\* planOutcomeCompaction: a full journal retires its oldest outcome, if that
\* one's lease has ended.
OldestOutcome ==
    CHOOSE q \in outcome["acos"] : \A p \in outcome["acos"] : q.sequence <= p.sequence

Full == Cardinality(outcome["acos"]) >= MAX_COMMERCE_RETAINED_OUTCOMES

OutcomeCapacity == Full /\ leaseExpiresAtMs[OldestOutcome.claim] > now

\* requestAcosAdmission, registered now or by an earlier attempt.
Admit(h) ==
    /\ pc[h] = "admission"
    /\ \/ permit[h] \in outcome["acos"] /\ UNCHANGED <<fenceVars, admitted>>
       \/ /\ ~OutcomeCapacity
          /\ Execute("acos", permit[h], IF Full THEN {OldestOutcome} ELSE {})
          /\ admitted' = admitted \cup {permit[h]}
    /\ Goto(h, "read")
    /\ UNCHANGED <<claimVars, request, permit, existing, record, accepted>>

\* A terminal rejection (expired, stale, capacity): nothing is stored there,
\* and reservationSafeToComplete completes the reservation.
AdmissionRejected(h) ==
    /\ pc[h] = "admission"
    /\ permit[h] \notin outcome["acos"]
    /\ ~Executable("acos", permit[h]) \/ OutcomeCapacity
    /\ Goto(h, "refused")
    /\ UNCHANGED <<claimVars, fenceVars, request, permit, existing, record,
                   accepted, admitted>>

\* AgentRegistry.register and deregister read the record, and await, before
\* the transaction.
ReadStored(h) ==
    /\ pc[h] = "read"
    /\ existing' = [existing EXCEPT ![h] = record]
    /\ Goto(h, "commit")
    /\ UNCHANGED <<claimVars, fenceVars, request, permit, record, accepted, admitted>>

\* The mutation in the fenced transaction, decided on the record read before:
\* the outcome is journalled also when it is a rejection.
Mutation(p, r) ==
    LET op == p.operation IN
    \/ /\ kind[op] = "register"
       /\ r.hash = expectedHash[op] /\ ~SameRegistration(r, op)
       /\ record' = [hash |-> p.sequence, inputs |-> inputs[op], active |-> TRUE]
       /\ accepted' = accepted \cup {p}
    \/ /\ kind[op] = "register"
       /\ SameRegistration(r, op)
       /\ accepted' = accepted \cup {p}
       /\ UNCHANGED record
    \/ /\ kind[op] = "register"
       /\ ~RegistrationPrecondition(r, op)
       /\ UNCHANGED <<record, accepted>>
    \/ /\ kind[op] = "deregister"
       /\ r.hash # 0 /\ r.hash = expectedHash[op]
       /\ record' = [record EXCEPT !.active = @ /\ ~r.active]
       /\ accepted' = accepted \cup {p}
    \/ /\ kind[op] = "deregister"
       /\ r.hash = 0 \/ r.hash # expectedHash[op]
       /\ UNCHANGED <<record, accepted>>

\* Mutant: the mutation runs, its outcome is not journalled.
FencedMutation_Unjournalled(p, r) ==
    \/ /\ ~Executable("registry", p)
       /\ UNCHANGED <<fenceVars, record, accepted>>
    \/ /\ Executable("registry", p)
       /\ fence' = [fence EXCEPT !["registry"] = p]
       /\ Mutation(p, r)
       /\ UNCHANGED outcome

\* Mutant: the lease and the fence are not looked at.
FencedMutation_Unfenced(p, r) ==
    \/ /\ p \in outcome["registry"]
       /\ UNCHANGED <<fenceVars, record, accepted>>
    \/ /\ p \notin outcome["registry"]
       /\ fence' = [fence EXCEPT !["registry"] = p]
       /\ outcome' = [outcome EXCEPT !["registry"] = @ \cup {p}]
       /\ Mutation(p, r)

\* runAuthoringFencedMutation at the registry: the journalled outcome, a
\* refusal of the fence, or the mutation.
FencedMutation(p, r) ==
    \/ /\ ~Executable("registry", p)
       /\ UNCHANGED <<fenceVars, record, accepted>>
    \/ Execute("registry", p, {}) /\ Mutation(p, r)

\* registry.register answers.
CommitRegistration(h) ==
    /\ pc[h] = "commit" /\ kind[permit[h].operation] = "register"
    /\ FencedMutation(permit[h], existing[h])
    /\ Goto(h, IF permit[h] \in accepted' THEN "finish" ELSE "commerce-commit-rejected")
    /\ existing' = [existing EXCEPT ![h] = NoRecord]
    /\ UNCHANGED <<claimVars, request, permit, admitted>>

\* Mutant: an exception completes the reservation as a rejection does.
CommitUnconfirmed_Completes(h) ==
    /\ pc[h] = "commit" /\ kind[permit[h].operation] = "register"
    /\ \/ FencedMutation(permit[h], existing[h])
       \/ UNCHANGED <<fenceVars, record, accepted>>
    /\ Goto(h, "refused")
    /\ existing' = [existing EXCEPT ![h] = NoRecord]
    /\ UNCHANGED <<claimVars, request, permit, admitted>>

\* registry.register throws, before or after it took effect.
CommitUnconfirmed(h) ==
    /\ pc[h] = "commit" /\ kind[permit[h].operation] = "register"
    /\ \/ FencedMutation(permit[h], existing[h])
       \/ UNCHANGED <<fenceVars, record, accepted>>
    /\ Goto(h, "commerce-commit-unconfirmed")
    /\ existing' = [existing EXCEPT ![h] = NoRecord]
    /\ UNCHANGED <<claimVars, request, permit, admitted>>

\* registry.deregister answers; whatever it says, the reservation is completed.
CommitDeregistration(h) ==
    /\ pc[h] = "commit" /\ kind[permit[h].operation] = "deregister"
    /\ FencedMutation(permit[h], existing[h])
    /\ Goto(h, "finish")
    /\ existing' = [existing EXCEPT ![h] = NoRecord]
    /\ UNCHANGED <<claimVars, request, permit, admitted>>

\* finish: completeMutation of the reservation, or of one already completed.
Finish(h) ==
    /\ pc[h] \in {"finish", "refused"}
    /\ \/ CompleteMutation(permit[h])
       \/ /\ ~HasReservation(RegistryScope) /\ permit[h] \in completion
          /\ UNCHANGED claimVars
    /\ End(h)
    /\ UNCHANGED <<fenceVars, record, accepted, admitted>>

\* finish does not confirm: refused, or an exception before or after its
\* effect.  A registration then leaves evidence.
FinishUnconfirmed(h) ==
    /\ pc[h] \in {"finish", "refused"}
    /\ CompleteMutation(permit[h]) \/ UNCHANGED claimVars
    /\ IF pc[h] = "finish" /\ kind[permit[h].operation] = "register"
       THEN /\ Goto(h, "reservation-completion-unconfirmed")
            /\ UNCHANGED <<request, permit, existing>>
       ELSE End(h)
    /\ UNCHANGED <<fenceVars, record, accepted, admitted>>

\* preserveRegistrationBoundary; a failure to store it is only reported.
Preserve(h) ==
    /\ pc[h] \in Phases
    /\ PreserveMutationReconciliation(permit[h], pc[h]) \/ UNCHANGED claimVars
    /\ End(h)
    /\ UNCHANGED <<fenceVars, record, accepted, admitted>>

\* The request ends here: the Worker is evicted, a call it does not catch
\* throws, or the admission answer is neither a receipt nor a terminal
\* rejection.
Abandon(h) ==
    /\ pc[h] # "idle"
    /\ End(h)
    /\ UNCHANGED <<claimVars, fenceVars, record, accepted, admitted>>

\* claimAction and the clock.
ClaimLifecycle ==
    /\ \/ \E c \in Claims : Acquire(c) \/ Release(c)
       \/ Tick
    /\ UNCHANGED <<fenceVars, requestVars, record, accepted, admitted>>

Handle(h) ==
    \/ \E r \in Requests : Start(h, r)
    \/ Reserve(h)
    \/ Preflight(h)
    \/ Admit(h)
    \/ AdmissionRejected(h)
    \/ ReadStored(h)
    \/ CommitRegistration(h)
    \/ CommitUnconfirmed(h)
    \/ CommitDeregistration(h)
    \/ Finish(h)
    \/ FinishUnconfirmed(h)
    \/ Preserve(h)
    \/ Abandon(h)

Next == ClaimLifecycle \/ \E h \in Handlers : Handle(h)

Spec == Init /\ [][Next]_vars
-----------------------------------------------------------------------------
\* The requests use the coordinator and the fences as AuthoringFence allows, so
\* what holds of every caller holds of these.
UsesAuthoring == AuthoringSpec

\* A registration reaches the registry only after its own permit was admitted
\* by the admission state, also for retries that resume an earlier permit.
RegisteredIsAdmitted ==
    \A p \in outcome["registry"] : kind[p.operation] = "register" => p \in admitted

\* A write of the registry replaces the record its request named: the read
\* before the await is still current when the transaction runs.
ReplacesWhatItNamed ==
    [][record' # record =>
          record.hash = expectedHash[fence'["registry"].operation]]_vars

\* docs/runtime-api.md:71: "Unknown or unconfirmed provider outcomes remain held
\* for explicit reconciliation": an admission that the registry does not have,
\* and that no request is still working on, keeps its reservation.
UnconfirmedIsHeld ==
    \A p \in admitted \ outcome["registry"] :
        (\A h \in Handlers : permit[h] # p) => reservation[RegistryScope] = p
-----------------------------------------------------------------------------
\* The inductive invariant.  What a request has in memory: the operation it
\* was sent with until it is reserved, from then on a permit of the registry's
\* scope that the coordinator issued.
RequestsInMemory ==
    \A h \in Handlers :
        /\ pc[h] = "idle" => permit[h] = NoPermit
        /\ pc[h] = "reserve" =>
              /\ permit[h] = NoPermit
              /\ request[h] \in Requests
              /\ operationScope[request[h].operation] = RegistryScope
              /\ semanticScope[request[h].claim] = RegistryScope
        /\ pc[h] \notin {"idle", "reserve"} =>
              permit[h] \in issued /\ ScopeOf(permit[h]) = RegistryScope
        /\ pc[h] \in {"preflight", "admission", "refused"} \cup Phases =>
              kind[permit[h].operation] = "register"

\* A registration is past the admission only with its permit admitted.
PastAdmission ==
    \A h \in Handlers :
        pc[h] \in {"read", "commit"} /\ kind[permit[h].operation] = "register"
            => permit[h] \in admitted

\* The journals and the records name permits of this scope.
JournalsIssued ==
    /\ completion \subseteq issued
    /\ outcome["acos"] \subseteq admitted
    /\ admitted \subseteq issued
    /\ outcome["registry"] \subseteq issued
    /\ \A p \in admitted : ScopeOf(p) = RegistryScope /\ kind[p.operation] = "register"
    /\ \A p \in outcome["registry"] : ScopeOf(p) = RegistryScope

RegistrationInv ==
    /\ TypeOK
    /\ AuthoringInv
    /\ RequestsInMemory
    /\ PastAdmission
    /\ JournalsIssued
    /\ RegisteredIsAdmitted

\* A permit the admission state has not seen finds room in its journal.  Where
\* the retained outcomes reach their limit the code does not keep the promises
\* below (the run agent_registration_full).
HasRoom ==
    \A h \in Handlers :
        pc[h] = "admission" /\ permit[h] \notin outcome["acos"] => ~Full

\* The one permit the registry may still execute.
Open(p) == reservation[RegistryScope] = p /\ p \notin outcome["registry"]

Precondition(p) == RegistrationPrecondition(record, p.operation)

\* Nothing admitted is forgotten, and the fences move forward.
AdmittedIsKept ==
    /\ admitted = outcome["acos"]
    /\ \A p \in admitted : fence["acos"] # NoPermit /\ p.sequence <= fence["acos"].sequence

\* The record does not change under an open permit: it still satisfies the
\* preflight it passed, and it is the one the transaction read.
OpenSeesOneRecord ==
    /\ \A h \in Handlers : pc[h] = "admission" /\ Open(permit[h]) => Precondition(permit[h])
    /\ \A h \in Handlers : pc[h] = "commit" /\ Open(permit[h]) => existing[h] = record
    /\ \A p \in admitted : Open(p) => Precondition(p)

\* A refused permit never reaches the admission state: it is stale or expired
\* there, or its preflight fails and nobody is past it.
ShutOut(p) ==
    \/ ~Executable("acos", p)
    \/ /\ ~Precondition(p)
       /\ \A h \in Handlers : permit[h] = p => pc[h] # "admission"

RefusedIsShutOut ==
    \A h \in Handlers : pc[h] = "refused" /\ Open(permit[h]) =>
        permit[h] \notin admitted /\ ShutOut(permit[h])

FinishedIsExecuted ==
    \A h \in Handlers : pc[h] = "finish" =>
        IF kind[permit[h].operation] = "register"
        THEN permit[h] \in accepted ELSE ~Executable("registry", permit[h])

\* Once its reservation is gone a permit has no effect any more: an admission
\* is in the registry, a removal ran or cannot, the rest is shut out.
ClosedIsInert ==
    \A p \in issued : ScopeOf(p) = RegistryScope /\ reservation[RegistryScope] # p =>
        /\ p \in admitted => p \in outcome["registry"]
        /\ kind[p.operation] = "register" /\ p \notin admitted => ShutOut(p)
        /\ kind[p.operation] = "deregister" => ~Executable("registry", p)

RoomInv ==
    /\ AdmittedIsKept
    /\ OpenSeesOneRecord
    /\ RefusedIsShutOut
    /\ FinishedIsExecuted
    /\ ClosedIsInert
=============================================================================
