---------------------------- MODULE ProviderGate ----------------------------
(***************************************************************************)
(* Operations of the core at the marketplace provider: the runtime         *)
(* evidence is fetched and judged, the request is bound to the pinned      *)
(* evidence and signed, the provider checks the binding against its own    *)
(* evidence and answers with the binding, and a vendor transition finishes *)
(* its authoring reservation on a definite answer only.                    *)
(*                                                                         *)
(* The provider may be deployed anew between the evidence check and the    *)
(* request, the pin of the core may be changed, requests arrive late, and  *)
(* answers get lost.  A digest is the tuple of what is digested.  The      *)
(* claim object is reduced to what AuthoringFence shows of it: numbered    *)
(* permits, one unresolved mutation per scope.                             *)
(***************************************************************************)
EXTENDS Integers, FiniteSets, Sequences

CONSTANTS
    Calls,           \* requests of operators, retries included
    operation,       \* what a call asks: [kind, mutation, valid]
    Evidence,        \* what a provider may advertise at /v1/runtime-evidence
    RequiredChecks,  \* MARKETPLACE_EVIDENCE_CHECKS
    Declared,        \* COMMERCE_PRD_REVISION: [major, minor]
    Secrets,         \* values of MARKETPLACE_PROVIDER_AUTH_SECRET
    NoPin,           \* no pin
    MaxDeployments   \* bound: deployments of either side, and restarts

Mutations == {operation[c].mutation : c \in {d \in Calls : operation[d].kind = "transition"}}
Reads == {"vendors", "settlement"}

\* An evidence has these fields; its receipt digest need not be the right one.
OperationAssumption ==
    /\ IsFiniteSet(Calls)
    /\ \A c \in Calls : operation[c].kind \in Reads \cup {"transition"}
    /\ \A e \in Evidence :
         /\ e = [wellFormed |-> e.wellFormed, revision |-> e.revision, version |-> e.version,
                 checks |-> e.checks, receiptDigest |-> e.receiptDigest]
         /\ e.wellFormed \in BOOLEAN
         /\ e # NoPin /\ [version |-> e.version, receiptDigest |-> e.receiptDigest] # NoPin
    /\ MaxDeployments \in Nat

VARIABLES
    provider,        \* the deployed provider: its evidence and its secret
    core,            \* the deployed core: its pin and its secret
    deployments,
    fences,          \* FENCES of the provider, in memory: the last permit
    leaseOver,       \* leases of the permits given so far have ended
    permits,         \* the permit number of each mutation, 0 for none
    reservation,     \* its reservation in the claim object
    pc, local, answer,
    network,         \* requests on their way: call, binding, signature
    responses,       \* answers on their way, by call
    decided          \* what the provider decided: permit, by which evidence, life

vars == <<provider, core, deployments, fences, leaseOver, permits, reservation, pc,
          local, answer, network, responses, decided>>
deploymentVars == <<provider, core, deployments>>
claimVars == <<permits, reservation>>

Digest(e) == <<e.revision, e.version, e.checks>>
PinOf(e) == [version |-> e.version, receiptDigest |-> e.receiptDigest]
-----------------------------------------------------------------------------
\* Mutant: the receipt digest is compared with the pin and not recomputed.
EvaluateConvergence_TrustsDigest(e, pin) ==
    IF \/ ~e.wellFormed
       \/ e.revision.major # Declared.major \/ e.revision.minor < Declared.minor
       \/ e.version # pin.version \/ e.receiptDigest # pin.receiptDigest
       \/ ~(RequiredChecks \subseteq e.checks)
    THEN "blocked" ELSE "converged"

\* evaluateConvergence: the envelope, a forward compatible revision, the
\* pinned identity, every required check, and the digest of what is there.
EvaluateConvergence(e, pin) ==
    IF \/ ~e.wellFormed
       \/ e.revision.major # Declared.major \/ e.revision.minor < Declared.minor
       \/ e.version # pin.version \/ e.receiptDigest # pin.receiptDigest
       \/ e.receiptDigest # Digest(e)
       \/ ~(RequiredChecks \subseteq e.checks)
    THEN "blocked"
    ELSE IF e.checks # RequiredChecks THEN "converged-with-surplus" ELSE "converged"

\* digestProviderRequest: the operation, with the headers of its permit.
RequestDigest(c, permit) == [operation |-> operation[c], permit |-> permit]

\* bindOperationalProviderRequest: the pin and the request it is good for.
Binding(c, pin, permit) ==
    [pin |-> pin, checks |-> RequiredChecks, request |-> RequestDigest(c, permit)]

\* commerceProviderSignature: an HMAC over the request and the binding.
Signature(binding, secret) == <<binding, secret>>

NoLocal == [pin |-> NoPin, secret |-> "none", seen |-> NoPin, permit |-> 0]

Init ==
    /\ provider \in [evidence : Evidence, secret : Secrets, life : {0}]
    /\ core \in [pin : {PinOf(e) : e \in Evidence}, secret : Secrets]
    /\ deployments = 0
    /\ fences = 0
    /\ leaseOver = FALSE
    /\ permits = [m \in Mutations |-> 0]
    /\ reservation = [m \in Mutations |-> "none"]
    /\ pc = [c \in Calls |-> "start"]
    /\ local = [c \in Calls |-> NoLocal]
    /\ answer = [c \in Calls |-> "none"]
    /\ network = {}
    /\ responses = {}
    /\ decided = <<>>

Goto(c, label) == pc' = [pc EXCEPT ![c] = label] /\ UNCHANGED answer
Respond(c, code) == pc' = [pc EXCEPT ![c] = "done"] /\ answer' = [answer EXCEPT ![c] = code]
-----------------------------------------------------------------------------
\* A deployment or a restart of the provider: its memory is lost.
DeployProvider(e) ==
    /\ deployments < MaxDeployments
    /\ deployments' = deployments + 1
    /\ provider' = [provider EXCEPT !.evidence = e, !.life = @ + 1]
    /\ fences' = 0
    /\ UNCHANGED <<core, leaseOver, claimVars, pc, local, answer, network, responses, decided>>

\* A deployment of the core with another pin; running handlers keep theirs.
DeployCore(pin) ==
    /\ deployments < MaxDeployments
    /\ deployments' = deployments + 1
    /\ core' = [core EXCEPT !.pin = pin]
    /\ UNCHANGED <<provider, fences, leaseOver, claimVars, pc, local, answer, network,
                   responses, decided>>

LeaseEnds ==
    /\ ~leaseOver
    /\ leaseOver' = TRUE
    /\ UNCHANGED <<deploymentVars, fences, claimVars, pc, local, answer, network, responses, decided>>
-----------------------------------------------------------------------------
\* proxyMarketplaceVendors, proxyMarketplaceSettlement, and the checks of
\* proxyVendorTransition in front of the reservation.
Receive(c) ==
    /\ pc[c] = "start"
    /\ IF ~operation[c].valid THEN Respond(c, "malformed")
       ELSE IF operation[c].kind # "transition" THEN Goto(c, "verify")
       ELSE IF leaseOver THEN Respond(c, "authoring_claim_expired")
       ELSE Goto(c, "reserve")
    /\ local' = [local EXCEPT ![c].pin = core.pin, ![c].secret = core.secret]
    /\ UNCHANGED <<deploymentVars, fences, leaseOver, claimVars, network, responses, decided>>

\* Mutant: every request that got so far takes a number.
NextPermit_PerCall == 1 + Cardinality({c \in Calls : pc[c] \notin {"start", "reserve"}})

\* beginMutation: the sequence number that follows the last one.
NextPermit == 1 + Cardinality({n \in Mutations : permits[n] > 0})

\* reserveOperatorMutation: the permit of the mutation, new or again.
Reserve(c) ==
    LET m == operation[c].mutation
        busy == \E n \in Mutations \ {m} : reservation[n] = "reserved"
    IN  /\ pc[c] = "reserve"
        /\ \/ /\ permits[m] > 0
              /\ local' = [local EXCEPT ![c].permit = permits[m]]
              /\ Goto(c, "verify") /\ UNCHANGED claimVars
           \/ /\ permits[m] = 0 /\ (busy \/ leaseOver)
              /\ Respond(c, "authoring_mutation_unresolved") /\ UNCHANGED <<claimVars, local>>
           \/ /\ permits[m] = 0 /\ ~busy /\ ~leaseOver
              /\ permits' = [permits EXCEPT ![m] = NextPermit]
              /\ reservation' = [reservation EXCEPT ![m] = "reserved"]
              /\ local' = [local EXCEPT ![c].permit = NextPermit]
              /\ Goto(c, "verify")
        /\ UNCHANGED <<deploymentVars, fences, leaseOver, network, responses, decided>>

\* verifyOperationalEvidence: an authenticated GET, which the provider answers
\* when the secrets agree.
VerifyEvidence(c) ==
    /\ pc[c] = "verify"
    /\ \/ Respond(c, "provider_evidence_unavailable") /\ UNCHANGED local
       \/ /\ local[c].secret # provider.secret
             \/ EvaluateConvergence(provider.evidence, local[c].pin) = "blocked"
          /\ Respond(c, "provider_evidence_mismatch") /\ UNCHANGED local
       \/ /\ local[c].secret = provider.secret
          /\ EvaluateConvergence(provider.evidence, local[c].pin) # "blocked"
          /\ local' = [local EXCEPT ![c].seen = provider.evidence]
          /\ Goto(c, "send")
    /\ UNCHANGED <<deploymentVars, fences, leaseOver, claimVars, network, responses, decided>>

\* bindAuthenticatedProviderRequest, then fetch.  A transition is bound again
\* once its permit is among the headers.
Send(c) ==
    /\ pc[c] = "send"
    /\ \/ Respond(c, "provider_authentication_unavailable") /\ UNCHANGED network
       \/ /\ LET binding == Binding(c, local[c].pin, local[c].permit)
             IN  network' = network \cup {[call |-> c, binding |-> binding,
                                           signature |-> Signature(binding, local[c].secret)]}
          /\ Goto(c, "await")
    /\ UNCHANGED <<deploymentVars, fences, leaseOver, claimVars, local, responses, decided>>
-----------------------------------------------------------------------------
Answer(request, bound, permit, status, code) ==
    [call |-> request.call, status |-> status, code |-> code, permit |-> permit,
     binding |-> IF bound THEN request.binding ELSE NoPin]

\* Mutant: the provider does not compare the binding with its own evidence.
ReadBinding_OnlySecret(request) ==
    request.signature = Signature(request.binding, provider.secret)

\* verifyCommerceProviderRequestAuthentication
VerifySignature(request) == request.signature = Signature(request.binding, provider.secret)

\* readAuthenticatedOperationalEvidenceBinding with the provider's own pin.
ReadBinding(request) ==
    /\ request.binding.pin = PinOf(provider.evidence)
    /\ request.binding.checks = RequiredChecks
    /\ VerifySignature(request)

\* Mutant: a permit that was executed is only refused when it is repeated.
AdmitMutation_AnyOrder(permit) == IF leaseOver THEN "authoring_mutation_lease_expired"
    ELSE IF fences = permit THEN "authoring_mutation_fence_stale" ELSE "admitted"

\* admitDevAuthoringMutation: the lease, then the fence of this life.
AdmitMutation(permit) ==
    IF leaseOver THEN "authoring_mutation_lease_expired"
    ELSE IF fences > permit THEN "authoring_mutation_fence_stale"
    ELSE "admitted"

Decide(permit, outcome) ==
    decided' = Append(decided, [permit |-> permit, outcome |-> outcome,
                                pin |-> PinOf(provider.evidence), life |-> provider.life])

\* The provider handles a request, whether or not somebody still waits.
ProviderHandles(request) ==
    LET permit == request.binding.request.permit
        verdict == AdmitMutation(permit)
        reply(bound, p, status, code) ==
            responses' = responses \cup {Answer(request, bound, p, status, code)}
    IN  /\ request \in network
        /\ network' = network \ {request}
        /\ \/ /\ ~ReadBinding(request)
              /\ reply(FALSE, 0, 409, "operational_evidence_binding_invalid")
              /\ UNCHANGED <<fences, decided>>
           \/ /\ ReadBinding(request) /\ permit = 0
              /\ \E code \in {"ok", "not_found"} : reply(TRUE, 0, 200, code)
              /\ UNCHANGED <<fences, decided>>
           \/ /\ ReadBinding(request) /\ permit > 0 /\ verdict # "admitted"
              /\ reply(TRUE, permit, 409, verdict)
              /\ Decide(permit, "refused") /\ UNCHANGED fences
           \/ /\ ReadBinding(request) /\ permit > 0 /\ verdict = "admitted"
              /\ fences' = permit
              /\ Decide(permit, "applied")
              /\ reply(TRUE, permit, 200, "ok")
        /\ UNCHANGED <<deploymentVars, leaseOver, claimVars, pc, local, answer>>

\* A marketplace provider may leave a transition undecided: one of the codes
\* of MARKETPLACE_RECOVERY_409_CODES, or a failure of its own.
ProviderUndecided(request) ==
    /\ request \in network /\ ReadBinding(request)
    /\ network' = network \ {request}
    /\ \E failure \in {<<409, "authoring_mutation_reconciliation_required">>, <<500, "error">>} :
          responses' = responses \cup
              {Answer(request, TRUE, request.binding.request.permit, failure[1], failure[2])}
    /\ UNCHANGED <<deploymentVars, fences, leaseOver, claimVars, pc, local, answer, decided>>

\* Mutant: a request without a permit has no limit.
Timeout_OnlyTransitions(c) ==
    /\ pc[c] = "await" /\ operation[c].kind = "transition"
    /\ Respond(c, "marketplace_provider_unavailable")
    /\ UNCHANGED <<deploymentVars, fences, leaseOver, claimVars, local, network, responses, decided>>

\* PROVIDER_TIMEOUT_MS, or the connection is lost: the request may arrive yet.
Timeout(c) ==
    /\ pc[c] = "await"
    /\ Respond(c, "marketplace_provider_unavailable")
    /\ UNCHANGED <<deploymentVars, fences, leaseOver, claimVars, local, network, responses, decided>>
-----------------------------------------------------------------------------
TerminalCodes == {"authoring_mutation_lease_expired", "authoring_mutation_fence_stale",
                  "authoring_mutation_fence_conflict", "authoring_mutation_id_conflict",
                  "transition_rejected"}

\* Mutant: every conflict is taken for a final refusal.
ClassifyVendorTransition_AnyConflict(response) ==
    IF response.status = 200 THEN "success"
    ELSE IF response.status = 409 THEN "terminal" ELSE "invalid"

\* classifyVendorTransition
ClassifyVendorTransition(response) ==
    IF response.status = 200 /\ response.code = "ok" THEN "success"
    ELSE IF response.status = 409 /\ response.code \in TerminalCodes THEN "terminal"
    ELSE "invalid"

\* responseMatchesOperationalEvidence and responseMatchesAuthoringMutation
BoundTo(response, c) ==
    /\ response.binding = Binding(c, local[c].pin, local[c].permit)
    /\ operation[c].kind = "transition" => response.permit = local[c].permit

Invalid(response) == IF response.status >= 500 THEN "marketplace_provider_unavailable"
                     ELSE "marketplace_provider_contract_mismatch"

\* What the three proxies do with an answer; finish may fail.
ReceiveAnswer(response) ==
    LET c == response.call
        m == operation[c].mutation
        class == ClassifyVendorTransition(response)
    IN  /\ pc[c] = "await" /\ response \in responses
        /\ \/ /\ ~BoundTo(response, c)
              /\ Respond(c, "marketplace_provider_evidence_binding_mismatch")
              /\ UNCHANGED reservation
           \/ /\ BoundTo(response, c) /\ operation[c].kind \in Reads
              /\ Respond(c, IF response.status = 200 THEN response.code ELSE Invalid(response))
              /\ UNCHANGED reservation
           \/ /\ BoundTo(response, c) /\ operation[c].kind = "transition" /\ class = "invalid"
              /\ Respond(c, Invalid(response)) /\ UNCHANGED reservation
           \/ /\ BoundTo(response, c) /\ operation[c].kind = "transition" /\ class # "invalid"
              /\ reservation' = [reservation EXCEPT ![m] = "completed"]
              /\ Respond(c, class)
           \/ /\ BoundTo(response, c) /\ operation[c].kind = "transition" /\ class # "invalid"
              /\ Respond(c, "authoring_mutation_completion_failed") /\ UNCHANGED reservation
        /\ responses' = responses \ {response}
        /\ UNCHANGED <<deploymentVars, fences, leaseOver, permits, local, network, decided>>
-----------------------------------------------------------------------------
Next ==
    \/ \E e \in Evidence : DeployProvider(e) \/ DeployCore(PinOf(e))
    \/ LeaseEnds
    \/ \E c \in Calls : Receive(c) \/ Reserve(c) \/ VerifyEvidence(c) \/ Send(c) \/ Timeout(c)
    \/ \E request \in network : ProviderHandles(request) \/ ProviderUndecided(request)
    \/ \E response \in responses : ReceiveAnswer(response)

Spec == Init /\ [][Next]_vars

\* Every fetch of a handler is under an AbortSignal.timeout, so a handler goes
\* on whatever the provider does.
HandlerStep(c) == Receive(c) \/ Reserve(c) \/ VerifyEvidence(c) \/ Send(c) \/ Timeout(c)
FairSpec == Spec /\ \A c \in Calls : WF_vars(HandlerStep(c))
-----------------------------------------------------------------------------
TypeOK ==
    /\ provider.evidence \in Evidence /\ provider.secret \in Secrets
    /\ fences \in 0 .. Cardinality(Mutations)
    /\ permits \in [Mutations -> 0 .. Cardinality(Mutations)]
    /\ reservation \in [Mutations -> {"none", "reserved", "completed"}]
    /\ pc \in [Calls -> {"start", "reserve", "verify", "send", "await", "done"}]
    /\ \A request \in network : request.call \in Calls
    /\ \A response \in responses : response.call \in Calls

\* Whatever is deployed between the check and the arrival of a request, a
\* provider decides a mutation only under evidence that some call saw and
\* found to satisfy every required check at the pinned version.
DecidedUnderVerifiedEvidence ==
    \A i \in 1 .. Len(decided) :
        \E c \in Calls : /\ local[c].permit = decided[i].permit
                         /\ local[c].pin = decided[i].pin
                         /\ local[c].seen # NoPin /\ PinOf(local[c].seen) = decided[i].pin
                         /\ RequiredChecks \subseteq local[c].seen.checks

\* One pin admits one evidence: two calls under the same pin went ahead on the
\* same checks and revision, so evidence cannot drift while the pin stays.
PinFixesEvidence ==
    \A c, d \in Calls : local[c].seen # NoPin /\ local[d].seen # NoPin /\ local[c].pin = local[d].pin
        => local[c].seen = local[d].seen

\* A reservation is completed only after the provider has applied or finally
\* refused that very permit; a lost, unbound or undecided answer leaves it.
CompletedIsDecided ==
    \A m \in Mutations : reservation[m] = "completed" =>
        \E i \in 1 .. Len(decided) : decided[i].permit = permits[m]

\* Within one life of the provider, transitions are applied in the order of
\* their permits, also when a request arrives after a later one.
AppliedInOrder ==
    \A i, j \in 1 .. Len(decided) :
        i < j /\ decided[i].outcome = "applied" /\ decided[j].outcome = "applied"
        /\ decided[i].life = decided[j].life => decided[i].permit <= decided[j].permit

\* Every operation is answered, whatever the provider does or is replaced by.
CallsEnd == \A c \in Calls : <>(pc[c] = "done")
=============================================================================
