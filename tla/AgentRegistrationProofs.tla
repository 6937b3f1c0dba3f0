----------------------- MODULE AgentRegistrationProofs ----------------------
(***************************************************************************)
(* The requests that change the registry.  RegistrationInv is inductive    *)
(* and gives, with AuthoringInv, that they use the coordinator and         *)
(* the fences as AuthoringFence allows and register nothing unadmitted.    *)
(* RoomInv is inductive as long as the admission journal has room: then a  *)
(* permit that lost its reservation is inert, so the registry is only ever *)
(* written by the permit in reservation.                                   *)
(***************************************************************************)
EXTENDS AgentRegistration, FiniteSetTheorems

USE ClaimFields, Bounds, NoPermitAssumption, JournalFields, RegistrationFields

Labels == {"idle", "reserve", "preflight", "admission", "read", "commit",
           "refused", "finish"} \cup Phases

\* The empty row is a record.
LEMMA NoRecordType == NoRecord \in Records
<1>1. \E i \in Inputs : TRUE
  BY DEF Inputs
<1>2. (CHOOSE i \in Inputs : TRUE) \in Inputs
  BY <1>1
<1>3. 0 \in 0 .. MaxSequence
  OBVIOUS
<1> QED BY <1>2, <1>3 DEF NoRecord, Records

\* Nothing has happened yet.
LEMMA InitRegistrationInv == Init => RegistrationInv
<1> SUFFICES ASSUME Init PROVE RegistrationInv
  OBVIOUS
<1>1. NoRecord \in Records
  BY NoRecordType
<1>2. AuthoringInv
  BY AuthoringInitInv DEF Init
<1>3. TypeOK
  BY <1>1, <1>2 DEF Init, TypeOK, AuthoringInv
<1> QED BY <1>2, <1>3 DEF Init, RegistrationInv, RequestsInMemory, PastAdmission, Phases,
        JournalsIssued, RegisteredIsAdmitted, AuthoringInit, ClaimInit, FenceInit

\* A permit a request obtains is one the coordinator has issued for the scope.
LEMMA ReserveObtains ==
    ASSUME RegistrationInv, NEW h \in Handlers, Reserve(h)
    PROVE  /\ issued \subseteq issued'
           /\ permit' = [permit EXCEPT ![h] = permit'[h]]
           /\ permit'[h] \in issued' /\ permit'[h] \in Permits
           /\ ScopeOf(permit'[h]) = RegistryScope
           /\ permit'[h].operation = request[h].operation
           /\ \/ UNCHANGED claimVars
              \/ BeginMutation(request[h].claim, request[h].operation)
<1> DEFINE c == request[h].claim
           op == request[h].operation
<1> USE DEF RegistrationInv
<1>0. /\ c \in Claims /\ op \in Operations
      /\ semanticScope[c] = RegistryScope /\ operationScope[op] = RegistryScope
      /\ permit \in [Handlers -> Permits \cup {NoPermit}]
      /\ issued \subseteq Permits
      /\ reservation \in [Scopes -> Permits \cup {NoPermit}]
      /\ sequence \in [Scopes -> 0 .. MaxSequence]
  BY DEF Reserve, RequestsInMemory, Requests, TypeOK, AuthoringTypeOK, ClaimTypeOK
<1>1. ASSUME NEW p \in Reserved(c, op) \cup Completed(c, op),
             permit' = [permit EXCEPT ![h] = p], UNCHANGED claimVars
      PROVE  /\ issued \subseteq issued'
             /\ permit' = [permit EXCEPT ![h] = permit'[h]]
             /\ permit'[h] \in issued' /\ permit'[h] \in Permits
             /\ ScopeOf(permit'[h]) = RegistryScope
             /\ permit'[h].operation = op
  <2>1. p \in issued /\ p.claim = c /\ p.operation = op
    BY <1>0, <1>1 DEF Reserved, Completed, AuthoringInv, RowsWellFormed, HasReservation,
        JournalsIssued
  <2> QED BY <1>0, <1>1, <2>1 DEF claimVars, ScopeOf
<1>2. ASSUME BeginMutation(c, op), permit' = [permit EXCEPT ![h] = reservation'[RegistryScope]]
      PROVE  /\ issued \subseteq issued'
             /\ permit' = [permit EXCEPT ![h] = permit'[h]]
             /\ permit'[h] \in issued' /\ permit'[h] \in Permits
             /\ ScopeOf(permit'[h]) = RegistryScope
             /\ permit'[h].operation = op
  <2> DEFINE p == [claim |-> c, operation |-> op, sequence |-> sequence[RegistryScope] + 1]
  <2>1. reservation'[RegistryScope] = p /\ issued' = issued \cup {p} /\ p \in Permits
    BY <1>0, <1>2 DEF BeginMutation, Permits
  <2>2. permit'[h] = p
    BY <1>0, <1>2, <2>1
  <2>3. p.claim = c /\ p.operation = op
    OBVIOUS
  <2> QED BY <1>0, <1>2, <2>1, <2>2, <2>3 DEF ScopeOf
<1> QED BY <1>1, <1>2 DEF Reserve

\* Every step of a request is one the coordinator and the fences allow.
LEMMA AuthoringStep ==
    ASSUME RegistrationInv, [Next]_vars
    PROVE  [AuthoringNext]_authoringVars
<1> USE DEF RegistrationInv
<1>1. ASSUME NEW h \in Handlers, Reserve(h)
      PROVE  [AuthoringNext]_authoringVars
  <2>1. request[h].claim \in Claims /\ request[h].operation \in Operations
    BY <1>1 DEF Reserve, RequestsInMemory, Requests
  <2> QED BY <1>1, <2>1, ReserveObtains
          DEF Reserve, AuthoringNext, ClaimNext, authoringVars, claimVars, fenceVars
<1>2. ASSUME NEW h \in Handlers, NEW p \in {permit[h]}, pc[h] \notin {"idle", "reserve"}
      PROVE  p \in issued
  BY <1>2 DEF RequestsInMemory
<1>3. ASSUME NEW h \in Handlers, Admit(h)
      PROVE  [AuthoringNext]_authoringVars
  <2>1. permit[h] \in issued
    BY <1>2, <1>3 DEF Admit
  <2>2. ASSUME Execute("acos", permit[h], IF Full THEN {OldestOutcome} ELSE {})
        PROVE  FenceStep
    <3>1. (IF Full THEN {OldestOutcome} ELSE {}) \in SUBSET outcome["acos"]
      BY <2>2 DEF Execute
    <3> QED BY <1>3, <2>1, <2>2, <3>1 DEF FenceStep, Admit
  <2> QED BY <1>3, <2>2 DEF Admit, AuthoringNext, authoringVars, claimVars, fenceVars
<1>4. ASSUME NEW h \in Handlers, NEW r, pc[h] = "commit",
             FencedMutation(permit[h], r), UNCHANGED claimVars
      PROVE  [AuthoringNext]_authoringVars
  <2>1. permit[h] \in issued
    BY <1>2, <1>4
  <2>2. ASSUME Execute("registry", permit[h], {})
        PROVE  FenceStep
    BY <1>4, <2>1, <2>2 DEF FenceStep
  <2> QED BY <1>4, <2>2 DEF FencedMutation, AuthoringNext, authoringVars, claimVars, fenceVars
<1>5. ASSUME NEW h \in Handlers,
             CommitRegistration(h) \/ CommitUnconfirmed(h) \/ CommitDeregistration(h)
      PROVE  [AuthoringNext]_authoringVars
  BY <1>4, <1>5 DEF CommitRegistration, CommitUnconfirmed, CommitDeregistration,
     authoringVars, claimVars, fenceVars
<1>6. ASSUME NEW h \in Handlers, Finish(h) \/ FinishUnconfirmed(h)
      PROVE  [AuthoringNext]_authoringVars
  <2>1. permit[h] \in issued
    BY <1>2, <1>6 DEF Finish, FinishUnconfirmed
  <2> QED BY <1>6, <2>1 DEF Finish, FinishUnconfirmed, AuthoringNext, ClaimNext,
          authoringVars, claimVars, fenceVars
<1>7. ASSUME NEW h \in Handlers, Preserve(h)
      PROVE  [AuthoringNext]_authoringVars
  <2>1. permit[h] \in issued
    BY <1>2, <1>7 DEF Preserve, Phases
  <2> QED BY <1>7, <2>1 DEF Preserve, AuthoringNext, ClaimNext, authoringVars, claimVars,
          fenceVars
<1>8. CASE ClaimLifecycle
  BY <1>8 DEF ClaimLifecycle, AuthoringNext, ClaimNext
<1>9. ASSUME NEW h \in Handlers,
             \/ \E r \in Requests : Start(h, r)
             \/ Preflight(h) \/ AdmissionRejected(h) \/ ReadStored(h) \/ Abandon(h)
      PROVE  UNCHANGED authoringVars
  BY <1>9 DEF Start, Preflight, AdmissionRejected, ReadStored, Abandon, authoringVars,
     claimVars, fenceVars
<1> QED BY <1>1, <1>3, <1>5, <1>6, <1>7, <1>8, <1>9 DEF Next, Handle, vars, authoringVars

\* The coordinator and the fences forget no permit they issued.
LEMMA IssuedGrows ==
    ASSUME RegistrationInv, [Next]_vars
    PROVE  issued \subseteq issued'
BY AuthoringStep DEF AuthoringNext, ClaimNext, FenceStep, authoringVars, claimVars, Acquire,
   Release, BeginMutation, CompleteMutation, PreserveMutationReconciliation, Tick

\* The variables the registration adds stay in their types.
LEMMA TypeStep ==
    ASSUME RegistrationInv, [Next]_vars, AuthoringInv'
    PROVE  TypeOK'
<1> USE DEF RegistrationInv
<1>0. NoRecord \in Records /\ AuthoringTypeOK'
  BY NoRecordType DEF AuthoringInv
<1>1. ASSUME NEW h \in Handlers, End(h)
      PROVE  /\ pc' \in [Handlers -> Labels]
             /\ request' \in [Handlers -> Requests \cup {NoRequest}]
             /\ permit' \in [Handlers -> Permits \cup {NoPermit}]
             /\ existing' \in [Handlers -> Records]
  BY <1>0, <1>1 DEF End, Goto, TypeOK, Labels
<1>2. ASSUME NEW p \in Permits, NEW r \in Records, FencedMutation(p, r)
      PROVE  record' \in Records /\ accepted' \subseteq outcome'["registry"]
  <2>1. ASSUME Execute("registry", p, {}), Mutation(p, r)
        PROVE  record' \in Records /\ accepted' \subseteq outcome'["registry"]
    <3>1. p.operation \in Operations /\ p.sequence \in 0 .. MaxSequence
      BY PermitFields
    <3>2. inputs[p.operation] \in Inputs
      BY <3>1 DEF Inputs
    <3>3. [hash |-> p.sequence, inputs |-> inputs[p.operation], active |-> TRUE] \in Records
      BY <3>1, <3>2 DEF Records
    <3>4. [record EXCEPT !.active = @ /\ ~r.active] \in Records
      BY DEF TypeOK, Records
    <3>5. outcome'["registry"] = outcome["registry"] \cup {p}
      BY <2>1 DEF Execute, TypeOK, AuthoringTypeOK, FenceTypeOK
    <3> QED BY <2>1, <3>3, <3>4, <3>5 DEF Mutation, TypeOK
  <2> QED BY <1>2, <2>1 DEF FencedMutation, TypeOK, fenceVars
<1>3. ASSUME NEW h \in Handlers, pc[h] \notin {"idle", "reserve"}
      PROVE  permit[h] \in Permits
  BY <1>3 DEF RequestsInMemory, TypeOK, AuthoringTypeOK, ClaimTypeOK
<1>4. ASSUME NEW h \in Handlers,
             CommitRegistration(h) \/ CommitUnconfirmed(h) \/ CommitDeregistration(h)
      PROVE  TypeOK'
  <2>1. permit[h] \in Permits /\ existing[h] \in Records
    BY <1>3, <1>4 DEF CommitRegistration, CommitUnconfirmed, CommitDeregistration, TypeOK
  <2>2. record' \in Records /\ accepted' \subseteq outcome'["registry"]
    BY <1>2, <1>4, <2>1 DEF CommitRegistration, CommitUnconfirmed, CommitDeregistration, TypeOK,
       fenceVars
  <2>3. /\ pc' \in [Handlers -> Labels]
        /\ existing' \in [Handlers -> Records]
        /\ UNCHANGED <<request, permit, admitted>>
    BY <1>0, <1>4 DEF CommitRegistration, CommitUnconfirmed, CommitDeregistration, Goto, TypeOK,
       Labels, Phases
  <2> QED BY <1>0, <2>2, <2>3 DEF TypeOK, Labels
<1>5. ASSUME NEW h \in Handlers, Reserve(h)
      PROVE  TypeOK'
  <2>1. permit' \in [Handlers -> Permits \cup {NoPermit}]
    BY <1>5, ReserveObtains DEF TypeOK
  <2> QED BY <1>0, <1>5, <2>1 DEF Reserve, Goto, TypeOK, Labels, fenceVars
<1>6. ASSUME NEW h \in Handlers, Admit(h)
      PROVE  TypeOK'
  <2>1. permit[h] \in Permits
    BY <1>3, <1>6 DEF Admit
  <2>2. outcome'["registry"] = outcome["registry"]
    BY <1>6 DEF Admit, Execute, fenceVars, TypeOK, AuthoringTypeOK, FenceTypeOK
  <2> QED BY <1>0, <1>6, <2>1, <2>2 DEF Admit, Goto, TypeOK, Labels
<1>7. ASSUME NEW h \in Handlers, Finish(h) \/ Preserve(h) \/ Abandon(h)
      PROVE  TypeOK'
  BY <1>0, <1>1, <1>7 DEF Finish, Preserve, Abandon, TypeOK, fenceVars, Labels
<1>8. ASSUME NEW h \in Handlers, FinishUnconfirmed(h)
      PROVE  TypeOK'
  <2>1. CASE End(h)
    BY <1>0, <1>1, <1>8, <2>1 DEF FinishUnconfirmed, TypeOK, fenceVars, Labels
  <2>2. CASE Goto(h, "reservation-completion-unconfirmed") /\ UNCHANGED <<request, permit, existing>>
    BY <1>0, <1>8, <2>2 DEF FinishUnconfirmed, Goto, TypeOK, fenceVars, Phases
  <2> QED BY <1>8, <2>1, <2>2 DEF FinishUnconfirmed
<1>9. ASSUME NEW h \in Handlers,
             \/ \E r \in Requests : Start(h, r)
             \/ Preflight(h) \/ AdmissionRejected(h) \/ ReadStored(h)
      PROVE  TypeOK'
  BY <1>0, <1>9 DEF Start, Preflight, AdmissionRejected, ReadStored, Goto, TypeOK, fenceVars
<1>10. CASE ClaimLifecycle \/ UNCHANGED vars
  BY <1>0, <1>10 DEF ClaimLifecycle, vars, TypeOK, fenceVars, requestVars
<1> QED BY <1>4, <1>5, <1>6, <1>7, <1>8, <1>9, <1>10 DEF Next, Handle

\* What a request has in memory stays what it was issued.
LEMMA MemoryStep ==
    ASSUME RegistrationInv, [Next]_vars, TypeOK'
    PROVE  RequestsInMemory'
<1> DEFINE M(h) ==
      /\ pc[h] = "idle" => permit[h] = NoPermit
      /\ pc[h] = "reserve" =>
            /\ permit[h] = NoPermit
            /\ request[h] \in Requests
            /\ operationScope[request[h].operation] = RegistryScope
            /\ semanticScope[request[h].claim] = RegistryScope
      /\ pc[h] \notin {"idle", "reserve"} =>
            permit[h] \in issued /\ ScopeOf(permit[h]) = RegistryScope
      /\ pc[h] \in {"preflight", "admission", "refused"} \cup Phases =>
            kind[permit[h].operation] = "register"
<1> USE DEF RegistrationInv
<1>0. \A k \in Handlers : M(k)
  BY DEF RequestsInMemory
<1>1. issued \subseteq issued'
  BY IssuedGrows
<1>2. /\ pc \in [Handlers -> Labels]
      /\ request \in [Handlers -> Requests \cup {NoRequest}]
      /\ permit \in [Handlers -> Permits \cup {NoPermit}]
  BY DEF TypeOK, Labels
<1>3. ASSUME NEW k \in Handlers,
             pc'[k] = pc[k], request'[k] = request[k], permit'[k] = permit[k]
      PROVE  M(k)'
  BY <1>0, <1>1, <1>3 DEF ScopeOf
<1>4. ASSUME NEW h \in Handlers, End(h)
      PROVE  \A k \in Handlers : M(k)'
  <2>1. M(h)'
    BY <1>2, <1>4 DEF End, Goto, Phases
  <2>2. \A k \in Handlers \ {h} : M(k)'
    BY <1>2, <1>3, <1>4 DEF End, Goto
  <2> QED BY <2>1, <2>2
<1>5. ASSUME NEW h \in Handlers, NEW label \in Labels \ {"idle", "reserve"}, Goto(h, label),
             UNCHANGED <<request, permit>>, pc[h] \notin {"idle", "reserve"},
             label \in {"preflight", "admission", "refused"} \cup Phases =>
                kind[permit[h].operation] = "register"
      PROVE  \A k \in Handlers : M(k)'
  <2>1. M(h)'
    BY <1>0, <1>1, <1>2, <1>5 DEF Goto, ScopeOf
  <2>2. \A k \in Handlers \ {h} : M(k)'
    BY <1>2, <1>3, <1>5 DEF Goto
  <2> QED BY <2>1, <2>2
<1>6. ASSUME NEW h \in Handlers, NEW r \in Requests, Start(h, r)
      PROVE  \A k \in Handlers : M(k)'
  <2>1. M(h)'
    BY <1>0, <1>2, <1>6 DEF Start, Goto, Phases
  <2>2. \A k \in Handlers \ {h} : M(k)'
    BY <1>2, <1>3, <1>6 DEF Start, Goto
  <2> QED BY <2>1, <2>2
<1>7. ASSUME NEW h \in Handlers, Reserve(h)
      PROVE  \A k \in Handlers : M(k)'
  <2>1. /\ permit'[h] \in issued' /\ ScopeOf(permit'[h]) = RegistryScope
        /\ permit' = [permit EXCEPT ![h] = permit'[h]]
        /\ permit'[h].operation = request[h].operation
    BY <1>7, ReserveObtains
  <2>2. pc'[h] = IF kind[permit'[h].operation] = "register" THEN "preflight" ELSE "read"
    BY <1>2, <1>7, <2>1 DEF Reserve, Goto
  <2>3. M(h)'
    BY <2>1, <2>2 DEF ScopeOf, Phases
  <2>4. \A k \in Handlers \ {h} : M(k)'
    BY <1>2, <1>3, <1>7, <2>1 DEF Reserve, Goto
  <2> QED BY <2>3, <2>4
<1>8. ASSUME NEW h \in Handlers,
             \/ Preflight(h) \/ Admit(h) \/ AdmissionRejected(h) \/ ReadStored(h)
             \/ CommitRegistration(h) \/ CommitUnconfirmed(h) \/ CommitDeregistration(h)
      PROVE  \A k \in Handlers : M(k)'
  <2>1. PICK label \in Labels \ {"idle", "reserve"} :
           /\ Goto(h, label)
           /\ label \in {"preflight", "admission", "refused"} \cup Phases =>
                 kind[permit[h].operation] = "register"
    BY <1>0, <1>8 DEF Preflight, Admit, AdmissionRejected, ReadStored, CommitRegistration,
       CommitUnconfirmed, CommitDeregistration, Labels, Phases
  <2>2. UNCHANGED <<request, permit>> /\ pc[h] \notin {"idle", "reserve"}
    BY <1>8 DEF Preflight, Admit, AdmissionRejected, ReadStored, CommitRegistration,
       CommitUnconfirmed, CommitDeregistration
  <2> QED BY <1>5, <2>1, <2>2
<1>9. ASSUME NEW h \in Handlers,
             Finish(h) \/ FinishUnconfirmed(h) \/ Preserve(h) \/ Abandon(h)
      PROVE  \A k \in Handlers : M(k)'
  <2>1. CASE End(h)
    BY <1>4, <2>1
  <2>2. CASE /\ Goto(h, "reservation-completion-unconfirmed")
             /\ UNCHANGED <<request, permit, existing>>
             /\ pc[h] = "finish" /\ kind[permit[h].operation] = "register"
    BY <1>5, <2>2 DEF Labels, Phases
  <2> QED BY <1>9, <2>1, <2>2 DEF Finish, FinishUnconfirmed, Preserve, Abandon
<1>10. ASSUME ClaimLifecycle \/ UNCHANGED vars
       PROVE  \A k \in Handlers : M(k)'
  BY <1>3, <1>10 DEF ClaimLifecycle, vars, requestVars
<1>11. \A k \in Handlers : M(k)'
  BY <1>6, <1>7, <1>8, <1>9, <1>10 DEF Next, Handle
<1> QED BY <1>11 DEF RequestsInMemory

\* A write of the registry, by a request at its commit.
RegistryWrite(h) ==
    /\ pc[h] = "commit"
    /\ Executable("registry", permit[h]) /\ Mutation(permit[h], existing[h])
    /\ fence'["registry"] = permit[h] /\ fence'["acos"] = fence["acos"]
    /\ outcome'["registry"] = outcome["registry"] \cup {permit[h]}
    /\ outcome'["acos"] = outcome["acos"]
    /\ existing' = [existing EXCEPT ![h] = NoRecord]
    /\ \E label \in {"finish", "commerce-commit-rejected", "commerce-commit-unconfirmed"} :
          Goto(h, label)
    /\ UNCHANGED <<claimVars, request, permit, admitted>>

\* A registration in the admission state, by a request at its admission.
AdmissionWrite(h) ==
    /\ pc[h] = "admission"
    /\ Executable("acos", permit[h])
    /\ fence'["acos"] = permit[h] /\ fence'["registry"] = fence["registry"]
    /\ permit[h] \in outcome'["acos"]
    /\ outcome'["acos"] \subseteq outcome["acos"] \cup {permit[h]}
    /\ ~Full => outcome'["acos"] = outcome["acos"] \cup {permit[h]}
    /\ \A q \in outcome["acos"] \ outcome'["acos"] : leaseExpiresAtMs[q.claim] <= now
    /\ outcome'["registry"] = outcome["registry"]
    /\ admitted' = admitted \cup {permit[h]}
    /\ Goto(h, "read")
    /\ UNCHANGED <<claimVars, request, permit, existing, record, accepted>>

RegistryUnchanged ==
    /\ UNCHANGED <<record, accepted>>
    /\ outcome'["registry"] = outcome["registry"] /\ fence'["registry"] = fence["registry"]

AdmissionUnchanged ==
    /\ UNCHANGED admitted
    /\ outcome'["acos"] = outcome["acos"] /\ fence'["acos"] = fence["acos"]

\* A step changes at most one of the two stores, and changes it as above.
LEMMA StoreStep ==
    ASSUME RegistrationInv, [Next]_vars
    PROVE  \/ RegistryUnchanged /\ AdmissionUnchanged
           \/ \E h \in Handlers : RegistryWrite(h)
           \/ \E h \in Handlers : AdmissionWrite(h)
<1> USE DEF RegistrationInv
<1>0. outcome \in [Journals -> SUBSET Permits] /\ fence \in [Journals -> Permits \cup {NoPermit}]
  BY DEF TypeOK, AuthoringTypeOK, FenceTypeOK
<1>1. ASSUME NEW h \in Handlers, Admit(h), ~(permit[h] \in outcome["acos"] /\ UNCHANGED fenceVars
                                              /\ UNCHANGED admitted)
      PROVE  AdmissionWrite(h)
  <2> DEFINE retired == IF Full THEN {OldestOutcome} ELSE {}
  <2>1. Execute("acos", permit[h], retired) /\ admitted' = admitted \cup {permit[h]}
    BY <1>1 DEF Admit, fenceVars
  <2>2. /\ outcome' = [outcome EXCEPT !["acos"] = (@ \ retired) \cup {permit[h]}]
        /\ fence' = [fence EXCEPT !["acos"] = permit[h]]
        /\ \A q \in retired : q \in outcome["acos"] /\ leaseExpiresAtMs[q.claim] <= now
        /\ Executable("acos", permit[h])
        /\ ~Full => retired = {}
    BY <2>1 DEF Execute
  <2> HIDE DEF retired
  <2> QED BY <1>0, <1>1, <2>1, <2>2 DEF AdmissionWrite, Admit
<1>2. ASSUME NEW h \in Handlers,
             CommitRegistration(h) \/ CommitUnconfirmed(h) \/ CommitDeregistration(h),
             ~UNCHANGED <<fenceVars, record, accepted>>
      PROVE  RegistryWrite(h)
  <2>1. Execute("registry", permit[h], {}) /\ Mutation(permit[h], existing[h])
    BY <1>2 DEF CommitRegistration, CommitUnconfirmed, CommitDeregistration, FencedMutation
  <2>2. /\ outcome' = [outcome EXCEPT !["registry"] = @ \cup {permit[h]}]
        /\ fence' = [fence EXCEPT !["registry"] = permit[h]]
        /\ Executable("registry", permit[h])
    BY <2>1 DEF Execute
  <2>3. /\ existing' = [existing EXCEPT ![h] = NoRecord] /\ pc[h] = "commit"
        /\ \E label \in {"finish", "commerce-commit-rejected", "commerce-commit-unconfirmed"} :
              Goto(h, label)
        /\ UNCHANGED <<claimVars, request, permit, admitted>>
    BY <1>2 DEF CommitRegistration, CommitUnconfirmed, CommitDeregistration
  <2> QED BY <1>0, <2>1, <2>2, <2>3 DEF RegistryWrite
<1>3. ASSUME NEW h \in Handlers,
             CommitRegistration(h) \/ CommitUnconfirmed(h) \/ CommitDeregistration(h)
      PROVE  UNCHANGED admitted
  BY <1>3 DEF CommitRegistration, CommitUnconfirmed, CommitDeregistration
<1>4. ASSUME NEW h \in Handlers, Admit(h)
      PROVE  UNCHANGED <<record, accepted>>
  BY <1>4 DEF Admit
<1>5. ASSUME NEW h \in Handlers,
             \/ \E r \in Requests : Start(h, r)
             \/ Reserve(h) \/ Preflight(h) \/ AdmissionRejected(h) \/ ReadStored(h) \/ Finish(h)
             \/ FinishUnconfirmed(h) \/ Preserve(h) \/ Abandon(h)
      PROVE  UNCHANGED <<record, accepted, fenceVars, admitted>>
  BY <1>5 DEF Start, Reserve, Preflight, AdmissionRejected, ReadStored, Finish,
     FinishUnconfirmed, Preserve, Abandon
<1>6. ASSUME ClaimLifecycle \/ UNCHANGED vars
      PROVE  UNCHANGED <<record, accepted, fenceVars, admitted>>
  BY <1>6 DEF ClaimLifecycle, vars, fenceVars
<1>7. ASSUME UNCHANGED <<record, accepted, fenceVars, admitted>>
      PROVE  RegistryUnchanged /\ AdmissionUnchanged
  BY <1>7 DEF RegistryUnchanged, AdmissionUnchanged, fenceVars
<1> QED BY <1>1, <1>2, <1>3, <1>4, <1>5, <1>6, <1>7 DEF Next, Handle

\* The admission state and the registry keep issued permits of their scope, and
\* the registry keeps no registration that was not admitted.
LEMMA JournalStep ==
    ASSUME RegistrationInv, [Next]_vars
    PROVE  JournalsIssued' /\ RegisteredIsAdmitted'
<1> USE DEF RegistrationInv
<1>1. issued \subseteq issued'
  BY IssuedGrows
<1>2. completion' \subseteq issued'
  BY <1>1, AuthoringStep DEF AuthoringNext, ClaimNext, FenceStep, authoringVars, claimVars,
     Acquire, Release, BeginMutation, CompleteMutation, PreserveMutationReconciliation, Tick,
     JournalsIssued
<1>3. CASE RegistryUnchanged /\ AdmissionUnchanged
  BY <1>1, <1>2, <1>3 DEF RegistryUnchanged, AdmissionUnchanged, JournalsIssued,
     RegisteredIsAdmitted, ScopeOf
<1>4. ASSUME NEW h \in Handlers, RegistryWrite(h)
      PROVE  JournalsIssued' /\ RegisteredIsAdmitted'
  <2>1. permit[h] \in issued /\ ScopeOf(permit[h]) = RegistryScope
    BY <1>4 DEF RegistryWrite, RequestsInMemory
  <2>2. kind[permit[h].operation] = "register" => permit[h] \in admitted
    BY <1>4 DEF RegistryWrite, PastAdmission
  <2>3. /\ outcome'["registry"] = outcome["registry"] \cup {permit[h]}
        /\ outcome'["acos"] = outcome["acos"] /\ admitted' = admitted
    BY <1>4 DEF RegistryWrite
  <2>4. JournalsIssued'
    BY <1>1, <1>2, <2>1, <2>3 DEF JournalsIssued, ScopeOf
  <2>5. RegisteredIsAdmitted'
    BY <2>2, <2>3 DEF RegisteredIsAdmitted
  <2> QED BY <2>4, <2>5
<1>5. ASSUME NEW h \in Handlers, AdmissionWrite(h)
      PROVE  JournalsIssued' /\ RegisteredIsAdmitted'
  <2>1. /\ permit[h] \in issued /\ ScopeOf(permit[h]) = RegistryScope
        /\ kind[permit[h].operation] = "register"
    BY <1>5 DEF AdmissionWrite, RequestsInMemory
  <2>2. /\ outcome'["registry"] = outcome["registry"]
        /\ outcome'["acos"] \subseteq outcome["acos"] \cup {permit[h]}
        /\ admitted' = admitted \cup {permit[h]}
    BY <1>5 DEF AdmissionWrite
  <2>3. JournalsIssued'
    BY <1>1, <1>2, <2>1, <2>2 DEF JournalsIssued, ScopeOf
  <2>4. RegisteredIsAdmitted'
    BY <2>2 DEF RegisteredIsAdmitted
  <2> QED BY <2>3, <2>4
<1> QED BY <1>3, <1>4, <1>5, StoreStep

\* Only an admission, and reading after it, takes a registration to its commit.
LEMMA PastAdmissionStep ==
    ASSUME RegistrationInv, [Next]_vars
    PROVE  PastAdmission'
<1> USE DEF RegistrationInv
<1>0. /\ pc \in [Handlers -> Labels]
      /\ permit \in [Handlers -> Permits \cup {NoPermit}]
  BY DEF TypeOK, Labels
<1>1. admitted \subseteq admitted'
  BY StoreStep DEF AdmissionUnchanged, RegistryWrite, AdmissionWrite
<1>2. ASSUME NEW k \in Handlers, pc'[k] \in {"read", "commit"},
             kind[permit'[k].operation] = "register", pc'[k] # pc[k] \/ permit'[k] # permit[k]
      PROVE  permit'[k] \in admitted'
  <2>1. ASSUME NEW h \in Handlers, Reserve(h)
        PROVE  permit'[k] \in admitted'
    <3>1. /\ permit' = [permit EXCEPT ![h] = permit'[h]]
          /\ permit'[h].operation = request[h].operation
      BY <2>1, ReserveObtains
    <3>2. pc' = [pc EXCEPT ![h] = IF kind[request[h].operation] = "register"
                                   THEN "preflight" ELSE "read"]
      BY <2>1 DEF Reserve, Goto
    <3> QED BY <1>0, <1>2, <3>1, <3>2
  <2>2. ASSUME NEW h \in Handlers, Admit(h)
        PROVE  permit'[k] \in admitted'
    <3>1. permit[h] \in admitted'
      BY <2>2, <1>1 DEF Admit, JournalsIssued
    <3> QED BY <1>0, <1>2, <2>2, <3>1 DEF Admit, Goto
  <2>3. ASSUME NEW h \in Handlers, ReadStored(h)
        PROVE  permit'[k] \in admitted'
    BY <1>0, <1>1, <1>2, <2>3 DEF ReadStored, Goto, PastAdmission
  <2>4. ASSUME NEW h \in Handlers,
               \/ \E r \in Requests : Start(h, r)
               \/ Preflight(h) \/ AdmissionRejected(h)
               \/ CommitRegistration(h) \/ CommitUnconfirmed(h) \/ CommitDeregistration(h)
        PROVE  FALSE
    BY <1>0, <1>2, <2>4 DEF Start, Preflight, AdmissionRejected, CommitRegistration,
       CommitUnconfirmed, CommitDeregistration, Goto
  <2>5. ASSUME NEW h \in Handlers,
               Finish(h) \/ FinishUnconfirmed(h) \/ Preserve(h) \/ Abandon(h)
        PROVE  FALSE
    BY <1>0, <1>2, <2>5 DEF Finish, FinishUnconfirmed, Preserve, Abandon, End, Goto
  <2>6. ASSUME ClaimLifecycle \/ UNCHANGED vars
        PROVE  FALSE
    BY <1>2, <2>6 DEF ClaimLifecycle, vars, requestVars
  <2> QED BY <2>1, <2>2, <2>3, <2>4, <2>5, <2>6 DEF Next, Handle
<1> QED BY <1>1, <1>2 DEF PastAdmission

\* The invariant is inductive.
LEMMA RegistrationNextInv ==
    ASSUME RegistrationInv, [Next]_vars
    PROVE  RegistrationInv'
<1>1. AuthoringInv'
  BY AuthoringStep, AuthoringNextInv DEF RegistrationInv
<1>2. TypeOK'
  BY <1>1, TypeStep
<1> QED BY <1>1, <1>2, MemoryStep, PastAdmissionStep, JournalStep DEF RegistrationInv

\* The invariant holds throughout.
LEMMA RegistrationInvariance == Spec => []RegistrationInv
BY InitRegistrationInv, RegistrationNextInv, PTL DEF Spec

\* Requests, permits, records and journals stay in their types.
THEOREM RegistrationTypeCorrect == Spec => []TypeOK
BY RegistrationInvariance, PTL DEF RegistrationInv

\* The requests are callers that AuthoringFence allows, so everything proved of
\* the coordinator and the fences holds of them.
THEOREM RegistrationUsesAuthoring == Spec => UsesAuthoring
<1>1. Init => AuthoringInit
  BY DEF Init
<1> QED BY <1>1, AuthoringStep, RegistrationInvariance, PTL
        DEF Spec, UsesAuthoring, AuthoringSpec

\* The registry holds no registration whose own permit was not admitted.
THEOREM OnlyAdmittedRegistered == Spec => []RegisteredIsAdmitted
BY RegistrationInvariance, PTL DEF RegistrationInv
-----------------------------------------------------------------------------
\* How a request comes to the labels that the room invariant speaks of.
Arrived(k) ==
    /\ pc'[k] = "admission" =>
          /\ Precondition(permit[k]) /\ permit'[k] = permit[k]
          /\ RegistryUnchanged /\ AdmissionUnchanged /\ UNCHANGED claimVars
    /\ pc'[k] = "commit" =>
          existing'[k] = record /\ RegistryUnchanged /\ AdmissionUnchanged
    /\ pc'[k] = "refused" =>
          /\ (Preflight(k) /\ ~Precondition(permit[k])) \/ AdmissionRejected(k)
          /\ permit'[k] = permit[k]
    /\ pc'[k] = "finish" =>
          /\ pc[k] = "commit" /\ permit'[k] = permit[k]
          /\ IF kind[permit[k].operation] = "register"
             THEN permit[k] \in accepted'
             ELSE FencedMutation(permit[k], existing[k])

\* A request that a step moves came to its label as Arrived says.
LEMMA Arrivals ==
    ASSUME RegistrationInv, [Next]_vars, NEW k \in Handlers,
           \/ pc'[k] # pc[k] \/ permit'[k] # permit[k] \/ existing'[k] # existing[k]
    PROVE  Arrived(k)
<1> USE DEF RegistrationInv
<1>0. /\ pc \in [Handlers -> Labels]
      /\ permit \in [Handlers -> Permits \cup {NoPermit}]
      /\ existing \in [Handlers -> Records]
      /\ kind \in [Operations -> {"register", "deregister"}]
  BY DEF TypeOK, Labels
<1>1. ASSUME NEW h \in Handlers, Preflight(h)
      PROVE  Arrived(k)
  <2>1. h = k /\ permit'[k] = permit[k]
    BY <1>0, <1>1 DEF Preflight, Goto
  <2>2. RegistryUnchanged /\ AdmissionUnchanged /\ UNCHANGED claimVars
    BY <1>1 DEF Preflight, RegistryUnchanged, AdmissionUnchanged, fenceVars
  <2> QED BY <1>0, <1>1, <2>1, <2>2 DEF Preflight, Goto, Precondition, Arrived
<1>2. ASSUME NEW h \in Handlers, ReadStored(h)
      PROVE  Arrived(k)
  <2>1. h = k /\ pc'[k] = "commit" /\ existing'[k] = record
    BY <1>0, <1>2 DEF ReadStored, Goto
  <2>2. RegistryUnchanged /\ AdmissionUnchanged
    BY <1>2 DEF ReadStored, RegistryUnchanged, AdmissionUnchanged, fenceVars
  <2> QED BY <2>1, <2>2 DEF Arrived
<1>3. ASSUME NEW h \in Handlers, AdmissionRejected(h)
      PROVE  Arrived(k)
  <2>1. h = k /\ pc'[k] = "refused" /\ permit'[k] = permit[k]
    BY <1>0, <1>3 DEF AdmissionRejected, Goto
  <2> QED BY <1>3, <2>1 DEF Arrived
<1>4. ASSUME NEW h \in Handlers,
             CommitRegistration(h) \/ CommitUnconfirmed(h) \/ CommitDeregistration(h)
      PROVE  Arrived(k)
  <2>1. /\ h = k /\ permit'[k] = permit[k] /\ pc[k] = "commit"
        /\ pc'[k] \notin {"admission", "commit", "refused"}
    BY <1>0, <1>4 DEF CommitRegistration, CommitUnconfirmed, CommitDeregistration, Goto
  <2>2. ASSUME pc'[k] = "finish", kind[permit[k].operation] = "register"
        PROVE  permit[k] \in accepted'
    BY <1>0, <1>4, <2>1, <2>2 DEF CommitRegistration, CommitUnconfirmed, CommitDeregistration, Goto
  <2>3. ASSUME kind[permit[k].operation] # "register"
        PROVE  FencedMutation(permit[k], existing[k])
    BY <1>4, <2>1, <2>3 DEF CommitRegistration, CommitUnconfirmed, CommitDeregistration
  <2> QED BY <2>1, <2>2, <2>3 DEF Arrived
<1>5. ASSUME NEW h \in Handlers,
             Finish(h) \/ FinishUnconfirmed(h) \/ Preserve(h) \/ Abandon(h)
      PROVE  Arrived(k)
  <2>1. h = k
    BY <1>0, <1>5 DEF Finish, FinishUnconfirmed, Preserve, Abandon, End, Goto
  <2>2. pc'[k] \in {"idle", "reservation-completion-unconfirmed"}
    BY <1>0, <1>5, <2>1 DEF Finish, FinishUnconfirmed, Preserve, Abandon, End, Goto
  <2> QED BY <2>2 DEF Arrived
<1>6. ASSUME NEW h \in Handlers,
             (\E r \in Requests : Start(h, r)) \/ Reserve(h) \/ Admit(h)
      PROVE  Arrived(k)
  <2>1. h = k
    BY <1>0, <1>6, ReserveObtains DEF Start, Reserve, Admit, Goto
  <2>2. pc'[k] \in {"reserve", "preflight", "read"}
    BY <1>0, <1>6, <2>1 DEF Start, Reserve, Admit, Goto
  <2> QED BY <2>2 DEF Arrived
<1>7. ASSUME ClaimLifecycle \/ UNCHANGED vars
      PROVE  FALSE
  BY <1>7 DEF ClaimLifecycle, vars, requestVars
<1> QED BY <1>1, <1>2, <1>3, <1>4, <1>5, <1>6, <1>7 DEF Next, Handle

\* A request completes the reservation it holds, after its commit or a refusal.
Completes(h) ==
    /\ pc[h] \in {"finish", "refused"}
    /\ reservation[RegistryScope] = permit[h] /\ reservation'[RegistryScope] = NoPermit
    /\ UNCHANGED issued
    /\ RegistryUnchanged /\ AdmissionUnchanged

\* A free scope gets a permit nobody had.
Begins ==
    /\ reservation[RegistryScope] = NoPermit
    /\ reservation'[RegistryScope] \notin issued
    /\ issued' = issued \cup {reservation'[RegistryScope]}
    /\ RegistryUnchanged /\ AdmissionUnchanged

\* The reservation of the scope stays, or ends, or begins.
LEMMA ReservationStep ==
    ASSUME RegistrationInv, [Next]_vars
    PROVE  \/ reservation'[RegistryScope] = reservation[RegistryScope] /\ UNCHANGED issued
           \/ Begins
           \/ \E h \in Handlers : Completes(h)
<1> USE DEF RegistrationInv
<1>0. /\ reservation \in [Scopes -> Permits \cup {NoPermit}]
      /\ sequence \in [Scopes -> 0 .. MaxSequence] /\ issued \subseteq Permits
  BY DEF TypeOK, AuthoringTypeOK, ClaimTypeOK
<1>1. ASSUME NEW h \in Handlers, Reserve(h), ~UNCHANGED claimVars
      PROVE  Begins
  <2> DEFINE c == request[h].claim
             op == request[h].operation
             p == [claim |-> c, operation |-> op, sequence |-> sequence[RegistryScope] + 1]
  <2>1. BeginMutation(c, op) /\ semanticScope[c] = RegistryScope
    BY <1>1, ReserveObtains DEF Reserve, RequestsInMemory
  <2>2. /\ reservation[RegistryScope] = NoPermit
        /\ reservation'[RegistryScope] = p /\ issued' = issued \cup {p}
    BY <1>0, <2>1 DEF BeginMutation, HasReservation
  <2>3. p.claim = c /\ p.sequence = sequence[RegistryScope] + 1 /\ ScopeOf(p) = RegistryScope
    BY <2>1 DEF ScopeOf
  <2> HIDE DEF p
  <2>4. p \notin issued
    <3>1. ASSUME p \in issued PROVE p.sequence <= sequence[RegistryScope]
      BY <2>3, <3>1 DEF AuthoringInv, IssuedBelow
    <3>2. sequence[RegistryScope] \in Nat
      BY <1>0
    <3> QED BY <2>3, <3>1, <3>2
  <2>5. RegistryUnchanged /\ AdmissionUnchanged
    BY <1>1 DEF Reserve, RegistryUnchanged, AdmissionUnchanged, fenceVars
  <2> QED BY <2>2, <2>4, <2>5 DEF Begins
<1>2. ASSUME NEW h \in Handlers, Finish(h) \/ FinishUnconfirmed(h), ~UNCHANGED claimVars
      PROVE  Completes(h)
  <2>1. CompleteMutation(permit[h]) /\ pc[h] \in {"finish", "refused"}
    BY <1>2 DEF Finish, FinishUnconfirmed
  <2>2. ScopeOf(permit[h]) = RegistryScope
    BY <2>1 DEF RequestsInMemory
  <2>3. /\ reservation[RegistryScope] = permit[h] /\ reservation'[RegistryScope] = NoPermit
        /\ UNCHANGED issued
    BY <1>0, <2>1, <2>2 DEF CompleteMutation
  <2>4. RegistryUnchanged /\ AdmissionUnchanged
    BY <1>2 DEF Finish, FinishUnconfirmed, RegistryUnchanged, AdmissionUnchanged, fenceVars
  <2> QED BY <2>1, <2>3, <2>4 DEF Completes
<1>3. ASSUME NEW h \in Handlers, Preserve(h)
      PROVE  UNCHANGED <<reservation, issued>>
  BY <1>3 DEF Preserve, PreserveMutationReconciliation, claimVars
<1>4. ASSUME NEW h \in Handlers,
             \/ \E r \in Requests : Start(h, r)
             \/ Preflight(h) \/ Admit(h) \/ AdmissionRejected(h) \/ ReadStored(h)
             \/ CommitRegistration(h) \/ CommitUnconfirmed(h) \/ CommitDeregistration(h)
             \/ Abandon(h)
      PROVE  UNCHANGED <<reservation, issued>>
  BY <1>4 DEF Start, Preflight, Admit, AdmissionRejected, ReadStored, CommitRegistration,
     CommitUnconfirmed, CommitDeregistration, Abandon, claimVars
<1>5. ASSUME ClaimLifecycle \/ UNCHANGED vars
      PROVE  UNCHANGED <<reservation, issued>>
  BY <1>5 DEF ClaimLifecycle, Acquire, Release, Tick, vars
<1> QED BY <1>1, <1>2, <1>3, <1>4, <1>5 DEF Next, Handle, claimVars

\* Only a permit that was open can be open.
LEMMA OpenFalls ==
    ASSUME RegistrationInv, [Next]_vars, NEW p \in issued, Open(p)'
    PROVE  Open(p)
<1>1. outcome["registry"] \subseteq outcome'["registry"]
  BY StoreStep DEF RegistryUnchanged, RegistryWrite, AdmissionWrite
<1>2. p # NoPermit
  BY DEF RegistrationInv, TypeOK, AuthoringTypeOK, ClaimTypeOK
<1> QED BY <1>1, <1>2, ReservationStep DEF Open, Begins, Completes

\* A permit that one of the two journals refuses, it refuses from then on.
LEMMA RefusedForGood ==
    ASSUME RegistrationInv, [Next]_vars, NEW j \in {"acos", "registry"}, NEW p \in issued,
           ~Executable(j, p)
    PROVE  ~Executable(j, p)'
BY AuthoringStep, ExecutableFalls DEF RegistrationInv

\* The registry is written by the permit in reservation, and by no other.
LEMMA WriterIsReserved ==
    ASSUME RegistrationInv, RoomInv, NEW h \in Handlers, RegistryWrite(h)
    PROVE  Open(permit[h]) /\ permit[h] \in issued /\ ScopeOf(permit[h]) = RegistryScope
<1>1. permit[h] \in issued /\ ScopeOf(permit[h]) = RegistryScope
  BY DEF RegistryWrite, RegistrationInv, RequestsInMemory
<1>2. permit[h].operation \in Operations
  BY <1>1, PermitFields DEF RegistrationInv, TypeOK, AuthoringTypeOK, ClaimTypeOK
<1>3. Executable("registry", permit[h]) /\ permit[h] \notin outcome["registry"]
  BY DEF RegistryWrite, Executable
<1>4. kind[permit[h].operation] = "register" => permit[h] \in admitted
  BY DEF RegistryWrite, RegistrationInv, PastAdmission
<1>5. reservation[RegistryScope] = permit[h]
  BY <1>1, <1>2, <1>3, <1>4 DEF RoomInv, ClosedIsInert
<1> QED BY <1>1, <1>3, <1>5 DEF Open

\* After a write of the registry no permit is open.
LEMMA WriteCloses ==
    ASSUME RegistrationInv, RoomInv, NEW h \in Handlers, RegistryWrite(h), NEW p
    PROVE  ~Open(p)'
BY WriterIsReserved DEF RegistryWrite, Open, claimVars

\* With room, the admission state keeps every outcome behind its fence.
LEMMA AdmittedStep ==
    ASSUME RegistrationInv, RoomInv, HasRoom, [Next]_vars
    PROVE  AdmittedIsKept'
<1> USE DEF RoomInv, AdmittedIsKept
<1>1. CASE AdmissionUnchanged
  BY <1>1 DEF AdmissionUnchanged
<1>2. ASSUME NEW h \in Handlers, AdmissionWrite(h)
      PROVE  AdmittedIsKept'
  <2>1. permit[h] \notin outcome["acos"] /\ ~Full
    BY <1>2 DEF AdmissionWrite, Executable, HasRoom
  <2>2. /\ admitted' = outcome'["acos"] /\ admitted' = admitted \cup {permit[h]}
        /\ fence'["acos"] = permit[h]
    BY <1>2, <2>1 DEF AdmissionWrite
  <2>3. permit[h] \in issued /\ permit[h] \in Permits /\ admitted \subseteq Permits
    BY <1>2 DEF AdmissionWrite, RegistrationInv, RequestsInMemory, TypeOK, AuthoringTypeOK,
       ClaimTypeOK
  <2>4. \A p \in admitted : p.sequence <= permit[h].sequence
    <3> TAKE p \in admitted
    <3>1. fence["acos"] # NoPermit /\ p.sequence <= fence["acos"].sequence
      OBVIOUS
    <3>2. fence["acos"].sequence < permit[h].sequence
      BY <1>2, <2>3, <3>1, ExecutableIsLater DEF AdmissionWrite, RegistrationInv
    <3>3. fence["acos"] \in Permits
      BY <3>1 DEF RegistrationInv, TypeOK, AuthoringTypeOK, FenceTypeOK
    <3>4. p.sequence \in Nat /\ fence["acos"].sequence \in Nat /\ permit[h].sequence \in Nat
      BY <2>3, <3>3, PermitFields
    <3> QED BY <3>1, <3>2, <3>4
  <2>5. permit[h] # NoPermit /\ permit[h].sequence <= permit[h].sequence
    BY <2>3, PermitFields
  <2> QED BY <2>2, <2>4, <2>5
<1> QED BY <1>1, <1>2, StoreStep DEF RegistryWrite, AdmissionUnchanged

\* Under an open permit the record does not change.
LEMMA OneRecordStep ==
    ASSUME RegistrationInv, RoomInv, [Next]_vars
    PROVE  OpenSeesOneRecord'
<1> USE DEF RoomInv, OpenSeesOneRecord
<1>1. CASE \E h \in Handlers : RegistryWrite(h)
  BY <1>1, WriteCloses
<1>2. CASE ~\E h \in Handlers : RegistryWrite(h)
  <2>1. UNCHANGED record
    BY <1>2, StoreStep DEF RegistryUnchanged, AdmissionWrite
  <2>2. ASSUME NEW k \in Handlers, pc'[k] = "admission", Open(permit[k])'
        PROVE  Precondition(permit[k])'
    <3>1. permit'[k] = permit[k] /\ pc[k] \notin {"idle", "reserve"}
             /\ (pc[k] = "admission" \/ Precondition(permit[k]))
      <4>1. CASE pc'[k] = pc[k] /\ permit'[k] = permit[k]
        BY <2>2, <4>1
      <4>2. CASE pc'[k] # pc[k] \/ permit'[k] # permit[k]
        <5>1. Arrived(k)
          BY <4>2, Arrivals
        <5>2. Precondition(permit[k]) /\ permit'[k] = permit[k] /\ UNCHANGED claimVars
          BY <2>2, <5>1 DEF Arrived
        <5>3. permit'[k] # NoPermit
          BY <2>2, RegistrationNextInv DEF RegistrationInv, RequestsInMemory, TypeOK,
             AuthoringTypeOK, ClaimTypeOK
        <5> QED BY <5>2, <5>3 DEF RegistrationInv, RequestsInMemory
      <4> QED BY <4>1, <4>2
    <3>2. permit[k] \in issued
      BY <3>1 DEF RegistrationInv, RequestsInMemory
    <3>3. Open(permit[k])
      BY <2>2, <3>1, <3>2, OpenFalls DEF Open
    <3> QED BY <2>1, <3>1, <3>3 DEF Precondition, RegistrationPrecondition, SameRegistration
  <2>3. ASSUME NEW k \in Handlers, pc'[k] = "commit", Open(permit[k])'
        PROVE  existing'[k] = record'
    <3>1. CASE pc'[k] = pc[k] /\ permit'[k] = permit[k] /\ existing'[k] = existing[k]
      <4>1. permit[k] \in issued
        BY <2>3, <3>1 DEF RegistrationInv, RequestsInMemory
      <4>2. Open(permit[k])
        BY <2>3, <3>1, <4>1, OpenFalls DEF Open
      <4> QED BY <2>1, <2>3, <3>1, <4>2
    <3>2. CASE pc'[k] # pc[k] \/ permit'[k] # permit[k] \/ existing'[k] # existing[k]
      BY <2>1, <2>3, <3>2, Arrivals DEF Arrived
    <3> QED BY <3>1, <3>2
  <2>4. ASSUME NEW p \in admitted', Open(p)'
        PROVE  Precondition(p)'
    <3>1. CASE p \in admitted
      <4>1. Open(p)
        BY <2>4, <3>1, OpenFalls DEF RegistrationInv, JournalsIssued
      <4> QED BY <2>1, <3>1, <4>1 DEF Precondition, RegistrationPrecondition, SameRegistration
    <3>2. CASE p \notin admitted
      <4>1. PICK h \in Handlers : AdmissionWrite(h)
        BY <1>2, <2>4, <3>2, StoreStep DEF AdmissionUnchanged
      <4>2. p = permit[h] /\ pc[h] = "admission"
        BY <2>4, <3>2, <4>1 DEF AdmissionWrite
      <4>3. p \in issued
        BY <4>2 DEF RegistrationInv, RequestsInMemory
      <4>4. Open(p)
        BY <2>4, <4>3, OpenFalls
      <4> QED BY <2>1, <4>2, <4>4 DEF Precondition, RegistrationPrecondition, SameRegistration
    <3> QED BY <3>1, <3>2
  <2> QED BY <2>2, <2>3, <2>4
<1> QED BY <1>1, <1>2

\* A permit that is shut out stays shut out: the record a later registration
\* writes may satisfy it again, but then that registration's admission has
\* moved the fence past it.
LEMMA ShutOutStays ==
    ASSUME RegistrationInv, RoomInv, [Next]_vars, NEW p \in issued, ShutOut(p),
           ScopeOf(p) = RegistryScope, p \notin admitted
    PROVE  ShutOut(p)'
<1>0. p \in Permits /\ p # NoPermit /\ p.operation \in Operations
  BY PermitFields DEF RegistrationInv, TypeOK, AuthoringTypeOK, ClaimTypeOK
<1>1. CASE ~Executable("acos", p)
  BY <1>1, RefusedForGood DEF ShutOut
<1>2. ASSUME Executable("acos", p), UNCHANGED record
      PROVE  ShutOut(p)'
  <2>1. ~Precondition(p) /\ \A h \in Handlers : permit[h] = p => pc[h] # "admission"
    BY <1>2 DEF ShutOut
  <2>2. ~Precondition(p)'
    BY <1>2, <2>1 DEF Precondition, RegistrationPrecondition, SameRegistration
  <2>3. ASSUME NEW k \in Handlers, permit'[k] = p, pc'[k] = "admission"
        PROVE  FALSE
    <3>1. CASE pc'[k] = pc[k] /\ permit'[k] = permit[k]
      BY <2>1, <2>3, <3>1
    <3>2. CASE pc'[k] # pc[k] \/ permit'[k] # permit[k]
      BY <2>1, <2>3, <3>2, Arrivals DEF Arrived
    <3> QED BY <3>1, <3>2
  <2> QED BY <2>2, <2>3 DEF ShutOut
<1>3. ASSUME Executable("acos", p), record' # record
      PROVE  ShutOut(p)'
  <2>1. PICK h \in Handlers : RegistryWrite(h)
    BY <1>3, StoreStep DEF RegistryUnchanged, AdmissionWrite
  <2> DEFINE q == permit[h]
  <2>2. Open(q) /\ q \in issued /\ ScopeOf(q) = RegistryScope
    BY <2>1, WriterIsReserved
  <2>3. q \in Permits /\ q.operation \in Operations
    BY <2>2, PermitFields DEF RegistrationInv, TypeOK, AuthoringTypeOK, ClaimTypeOK
  <2>4. CASE kind[q.operation] = "register"
    <3>1. q \in admitted /\ q # p
      BY <2>1, <2>4 DEF RegistryWrite, RegistrationInv, PastAdmission
    <3>2. fence["acos"] # NoPermit /\ q.sequence <= fence["acos"].sequence
      BY <3>1 DEF RoomInv, AdmittedIsKept
    <3>3. p.sequence < q.sequence
      BY <2>2, <2>3, <3>1, ReservedIsLast DEF Open, RegistrationInv, HasReservation
    <3>4. fence["acos"].sequence < p.sequence
      BY <1>3, <3>2, ExecutableIsLater DEF RegistrationInv
    <3>5. fence["acos"] \in Permits
      BY <3>2 DEF RegistrationInv, TypeOK, AuthoringTypeOK, FenceTypeOK
    <3>6. p.sequence \in Nat /\ q.sequence \in Nat /\ fence["acos"].sequence \in Nat
      BY <1>0, <2>3, <3>5, PermitFields
    <3> HIDE DEF q
    <3> QED BY <3>2, <3>3, <3>4, <3>6
  <2>5. CASE kind[q.operation] = "deregister"
    <3>1. record' = [record EXCEPT !.active = @ /\ ~existing[h].active]
      BY <1>3, <2>1, <2>5 DEF RegistryWrite, Mutation
    <3>2. ~Precondition(p) /\ \A k \in Handlers : permit[k] = p => pc[k] # "admission"
      BY <1>3 DEF ShutOut
    <3>3. /\ record'.hash = record.hash /\ record'.inputs = record.inputs
          /\ record'.active => record.active
      BY <3>1 DEF RegistrationInv, TypeOK, Records
    <3>4. ~Precondition(p)'
      BY <3>2, <3>3 DEF Precondition, RegistrationPrecondition, SameRegistration
    <3>5. \A k \in Handlers : permit'[k] = p => pc'[k] # "admission"
      BY <2>1, <3>2 DEF RegistryWrite, Goto, RegistrationInv, TypeOK
    <3> QED BY <3>4, <3>5 DEF ShutOut
  <2> QED BY <2>3, <2>4, <2>5
<1> QED BY <1>1, <1>2, <1>3

\* An admission takes no permit that is shut out.
LEMMA ShutOutIsNotAdmitted ==
    ASSUME RegistrationInv, [Next]_vars, NEW p \in issued, ShutOut(p), p \notin admitted
    PROVE  p \notin admitted'
<1>1. ASSUME NEW h \in Handlers, AdmissionWrite(h)
      PROVE  p \notin admitted'
  BY <1>1 DEF AdmissionWrite, ShutOut
<1> QED BY <1>1, StoreStep DEF AdmissionUnchanged, RegistryWrite

\* A refusal is for good.
LEMMA RefusedStep ==
    ASSUME RegistrationInv, RoomInv, HasRoom, [Next]_vars
    PROVE  RefusedIsShutOut'
<1> SUFFICES ASSUME NEW k \in Handlers, pc'[k] = "refused", Open(permit[k])'
             PROVE  permit'[k] \notin admitted' /\ ShutOut(permit[k])'
  BY DEF RefusedIsShutOut
<1>1. /\ permit'[k] = permit[k] /\ pc[k] \notin {"idle", "reserve"}
      /\ permit[k] \notin admitted /\ ShutOut(permit[k])
      /\ permit[k] \in issued /\ ScopeOf(permit[k]) = RegistryScope
  <2>1. CASE pc'[k] = pc[k] /\ permit'[k] = permit[k]
    <3>1. permit[k] \in issued /\ ScopeOf(permit[k]) = RegistryScope
      BY <2>1 DEF RegistrationInv, RequestsInMemory
    <3>2. Open(permit[k])
      BY <2>1, <3>1, OpenFalls DEF Open
    <3> QED BY <2>1, <3>1, <3>2 DEF RoomInv, RefusedIsShutOut
  <2>2. CASE pc'[k] # pc[k] \/ permit'[k] # permit[k]
    <3>1. /\ (Preflight(k) /\ ~Precondition(permit[k])) \/ AdmissionRejected(k)
          /\ permit'[k] = permit[k]
      BY <2>2, Arrivals DEF Arrived
    <3>2. pc[k] \in {"preflight", "admission"}
      BY <3>1 DEF Preflight, AdmissionRejected
    <3>3. permit[k] \in issued /\ ScopeOf(permit[k]) = RegistryScope
      BY <3>2 DEF RegistrationInv, RequestsInMemory
    <3>4. Open(permit[k])
      BY <3>1, <3>3, OpenFalls DEF Open
    <3>5. CASE ~Precondition(permit[k])
      <4>1. permit[k] \notin admitted
        BY <3>4, <3>5 DEF RoomInv, OpenSeesOneRecord
      <4>2. \A h \in Handlers : permit[h] = permit[k] => pc[h] # "admission"
        BY <3>4, <3>5 DEF RoomInv, OpenSeesOneRecord
      <4> QED BY <3>1, <3>2, <3>3, <3>5, <4>1, <4>2 DEF ShutOut
    <3>6. CASE AdmissionRejected(k)
      <4>1. permit[k] \notin outcome["acos"] /\ ~Executable("acos", permit[k])
        BY <3>6 DEF AdmissionRejected, OutcomeCapacity, HasRoom
      <4> QED BY <3>1, <3>2, <3>3, <4>1 DEF ShutOut, RoomInv, AdmittedIsKept
    <3> QED BY <3>1, <3>5, <3>6
  <2> QED BY <2>1, <2>2
<1>2. ShutOut(permit[k])'
  <2> DEFINE p == permit[k]
  <2>1. ASSUME NEW r \in issued, r = permit[k] PROVE ShutOut(r)' /\ r \notin admitted'
    BY <1>1, <2>1, ShutOutStays, ShutOutIsNotAdmitted
  <2> QED BY <1>1, <2>1 DEF ShutOut, Precondition, Executable
<1>3. permit[k] \notin admitted'
  BY <1>1, ShutOutIsNotAdmitted
<1> QED BY <1>1, <1>2, <1>3

\* What is finished was executed, or cannot be.
LEMMA FinishedStep ==
    ASSUME RegistrationInv, RoomInv, [Next]_vars
    PROVE  FinishedIsExecuted'
<1> SUFFICES ASSUME NEW k \in Handlers, pc'[k] = "finish"
             PROVE  IF kind[permit'[k].operation] = "register"
                    THEN permit'[k] \in accepted' ELSE ~Executable("registry", permit[k])'
  BY DEF FinishedIsExecuted
<1>0. accepted \subseteq accepted'
  BY StoreStep DEF RegistryUnchanged, AdmissionWrite, RegistryWrite, Mutation
<1>1. CASE pc'[k] = pc[k] /\ permit'[k] = permit[k]
  <2>1. permit[k] \in issued
    BY <1>1 DEF RegistrationInv, RequestsInMemory
  <2>2. ASSUME kind[permit[k].operation] # "register"
        PROVE  ~Executable("registry", permit[k])'
    <3>1. ASSUME NEW r \in issued, r = permit[k] PROVE ~Executable("registry", r)'
      BY <1>1, <2>2, <3>1, RefusedForGood DEF RoomInv, FinishedIsExecuted
    <3> QED BY <1>1, <2>1, <3>1 DEF Executable
  <2> QED BY <1>0, <1>1, <2>2 DEF RoomInv, FinishedIsExecuted
<1>2. CASE pc'[k] # pc[k] \/ permit'[k] # permit[k]
  <2>1. /\ pc[k] = "commit" /\ permit'[k] = permit[k]
        /\ IF kind[permit[k].operation] = "register"
           THEN permit[k] \in accepted'
           ELSE FencedMutation(permit[k], existing[k])
    BY <1>2, Arrivals DEF Arrived
  <2>2. permit[k] \in issued
    BY <2>1 DEF RegistrationInv, RequestsInMemory
  <2>3. ASSUME NEW r \in issued, r = permit[k], FencedMutation(r, existing[k])
        PROVE  ~Executable("registry", r)'
    <3>1. CASE ~Executable("registry", r)
      BY <3>1, RefusedForGood
    <3>2. CASE Execute("registry", r, {})
      BY <3>2 DEF Execute, Executable, RegistrationInv, TypeOK, AuthoringTypeOK, FenceTypeOK
    <3> QED BY <2>3, <3>1, <3>2 DEF FencedMutation
  <2> QED BY <2>1, <2>2, <2>3 DEF Executable
<1> QED BY <1>1, <1>2

\* A permit whose reservation ends is inert from then on.
LEMMA ClosedStep ==
    ASSUME RegistrationInv, RoomInv, [Next]_vars
    PROVE  ClosedIsInert'
<1> SUFFICES ASSUME NEW p \in issued', ScopeOf(p) = RegistryScope,
                    reservation'[RegistryScope] # p
             PROVE  /\ p \in admitted' => p \in outcome'["registry"]
                    /\ kind[p.operation] = "register" /\ p \notin admitted' => ShutOut(p)'
                    /\ kind[p.operation] = "deregister" => ~Executable("registry", p)'
  BY DEF ClosedIsInert, ScopeOf
<1>0. /\ p \in issued
      /\ outcome["registry"] \subseteq outcome'["registry"]
      /\ admitted \subseteq admitted'
  <2>1. p \in issued
    BY ReservationStep DEF Begins, Completes
  <2> QED BY <2>1, StoreStep DEF RegistryUnchanged, AdmissionUnchanged, RegistryWrite,
          AdmissionWrite
<1>1. ASSUME /\ p \in admitted => p \in outcome["registry"]
             /\ kind[p.operation] = "register" /\ p \notin admitted => ShutOut(p)
             /\ kind[p.operation] = "deregister" => ~Executable("registry", p)
      PROVE  /\ p \in admitted' => p \in outcome'["registry"]
             /\ kind[p.operation] = "register" /\ p \notin admitted' => ShutOut(p)'
             /\ kind[p.operation] = "deregister" => ~Executable("registry", p)'
  <2>1. kind[p.operation] = "register" /\ p \notin admitted => ShutOut(p)' /\ p \notin admitted'
    BY <1>0, <1>1, ShutOutStays, ShutOutIsNotAdmitted
  <2>2. kind[p.operation] = "deregister" => ~Executable("registry", p)'
    BY <1>0, <1>1, RefusedForGood
  <2>3. p \in admitted' => kind[p.operation] = "register"
    BY RegistrationNextInv DEF RegistrationInv, JournalsIssued
  <2> QED BY <1>0, <1>1, <2>1, <2>2, <2>3
<1>2. CASE reservation[RegistryScope] # p
  BY <1>0, <1>1, <1>2 DEF RoomInv, ClosedIsInert
<1>3. CASE reservation[RegistryScope] = p
  <2>1. PICK h \in Handlers : Completes(h)
    BY <1>3, ReservationStep, <1>0 DEF Begins, RegistrationInv, TypeOK, AuthoringTypeOK,
       ClaimTypeOK
  <2>2. permit[h] = p /\ pc[h] \in {"finish", "refused"}
    BY <1>3, <2>1 DEF Completes
  <2>3. p \in outcome["registry"] /\ kind[p.operation] = "register" => p \in admitted
    BY DEF RegistrationInv, RegisteredIsAdmitted
  <2>4. CASE pc[h] = "finish"
    <3>1. kind[p.operation] = "register" => p \in outcome["registry"]
      BY <2>2, <2>4 DEF RoomInv, FinishedIsExecuted, RegistrationInv, TypeOK
    <3>2. p.operation \in Operations
      BY <1>0, PermitFields DEF RegistrationInv, TypeOK, AuthoringTypeOK, ClaimTypeOK
    <3>3. kind[p.operation] = "deregister" => ~Executable("registry", p)
      BY <2>2, <2>4 DEF RoomInv, FinishedIsExecuted
    <3>4. p \in admitted => kind[p.operation] = "register"
      BY DEF RegistrationInv, JournalsIssued
    <3> QED BY <1>1, <2>3, <3>1, <3>3, <3>4
  <2>5. CASE pc[h] = "refused"
    <3>1. kind[p.operation] = "register"
      BY <2>2, <2>5 DEF RegistrationInv, RequestsInMemory
    <3>2. p \notin outcome["registry"] => p \notin admitted /\ ShutOut(p)
      BY <1>3, <2>2, <2>5 DEF RoomInv, RefusedIsShutOut, Open
    <3> QED BY <1>1, <2>3, <3>1, <3>2
  <2> QED BY <2>2, <2>4, <2>5
<1> QED BY <1>2, <1>3

\* The room invariant is inductive while the admission journal has room.
LEMMA RoomNextInv ==
    ASSUME RegistrationInv, RoomInv, HasRoom, [Next]_vars
    PROVE  RoomInv'
BY AdmittedStep, OneRecordStep, RefusedStep, FinishedStep, ClosedStep DEF RoomInv

\* No permit was issued yet.
LEMMA InitRoomInv == Init => RoomInv
BY DEF Init, AuthoringInit, ClaimInit, FenceInit, RoomInv, AdmittedIsKept, OpenSeesOneRecord,
   RefusedIsShutOut, FinishedIsExecuted, ClosedIsInert

\* The room invariant holds as long as the journal has room.
LEMMA RoomInvariance == Spec /\ []HasRoom => []RoomInv
BY InitRoomInv, RoomNextInv, RegistrationInvariance, PTL DEF Spec

\* Outcomes left unconfirmed are held: while the admission journal has room, an
\* admission that the registry does not have keeps its reservation.
THEOREM UnconfirmedStaysHeld == Spec /\ []HasRoom => []UnconfirmedIsHeld
<1>1. RegistrationInv /\ RoomInv => UnconfirmedIsHeld
  BY DEF RegistrationInv, JournalsIssued, RoomInv, ClosedIsInert, UnconfirmedIsHeld
<1> QED BY <1>1, RegistrationInvariance, RoomInvariance, PTL

\* Reading the record before the await is safe: while the journal has room, a
\* write of the registry replaces the record its request named.
THEOREM WritesReplaceTheNamed == Spec /\ []HasRoom => ReplacesWhatItNamed
<1> DEFINE A == record' # record => record.hash = expectedHash[fence'["registry"].operation]
<1>1. ASSUME RegistrationInv, RoomInv, [Next]_vars
      PROVE  A
  <2> SUFFICES ASSUME record' # record
               PROVE  record.hash = expectedHash[fence'["registry"].operation]
    OBVIOUS
  <2>1. PICK h \in Handlers : RegistryWrite(h)
    BY <1>1, StoreStep DEF RegistryUnchanged, AdmissionWrite
  <2>2. existing[h] = record
    BY <1>1, <2>1, WriterIsReserved DEF RoomInv, OpenSeesOneRecord, RegistryWrite
  <2>3. fence'["registry"] = permit[h] /\ Mutation(permit[h], record)
    BY <2>1, <2>2 DEF RegistryWrite
  <2> QED BY <2>3 DEF Mutation
<1>2. ASSUME RegistrationInv, RoomInv, [Next]_vars
      PROVE  [A]_vars
  BY <1>1, <1>2
<1> HIDE DEF A
<1>3. Spec /\ []HasRoom => [][A]_vars
  BY <1>2, RegistrationInvariance, RoomInvariance, PTL DEF Spec
<1> QED BY <1>3 DEF ReplacesWhatItNamed, A

\* A journal as large as the number of mutations ever reserved always has room:
\* the permits of a scope have different numbers.
LEMMA RoomSuffices ==
    ASSUME MaxSequence <= MAX_COMMERCE_RETAINED_OUTCOMES, RegistrationInv
    PROVE  HasRoom
<1> SUFFICES ASSUME NEW h \in Handlers, pc[h] = "admission", permit[h] \notin outcome["acos"]
             PROVE  ~(Cardinality(outcome["acos"]) >= MAX_COMMERCE_RETAINED_OUTCOMES)
  BY DEF HasRoom, Full
<1> DEFINE S == outcome["acos"] \cup {permit[h]}
           f == [p \in S |-> p.sequence]
<1>1. S \subseteq issued /\ S \subseteq Permits /\ \A p \in S : ScopeOf(p) = RegistryScope
  BY DEF RegistrationInv, RequestsInMemory, JournalsIssued, TypeOK, AuthoringTypeOK, ClaimTypeOK
<1>2. f \in [S -> 1 .. MaxSequence]
  BY <1>1, PermitFields
<1>3. \A p, q \in S : f[p] = f[q] => p = q
  BY <1>1 DEF RegistrationInv, AuthoringInv, PermitsOrdered
<1>4. f \in Injection(S, 1 .. MaxSequence)
  BY <1>2, <1>3 DEF Injection, IsInjective
<1>5. IsFiniteSet(1 .. MaxSequence) /\ Cardinality(1 .. MaxSequence) = MaxSequence
  BY FS_Interval
<1> HIDE DEF f
<1>6. IsFiniteSet(S) /\ Cardinality(S) <= MaxSequence
  BY <1>4, <1>5, FS_Injection
<1>7. IsFiniteSet(outcome["acos"])
  BY <1>6, FS_Subset
<1>8. Cardinality(S) = Cardinality(outcome["acos"]) + 1 /\ Cardinality(outcome["acos"]) \in Nat
  BY <1>7, FS_AddElement, FS_CardinalityType
<1> HIDE DEF S
<1> QED BY <1>6, <1>8

\* With such a journal both hold without a further condition.
THEOREM AmpleJournal ==
    ASSUME MaxSequence <= MAX_COMMERCE_RETAINED_OUTCOMES
    PROVE  Spec => []UnconfirmedIsHeld /\ ReplacesWhatItNamed
<1>1. RegistrationInv => HasRoom
  BY RoomSuffices
<1> QED BY <1>1, RegistrationInvariance, UnconfirmedStaysHeld, WritesReplaceTheNamed, PTL

\* A write of the registry is never made by a permit whose reservation ended.
THEOREM OnlyTheReservedWrites ==
    Spec /\ []HasRoom =>
        [][record' # record => fence'["registry"] = reservation[RegistryScope]]_vars
<1> DEFINE A == record' # record => fence'["registry"] = reservation[RegistryScope]
<1>1. ASSUME RegistrationInv, RoomInv, [Next]_vars
      PROVE  [A]_vars
  <2>1. ASSUME record' # record PROVE \E h \in Handlers : RegistryWrite(h)
    BY <1>1, <2>1, StoreStep DEF RegistryUnchanged, AdmissionWrite
  <2> QED BY <1>1, <2>1, WriterIsReserved DEF RegistryWrite, Open
<1> HIDE DEF A
<1>2. Spec /\ []HasRoom => [][A]_vars
  BY <1>1, RegistrationInvariance, RoomInvariance, PTL DEF Spec
<1> QED BY <1>2 DEF A
=============================================================================
