-------------------------- MODULE AdmissionProvider --------------------------
(***************************************************************************)
(* The admission provider of the ACOS Worker                                *)
(* (admission/commerce-admission-provider.js) over its Durable Object        *)
(* (admission/agent-state.js), called by the core                            *)
(* (core/acos-admission.ts).  Every isolate of the Worker keeps a projection *)
(* of the stored registrations in memory and brings it up to date, one        *)
(* rehydration at a time, before and after each registration and on each      *)
(* readiness probe; requests of an isolate interleave at every await.  The   *)
(* core gives up on an answer after three seconds and may ask again while the *)
(* first request is still running.                                           *)
(*                                                                         *)
(* A permit stands for itself and for the intent it is bound to; digests,     *)
(* signatures and schemas are equality.  A record carries its permit's digest *)
(* and its time, so a snapshot's revision is the function from agents to      *)
(* permits.                                                                  *)
(***************************************************************************)
EXTENDS Naturals, Sequences, FiniteSets

CONSTANTS
  Isolates, Attempts, Permits, Agents, Entries,
  agent, definition, entry, content,  \* what the intent of a permit registers
  epoch, sequenceNo,                  \* leaseEpoch and mutationSequence of a permit
  authority,                          \* the permit an isolate's authority evidence binds
  identity, DeploymentPin,            \* deployment of an isolate; the one the core pins
  flaw,                               \* what is wrong with the request of a permit
  Defects,                            \* what may be wrong with sending it
  None,
  MAX_COMMERCE_RETAINED_OUTCOMES, MAX_COMMERCE_REGISTRATIONS,
  MaxFaults                           \* bound on failed calls of the store

(* A permit is bound to one request, so a retry has the flaws of the first.   *)
AdmissionAssumption ==
  /\ agent \in [Permits -> Agents] /\ entry \in [Permits -> Entries]
  /\ \A p \in Permits : content[p] # None
  /\ epoch \in [Permits -> Nat] /\ sequenceNo \in [Permits -> Nat]
  /\ authority \in [Isolates -> Permits]
  /\ MAX_COMMERCE_RETAINED_OUTCOMES \in Nat \ {0}
  /\ MAX_COMMERCE_REGISTRATIONS \in Nat \ {0}
  /\ None \notin Permits /\ None \notin [Agents -> Permits \cup {None}]
  /\ None \notin {"request_too_large", "unauthorized", "registration_input_invalid",
                 "mutation_request_mismatch", "authority_invalid"}

VARIABLES
  registration, owner, fence, outcomes,   \* the Durable Object
  ended,                                  \* leases up to this epoch have ended
  isolate, attempt,
  settled,                                \* what the core concluded about a permit
  registered, faults                      \* permits ever registered; failed calls

store == <<registration, owner, fence, outcomes, registered>>
vars == <<store, ended, isolate, attempt, settled, faults>>

NoAttempt == [pc |-> "idle", permit |-> None, at |-> None, heard |-> FALSE, code |-> None]

ColdIsolate == [entries |-> [e \in Entries |-> None], rehydrated |-> FALSE, revision |-> None,
                queue |-> <<>>, snapshot |-> None, left |-> {}]

Init ==
  /\ registration = [a \in Agents |-> None]
  /\ owner = [e \in Entries |-> None]
  /\ fence = None /\ outcomes = <<>> /\ registered = {}
  /\ ended = 0 /\ faults = 0
  /\ isolate = [w \in Isolates |-> ColdIsolate]
  /\ attempt = [a \in Attempts |-> NoAttempt]
  /\ settled = [p \in Permits |-> "open"]

-----------------------------------------------------------------------------
(* The Durable Object. *)

LeaseExpired(p) == epoch[p] <= ended

StalePermit(p) ==
  fence # None /\ (\/ epoch[p] < epoch[fence]
                   \/ epoch[p] = epoch[fence] /\ sequenceNo[p] <= sequenceNo[fence])

Retained == {outcomes[i] : i \in 1..Len(outcomes)}

(* planOutcomeCompaction: a full journal gives up its oldest outcome, unless  *)
(* that one's lease is alive.                                                *)
JournalFull == Len(outcomes) >= MAX_COMMERCE_RETAINED_OUTCOMES
OutcomeCapacity == JournalFull /\ ~LeaseExpired(Head(outcomes))

AgentRevisionConflict(p) ==
  LET current == registration[agent[p]]
  IN current # None /\ definition[current] # definition[p]
     /\ definition[current].revision = definition[p].revision

(* Mutant: a retired entry keeps its owner. *)
RetiredEntries_None(p) == {}

(* Mutant: an entry is retired although another agent holds it. *)
RetiredEntries_Shared(p) ==
  LET current == registration[agent[p]]
  IN {e \in Entries : current # None /\ entry[current] = e /\ e # entry[p]}

(* The entry that the agent held and nobody else does. *)
RetiredEntries(p) ==
  LET current == registration[agent[p]]
  IN {e \in Entries : /\ current # None /\ entry[current] = e /\ e # entry[p]
                      /\ \A a \in Agents \ {agent[p]} :
                           registration[a] # None => entry[registration[a]] # e}

OwnersAfter(p) ==
  [e \in Entries |-> CASE e \in RetiredEntries(p) -> None
                       [] e = entry[p] -> content[p]
                       [] OTHER -> owner[e]]

RegistrationsAfter(p) == [registration EXCEPT ![agent[p]] = p]

Used(f) == {x \in DOMAIN f : f[x] # None}

(* commerceAdmissionRegister: what the transaction decides. *)
Decision(p) ==
  IF p \in Retained THEN "registered"
  ELSE IF LeaseExpired(p) THEN "lease_expired"
  ELSE IF StalePermit(p) THEN "fence_stale"
  ELSE IF OutcomeCapacity THEN "outcome_capacity"
  ELSE IF AgentRevisionConflict(p) THEN "agent_revision_conflict"
  ELSE IF owner[entry[p]] \notin {None, content[p]} THEN "tool_allowlist_entry_conflict"
  ELSE IF Cardinality(Used(OwnersAfter(p))) > MAX_COMMERCE_REGISTRATIONS
       THEN "tool_allowlist_capacity"
  ELSE IF Cardinality(Used(RegistrationsAfter(p))) > MAX_COMMERCE_REGISTRATIONS
       THEN "agent_capacity"
  ELSE "registered"

Store(p) ==
  IF Decision(p) = "registered" /\ p \notin Retained
  THEN /\ registration' = RegistrationsAfter(p)
       /\ owner' = OwnersAfter(p)
       /\ fence' = p
       /\ outcomes' = Append(IF JournalFull THEN Tail(outcomes) ELSE outcomes, p)
       /\ registered' = registered \cup {p}
  ELSE UNCHANGED store

(* commerceAdmissionList: a caller that knows the stored revision gets none;  *)
(* an empty store has no stored revision.                                    *)
Unchanged(known) == registered # {} /\ known = registration

-----------------------------------------------------------------------------
(* An isolate. *)

(* The allowlist that the registrations of a snapshot make. *)
ProjectionOf(r) ==
  [e \in Entries |->
    LET holders == {a \in Agents : r[a] # None /\ entry[r[a]] = e}
    IN IF holders = {} THEN None ELSE content[r[CHOOSE a \in holders : TRUE]]]

Enqueue(w, a) == [isolate EXCEPT ![w].queue = Append(@, a)]
Running(w) == Head(isolate[w].queue)
Busy(w) == isolate[w].snapshot # None
Dequeued(w) == [isolate[w] EXCEPT !.queue = Tail(@), !.snapshot = None, !.left = {}]

Goto(a, pc) == attempt' = [attempt EXCEPT ![a].pc = pc]
Answer(a, code) == attempt' = [attempt EXCEPT ![a].pc = "answered", ![a].code = code]

(* The rehydration for attempt a has ended well: where the request goes on.   *)
Rehydrated(a) ==
  CASE attempt[a].pc = "before" -> Goto(a, "preflight")
    [] attempt[a].pc = "after" -> Answer(a, "registered")
    [] OTHER -> Answer(a, "ready")

(* Mutant: what was committed is answered even if it is not projected. *)
Failed_Optimistic(w, a) ==
  /\ isolate' = [isolate EXCEPT ![w] = Dequeued(w)]
  /\ Answer(a, IF attempt[a].pc = "after" THEN "registered" ELSE "projection_unavailable")

(* The rehydration for attempt a has thrown. *)
Failed(w, a) ==
  /\ isolate' = [isolate EXCEPT ![w] = [Dequeued(w) EXCEPT
                    !.rehydrated = IF attempt[a].pc = "after" THEN FALSE ELSE @]]
  /\ Answer(a, "projection_unavailable")

(* Mutant: a changed snapshot is projected over what is there. *)
Snapshot_NoReset(w) ==
  LET a == Running(w) IN
  /\ isolate[w].queue # <<>> /\ ~Busy(w)
  /\ \/ /\ Unchanged(isolate[w].revision) /\ isolate[w].rehydrated
        /\ isolate' = [isolate EXCEPT ![w] = Dequeued(w)]
        /\ Rehydrated(a)
     \/ /\ ~Unchanged(isolate[w].revision)
        /\ isolate' = [isolate EXCEPT ![w].snapshot = registration, ![w].left = Used(registration)]
        /\ UNCHANGED attempt
  /\ UNCHANGED <<store, ended, settled, faults>>

(* rehydrate: the snapshot.  An unchanged one needs a projection that is      *)
(* whole; a changed one is projected from nothing.                           *)
Snapshot(w) ==
  LET a == Running(w) IN
  /\ isolate[w].queue # <<>> /\ ~Busy(w)
  /\ \/ /\ Unchanged(isolate[w].revision) /\ isolate[w].rehydrated
        /\ isolate' = [isolate EXCEPT ![w] = Dequeued(w)]
        /\ Rehydrated(a)
     \/ /\ Unchanged(isolate[w].revision) /\ ~isolate[w].rehydrated
        /\ Failed(w, a)
     \/ /\ ~Unchanged(isolate[w].revision)
        /\ isolate' = [isolate EXCEPT ![w].rehydrated = FALSE,
                                      ![w].entries = [e \in Entries |-> None],
                                      ![w].snapshot = registration,
                                      ![w].left = Used(registration)]
        /\ UNCHANGED attempt
  /\ UNCHANGED <<store, ended, settled, faults>>

(* A call of the store fails or times out. *)
SnapshotFails(w) ==
  /\ isolate[w].queue # <<>> /\ ~Busy(w)
  /\ faults < MaxFaults /\ faults' = faults + 1
  /\ Failed(w, Running(w))
  /\ UNCHANGED <<store, ended, settled>>

(* projectIntent of one registration: registrationInterface.project adds its  *)
(* entry to the allowlist projection.                                        *)
ProjectIntent(w, a) ==
  LET p == isolate[w].snapshot[a] IN
  /\ Busy(w) /\ a \in isolate[w].left
  /\ isolate[w].entries[entry[p]] \in {None, content[p]}
  /\ isolate' = [isolate EXCEPT ![w].left = @ \ {a}, ![w].entries[entry[p]] = content[p]]
  /\ UNCHANGED <<store, ended, attempt, settled, faults>>

(* runRehydration, at its end. *)
FinishRehydration(w) ==
  /\ Busy(w) /\ isolate[w].left = {}
  /\ isolate' = [isolate EXCEPT ![w] = [Dequeued(w) EXCEPT !.rehydrated = TRUE,
                                                          !.revision = isolate[w].snapshot]]
  /\ Rehydrated(Running(w))
  /\ UNCHANGED <<store, ended, settled, faults>>

(* readBoundedBody. *)
BodyReadable(p) == flaw[p] # "oversize"

(* authenticateAcosAdmissionRequest, verifyCommerceAdmissionAuth: the two      *)
(* sides hold the same secret and sign the same request.                     *)
Authenticated(defect) == defect # "unsigned"

(* readCommerceAdmissionBody, readCommerceAdmissionIntent: the body repeats    *)
(* the inputs of the intent.                                                 *)
BodyWellFormed(p) == flaw[p] # "malformed"

(* readAuthoringMutationPermit: the permit is that of the intent. *)
PermitMatches(p) == flaw[p] # "mismatch"

(* createCommerceAdmissionAuthority.authorize: signed evidence, bound to one   *)
(* admission.                                                                *)
Authorize(w, p) == authority[w] = p

(* register, its first refusal. *)
Refusal(w, p, defect) ==
  IF ~BodyReadable(p) THEN "request_too_large"
  ELSE IF ~Authenticated(defect) THEN "unauthorized"
  ELSE IF ~BodyWellFormed(p) THEN "registration_input_invalid"
  ELSE IF ~PermitMatches(p) THEN "mutation_request_mismatch"
  ELSE IF ~Authorize(w, p) THEN "authority_invalid"
  ELSE None

(* The coordinator lets the core send a permit: its lease is alive and the    *)
(* permits before it are settled or of ended leases.                         *)
Sendable(p) ==
  /\ settled[p] = "open" /\ ~LeaseExpired(p)
  /\ \A q \in Permits :
       (epoch[q] < epoch[p] \/ (epoch[q] = epoch[p] /\ sequenceNo[q] < sequenceNo[p])) =>
         settled[q] # "open" \/ LeaseExpired(q)

(* requestAcosAdmission sends, the provider's register checks. *)
Register(a, p, w, defect) ==
  LET refusal == Refusal(w, p, defect)
      started == [pc |-> IF refusal = None THEN "before" ELSE "answered", permit |-> p, at |-> w,
                  heard |-> TRUE, code |-> refusal]
  IN
  /\ attempt[a] = NoAttempt
  /\ Sendable(p)
  /\ attempt' = [attempt EXCEPT ![a] = started]
  /\ isolate' = IF refusal = None THEN Enqueue(w, a) ELSE isolate
  /\ UNCHANGED <<store, ended, settled, faults>>

(* GET readyz, probeAcosAdmission. *)
Readyz(a, w) ==
  /\ attempt[a] = NoAttempt
  /\ attempt' = [attempt EXCEPT ![a] = [NoAttempt EXCEPT !.pc = "probe", !.at = w, !.heard = TRUE]]
  /\ isolate' = Enqueue(w, a)
  /\ UNCHANGED <<store, ended, settled, faults>>

(* registrationInterface.preflight against the projection of the moment,      *)
(* which another request of the isolate may be rebuilding.                   *)
Preflight(a) ==
  LET w == attempt[a].at
      p == attempt[a].permit
      entries == isolate[w].entries
  IN
  /\ attempt[a].pc = "preflight"
  /\ CASE entries[entry[p]] \notin {None, content[p]} -> Answer(a, "tool_allowlist_entry_conflict")
       [] entries[entry[p]] = None /\ Cardinality(Used(entries)) >= MAX_COMMERCE_REGISTRATIONS ->
            Answer(a, "tool_allowlist_capacity")
       [] OTHER -> Goto(a, "commit")
  /\ UNCHANGED <<store, ended, isolate, settled, faults>>

(* store.register, which may fail before or after it took effect. *)
Commit(a) ==
  LET p == attempt[a].permit IN
  /\ attempt[a].pc = "commit"
  /\ \/ /\ Store(p)
        /\ IF Decision(p) = "registered" THEN Goto(a, "committed") ELSE Answer(a, Decision(p))
        /\ UNCHANGED faults
     \/ /\ faults < MaxFaults /\ faults' = faults + 1
        /\ Answer(a, "durable_admission_unavailable")
        /\ (Store(p) \/ UNCHANGED store)
  /\ UNCHANGED <<ended, isolate, settled>>

(* Mutant: the answer is projected as it is. *)
Committed_ProjectsAnswer(a) ==
  LET w == attempt[a].at
      p == attempt[a].permit
      r == [isolate[w].revision EXCEPT ![agent[p]] = p]
  IN
  /\ attempt[a].pc = "committed" /\ isolate[w].rehydrated
  /\ Answer(a, "registered")
  /\ isolate' = [isolate EXCEPT ![w].revision = r, ![w].entries = ProjectionOf(r)]
  /\ UNCHANGED <<store, ended, settled, faults>>

(* The answer of the commit arrives: always rehydrate from the current view.  *)
Committed(a) ==
  /\ attempt[a].pc = "committed"
  /\ Goto(a, "after")
  /\ isolate' = Enqueue(attempt[a].at, a)
  /\ UNCHANGED <<store, ended, settled, faults>>

(* An isolate is replaced; what it was doing is gone. *)
Restart(w) ==
  /\ isolate[w] # ColdIsolate
  /\ faults < MaxFaults /\ faults' = faults + 1
  /\ isolate' = [isolate EXCEPT ![w] = ColdIsolate]
  /\ attempt' = [a \in Attempts |-> IF attempt[a].at = w THEN NoAttempt ELSE attempt[a]]
  /\ UNCHANGED <<store, ended, settled>>

-----------------------------------------------------------------------------
(* The core. *)

TerminalRejections ==
  {"agent_capacity", "agent_revision_conflict", "fence_stale", "lease_expired",
   "mutation_request_mismatch", "outcome_capacity", "registration_input_invalid",
   "tool_allowlist_capacity", "tool_allowlist_entry_conflict"}

(* AbortSignal.timeout: the core stops listening, the provider goes on. *)
Timeout(a) ==
  /\ attempt[a].heard
  /\ attempt' = [attempt EXCEPT ![a].heard = FALSE]
  /\ UNCHANGED <<store, ended, isolate, settled, faults>>

(* readAcosAdmissionServingIdentity: the deployment that answered. *)
ServingIdentityPinned(a) == identity[attempt[a].at] = DeploymentPin

(* isAcosAdmissionReceiptBoundToInputs, readGraphAuthority: the receipt is for *)
(* these inputs, this request and this permit, whenever it was made.         *)
ReceiptBound(a) == attempt[a].code = "registered"

(* readDurableTerminalRejection. *)
TerminalRejection(a) == attempt[a].code \in TerminalRejections

(* Mutant: every answered refusal settles the reservation. *)
Conclusion_AnyRefusal(a) ==
  IF attempt[a].code = "registered" THEN "registered" ELSE "rejected"

(* requestAcosAdmission: a receipt of the pinned deployment, a terminal        *)
(* rejection that echoes the permit, or nothing that settles it.             *)
Conclusion(a) ==
  CASE ReceiptBound(a) /\ ServingIdentityPinned(a) -> "registered"
    [] TerminalRejection(a) -> "rejected"
    [] OTHER -> "open"

Receive(a) ==
  LET p == attempt[a].permit IN
  /\ attempt[a].pc = "answered"
  /\ settled' = IF attempt[a].heard /\ p # None /\ settled[p] = "open"
                THEN [settled EXCEPT ![p] = Conclusion(a)] ELSE settled
  /\ attempt' = [attempt EXCEPT ![a] = NoAttempt]
  /\ UNCHANGED <<store, ended, isolate, faults>>

LeaseEnds ==
  /\ \E p \in Permits : ~LeaseExpired(p)
  /\ ended' = ended + 1
  /\ UNCHANGED <<store, isolate, attempt, settled, faults>>

Next ==
  \/ LeaseEnds
  \/ \E w \in Isolates :
       \/ Snapshot(w) \/ SnapshotFails(w) \/ FinishRehydration(w) \/ Restart(w)
       \/ \E a \in Agents : ProjectIntent(w, a)
  \/ \E a \in Attempts :
       \/ Preflight(a) \/ Commit(a) \/ Committed(a) \/ Timeout(a) \/ Receive(a)
       \/ \E w \in Isolates :
            \/ Readyz(a, w)
            \/ \E p \in Permits, defect \in Defects : Register(a, p, w, defect)

Spec == Init /\ [][Next]_vars

-----------------------------------------------------------------------------
Views == [Agents -> Permits \cup {None}]
Contents == {content[p] : p \in Permits}
Codes == TerminalRejections \cup
  {"registered", "ready", "projection_unavailable", "durable_admission_unavailable",
   "request_too_large", "unauthorized", "authority_invalid"}

IsolateRecords ==
  [entries : [Entries -> Contents \cup {None}], rehydrated : BOOLEAN,
   revision : Views \cup {None}, queue : Seq(Attempts), snapshot : Views \cup {None},
   left : SUBSET Agents]
AttemptRecords ==
  [pc : {"idle", "before", "preflight", "commit", "committed", "after", "probe", "answered"},
   permit : Permits \cup {None}, at : Isolates \cup {None}, heard : BOOLEAN,
   code : Codes \cup {None}]

TypeOK ==
  /\ registration \in Views
  /\ owner \in [Entries -> Contents \cup {None}]
  /\ fence \in Permits \cup {None}
  /\ outcomes \in Seq(Permits) /\ registered \in SUBSET Permits
  /\ ended \in Nat /\ faults \in Nat
  /\ isolate \in [Isolates -> IsolateRecords]
  /\ attempt \in [Attempts -> AttemptRecords]
  /\ settled \in [Permits -> {"open", "registered", "rejected"}]

(* A settled reservation tells the truth: the core takes a permit for         *)
(* registered only if the Durable Object registered it, and a permit whose    *)
(* rejection completed the reservation is not the registration of its agent,  *)
(* whatever attempts the core gave up on are still running                    *)
(* (reservationSafeToComplete).                                              *)
SettledIsTrue ==
  \A p \in Permits :
    /\ settled[p] = "registered" => p \in registered
    /\ settled[p] = "rejected" => \A a \in Agents : registration[a] # p

(* A projection that counts as whole is exactly the snapshot of its revision, *)
(* although requests of an isolate reset and rebuild it under each other      *)
(* (projectionTail, runRehydration).                                         *)
ProjectionIsItsRevision ==
  \A w \in Isolates : isolate[w].rehydrated =>
    isolate[w].entries = ProjectionOf(isolate[w].revision)

(* p was issued after q. *)
Newer(p, q) == epoch[p] > epoch[q] \/ (epoch[p] = epoch[q] /\ sequenceNo[p] > sequenceNo[q])

(* An isolate that answers "registered" has projected a view with the         *)
(* registration or a later one of the agent, whatever the rehydration of      *)
(* another request did meanwhile (register, its second rehydrate).           *)
RegisteredIsProjected ==
  \A a \in Attempts :
    (attempt[a].pc = "answered" /\ attempt[a].code = "registered") =>
      LET r == isolate[attempt[a].at].revision
          p == attempt[a].permit
      IN r # None /\ r[agent[p]] # None /\ ~Newer(p, r[agent[p]])

(* A step moves no warm isolate's projection back to an older permit.         *)
ProjectionKept ==
  \A w \in Isolates, a \in Agents :
    LET was == isolate[w].revision
        is == isolate'[w].revision
    IN (was # None /\ is # None /\ was[a] # None) => is[a] # None /\ ~Newer(was[a], is[a])

(* "A request whose DO commit response is delayed must never project an older *)
(* revision after a later request has already committed the replacement"      *)
(* (commerce-admission-provider.js:305): the projection of a warm isolate     *)
(* never replaces a registration by an older one.                            *)
ProjectionNeverGoesBack == [][ProjectionKept]_vars

(* The owners of the store are those of its registrations: an entry is        *)
(* retired with its last registration and never before.                      *)
OwnersMatchRegistrations ==
  \A e \in Entries :
    (owner[e] # None) <=> (\E a \in Agents : registration[a] # None /\ entry[registration[a]] = e)

(* "A healthy warm isolate catches up" (worker-extension.js:44): an isolate    *)
(* that is at rest can rehydrate once the store answers.                     *)
WarmIsolateCatchesUp ==
  \A w \in Isolates :
    isolate[w].queue = <<>> => ~(Unchanged(isolate[w].revision) /\ ~isolate[w].rehydrated)
=============================================================================
