# A TLA+ model of agentic-commerce-os

TLA+ modules for the stateful parts of the repository, TLC configurations that
check them on small instances, and TLAPS proofs of the properties that matter
most. `PROJECT.json` holds the machine-readable side: which definition models
which lines, which run checks what, the mutants, the hazards and the theorems.

Run TLC with `tlc -config X.cfg Module`, the proofs with `tlapm Module.tla`.
Source paths below are relative to the repository.

1 The system · 2 Modules · 3 Runs · 4 Findings · 5 Disagreements · 6 Proofs ·
7 Not modelled · 8 Plan

## 1. The system

A public edge Worker forwards to a private core Worker. The core keeps its state
in six kinds of SQLite Durable Objects; upstream services charge, discover, and
admit agents. A Durable Object runs one event at a time, but every `await` on
something other than its own storage lets another event in, and the object may
be evicted between any two of them. Between Workers and objects there are only
RPCs: a caller may end, time out, or repeat while its call is still under way.
Around the core there are browser pages whose tabs share a cookie jar and
IndexedDB, a stateless local-first Worker, sandboxes, and scripts that release,
merge and prove.

| Part | State it keeps | Hard behaviour | Module |
|---|---|---|---|
| CheckoutSession, offer watch, markup | `checkout_state` row, event log, one alarm; in memory the offer gate | retries of a charge, eviction, alarm against confirmation, failing alarm writes | `CheckoutSession` |
| RevenueLedger | one line per settlement | repeated and late appends | `RevenueLedger` |
| AuthoringClaim | leases, reservations, numbers, completions, evidence | leases that end while a mutation is unresolved, write sets across scopes | `AuthoringClaim` |
| Mutation fence (every target) | last permit, outcome journal | permits late, twice, out of order | `AuthoringFence` |
| Operator requests, AgentRegistry, admission state | records, journal with a capacity | one of several stores commits; read before an await, write after it | `AgentRegistration` |
| ThemeDeployment | active manifest, fence | a reviewed predecessor that was replaced meanwhile, writes that throw | `ThemeDeployment` |
| Category router, selection policy | none | ties, weights, pins | `CategoryRouter` |
| IntentRoute, `routeIntent` | route event, dispatch row | eviction while dispatching, fallback after a timeout, a registry that changes between two reads | `IntentRoute` |
| Provider clients, convergence evaluator | none; the provider's fence | redeployment between evidence and call, lost answers | `ProviderGate` |
| Admission provider and client | projection per isolate | delayed commits, rehydration order, answers after a timeout | `AdmissionProvider` |
| Invocation catalog, core readiness | cached catalogue per isolate | shared refreshes, publications between calls | `InvocationCatalog` |
| Edge Worker | none | rollouts between its calls | `EdgeRequest` |
| Edge confirmation | two signed cookies | stale blockers, two tabs, another shopper, reissued windows | `HumanConfirmation` |
| Edge browser client | offline queue, review queue, page state | answers that arrive after the page moved on, two tabs | `LocalStore`, `MerchantReview`, `MerchantPage`, `StorefrontActions`, `ShopperPage` |
| Sync merge | none | merges in any order and in pieces | `SyncMerge` |
| Local-first checkout | order in a cookie, Stripe's keys, recovery files | lost answers, idempotency windows, cookies of two tabs | `LocalCheckout` |
| Browser workspace, fulfilment relay | drafts in IndexedDB, listing jobs, one readiness flight | dialogs in flight over edits, several tabs and devices, callers that give up | `DraftWorkspace`, `ListingProbe` |
| SME planning workspace | rows, plan, worksheet | what is applied after an await; ranges | `SmeWorkspace` |
| Sandboxes | containers, previews, receipts | destroy that fails, callers that give up, source edited during a proof | `SandboxRun`, `SandboxPreview`, `SandboxProvision` |
| Local host | one slot, a lock | disconnects, stop, Podman commands that fail | `LocalHost` |
| Release controllers | receipts, versions, routes | calls that take effect and lose their answer, other operators, killed runs | `ProductionRelease`, `StorageTransition`, `LocalFirstRelease`, `HostRendezvous` |
| Merge agent, evidence runner | worktree, lane, verdict files | lanes taken over, commands killed, sources edited meanwhile | `MergeAgent`, `EvidenceVerdict` |

What makes the parts correct, and is hard to test:

- checkout: at most one charge, only with consent to every recorded deviation;
  a charge is eventually settled and booked at the rate in force at consent;
- authoring: one writer at a time per target; mutations are numbered, and every
  target executes them in that order, whatever the network does;
- registration and themes: no registry write without an admission of the same
  permit, none over a record the operator did not name or review, and an outcome
  that is not known stays reserved;
- routing: at most one call per role of an intent, to the agents of the one
  stored decision, the fallback only after a timeout;
- confirmation: what the core confirms, this shopper was shown, within the first
  window;
- pages: an answer is applied only to what it was asked for; nothing recorded
  offline is lost; what is selected, exported or published was reviewed;
- operations: what is recorded as served, verified, accepted or completed is so,
  and a run that is interrupted leaves a state from which the next can go on;
- everywhere: what was asked is answered or given up in the end.

`PROJECT.json` lists all components (also those not modelled, with the reason)
and the hazards, each at its line with the properties that would catch it.

## 2. Modules

One module per component, each with its own constants, variables, actions,
properties and (named `…Assumption`) the assumptions on its constants. Four
compose others: `AuthoringFence` (coordinator and journals), `AgentRegistration`
and `ThemeDeployment` (requests over both), `IntentRoute` (requests over
`CategoryRouter` and the registry). `PaymentPromise` is an abstract
specification that `CheckoutSession` implements, with the mapping at its end;
`AuthoringSpec` is the one that `AgentRegistration` and `ThemeDeployment`
implement. `ProviderGate` reduces the coordinator to what `AuthoringFence` shows
of it.

`MCAuthoringFence` and `MCAgentRegistration` give the constants of their run.
`MCCore`, `MCPages`, `MCOperations` and `MCProgress` are suites: components that
share no state are instantiated side by side, the variable `scenario` selects
the instance that runs, and the others stand still, so the reachable states are
the sum and not the product of the instances. A suite's properties are
contracts: `ThemesSafe`, for example, is the conjunction of `ThemeDeployment`'s
own `ReviewedIsReplaced`, `HeldOnlyByFault`, `SuccessWasWritten`,
`ReservedIsPrepared` and `TypeOK` in the scenarios of that module. Each part
was checked against a mutant of its own; `PROJECT.json` names one for each
contract.

A mutant is a plausible mistake in the code, written beside the definition it
would replace (`X_…` or `Definition_Mistake`); with it TLC finds the property
violated.

How state and actions correspond to the code, for the modules with theorems:

**CheckoutSession.** The columns of `checkout_state` are `state`, `appliedRate`,
`outbox`, `markup`, `failures`; the events later steps depend on are `blocking`,
`acknowledged` and `stopped`; `alarm` is the stored alarm and `alarmDue` one that
has fired. The offer gate is `pc`/`owner` with the locals of the handler that
holds it; `preparing` is the one handler outside the gate. A step is what the
object does between two awaits on something other than its own storage, because
the platform delivers no event while a storage operation is outstanding.
`Restart` clears the memory and may bring another configured rate. `confirm` is
`ConfirmExpired`, `ConfirmBlocked`, `ConfirmArm`, `ConfirmCommit`,
`SubmitSettlement`, `ConfirmResume` or `ConfirmSettled`, then `Reconcile`,
`ConsumeSettlement`, `RequireReconciliation` and the finalization steps;
`alarm()` is `AlarmFinalize`, `AlarmStops` or an observation. The provider
charges or drops a request some time after it was sent; an append that timed out
stays in `late`. The digest over blocking events is the set of them; times are
alarms that are stored or not; refused requests are stuttering steps.

**AuthoringClaim, AuthoringFence.** A claim is a constant with functions for its
fields; the row of a scope holds a claim, a released flag, a reservation and a
number. A permit is claim, operation and number; the operation stands for the
request digest, which includes the scope. The methods are atomic actions; `Tick`
is the clock. Any issued permit may be completed, preserved or presented to a
journal at any time and any number of times: nothing is assumed of callers.
`Execute` moves fence and journal in one transaction; a compacting journal may
drop outcomes whose lease has ended. One clock serves all objects.

**AgentRegistration.** Each `Handler` is a Worker request; one step is one RPC,
and `Abandon` ends the request between any two. A request that still sits at
"admission" or "commit" while a retry runs is also a call that arrives late.
`FinishUnconfirmed` and `CommitUnconfirmed` take effect or not, and the caller
cannot tell. One agent, valid inputs, a new revision for every change; the number
of a permit stands for the content hash of the record it wrote.

**ThemeDeployment.** `prepare` without authority, `reserve` at the coordinator,
`activate` at the object (fenced, with the reviewed predecessor's digest
compared in the same transaction), `finish`. Activation may throw before or
after its write, and requests end anywhere (`faults`). `history` is a ghost: the
writes in order.

**IntentRoute.** `start`, `target` (the merchant's scope), `route` and `decide`
(the stored route event wins), `list`, `dispatch` (insert the row or find it),
the selected call, the fallback after a timeout, the outcome. The registry and
the theme change between any two steps; `Restart` removes the handlers of an
object; a provider executes a call at any time after it was made, or never.

**HumanConfirmation.** `session` and `confirmation` are the cookie jar, `tab` what
each page holds; a request is handled with the cookies of the moment it is sent
and its answer sets them when it arrives, or is lost. Signatures are records that
only the edge makes; a set of blockers is how many events it has, since they only
grow until the confirmation.

**LocalStore.** `pending` is the object store, `merged` the core's history (ghost),
per tab a replay with the change it posts. **ListingProbe.** One current flight,
its waiters, and verifiers that go on after an abort.

**AdmissionProvider.** The store (registrations, fence, outcome journal) is one for
all isolates; each isolate has a projection and a queue of rehydrations, one step
per await. An attempt is one request of the core; several attempts may carry the
same permit, and one the core gave up on goes on. A permit is bound to one
request, so what is wrong with that request (`flaw`) is a function of the permit,
and a retry shares it; only sending can go wrong anew. `settled` is what the core
concluded of a permit.

**ProviderGate.** A call receives a request bound to a pin, reserves a permit,
reads and verifies the evidence, sends; the provider handles any request in the
network at any time, in any order; core and provider are redeployed, the provider
restarts.

**EdgeRequest.** A request passes `route` or the MCP handler, the readiness reads,
`authorizeCoreAction` and `coreCall`; edge and core are rolled out between any two
of these. `effects` records what the core executed, with the versions that asked,
authorised and executed.

**InvocationCatalog.** `cache` is the isolate's pinned snapshot, `hyd` the one
hydration under way (initialise, notify, the sigil calls, digest, close), which
requests share; the upstream publishes, ends sessions and fails at any time. The
catalogue fits only if no token occurs twice in it, within a payload or across
payloads, as `hydrateFresh` collects them in one set.

The head of every other module says the same of its part.

## 3. Runs

| Run | Module | Checks | Distinct states |
|---|---|---|---|
| `checkout_safety` | `CheckoutSession` | `TypeOK`, `SingleCharge`, `SettledIsCharged`, `BookedAtPinnedRate`, `CompletedIsBooked`, `HeldOfferWatched`, `ConsentAtEgress`, `StoppedIsClosed`, `ImplementsPromise`: one restart, one storage fault, a second price, three configured values of which one is no rate | 2.7 million |
| `checkout_recovery` | `CheckoutSession` | `RecoveryScheduled`, `ChargeIsSettled`, `SettledIsBooked`, `GateIsReleased`, `KeepsPromise`: one restart, no fault, with fairness | 230 000 |
| `checkout_alarm_fallback` | `CheckoutSession` | `RecoveryAlarmRemainsFallback`, violated | |
| `authoring_fence` | `MCAuthoringFence` | `AuthoringTypeOK`, `PermitsOrdered`, `WritersDisjoint`, `UnresolvedIsHeld`, `ExecutedInOrder`: two scopes, four leases that expire, overlap and share an identifier, three operations, three numbers per scope, two journals | 87 000 |
| `authoring_overlap` | `MCAuthoringFence` | `ReservedAuthorityDisjoint`, violated | |
| `agent_registration` | `MCAgentRegistration` | `TypeOK`, `RegisteredIsAdmitted`, `UnconfirmedIsHeld`, `UsesAuthoring`, `ReplacesWhatItNamed`: two requests at a time, two leases, register, replace and deregister, a journal with room | 384 000 |
| `agent_registration_full` | `MCAgentRegistration` | `UnconfirmedIsHeld` with a journal of one outcome, violated | |
| `core_services` | `MCCore` | `RoutingSafe`, `ProvidersSafe`, `ThemesSafe`, `EdgeSafe`, `ConsentSafe`, `CoreSteps` in 14 scenarios | 860 000 |
| `browser_pages` | `MCPages` | `OfflineWorkSafe`, `SellingSafe`, `BuyingSafe`, `PageSteps` in 22 scenarios | 910 000 |
| `operations` | `MCOperations` | `ReleaseSafe`, `RepositorySafe`, `SandboxSafe`, `OperationSteps` in 17 scenarios | 870 000 |
| `progress` | `MCProgress` | `ServicesAnswer`, `WorkEnds` in 14 scenarios, with fairness | 84 000 |
| `admission_catch_up` | `MCCore` | `WarmIsolateCatchesUp`, violated | |

The comment above each contract says what its parts state; the parts are defined
and commented in the component's module.

**Bounds.** The bounds make each interesting case happen once and overlap with
one other. Checkout: one restart at every point, combined with one failing write
or a redeployed rate, enters each recovery path in every state it can find. A
second price and `Unavailable` give blocker sets that grow between two
confirmations. Authoring: two scopes are what overlap needs, two leases per scope
what epochs need, three numbers let a permit be overtaken twice. Registration:
two requests are what a retry racing the original needs; a capacity of three
retained outcomes equals the number of permits, so the journal never refuses; a
capacity of one makes it refuse. Suites: two tabs, two requests, two shoppers or
two candidates; one to three faults, losses, rollouts or restarts; the comment
above each instance says which. Where a component would be too large with
everything at once it has two or three instances, one per kind of trouble: one
tab with many losses and two tabs with none; a release with its recovery and a
release among other operators; a checkout with recovery files and two tabs, and
one with recovery files and a fault. `progress` takes smaller instances than the
safety suites, since every state is examined once per liveness formula. The theorems of section 6 lift the safety
part of twelve modules to any number of all of these.

`CHECK_DEADLOCK FALSE` stands in every configuration because the systems may
stop: a checkout that is finished, a coordinator whose leases have all expired,
bounds that are used up.

**Symmetry** is used for interchangeable handlers, tabs, shoppers, nonces and
texts in runs without liveness (`agent_registration`, the three safety suites).

**Fairness.** `checkout_recovery`: weak fairness of the running handler and of
`AlarmFires`, as the platform runs an event to its end and delivers stored
alarms; strong fairness of the alarm taking the gate, a first-in first-out chain
of promises that later confirmations cannot overtake; strong fairness of
`ConsumeSettlement` and `MarkupAppend`: provider and ledger answer when asked
again and again, without which no code could settle. `progress`: weak fairness of
the steps of a handler whose awaits are all bounded by timers
(`AbortSignal.timeout`, the 60 s of the page, the kill timer of a container) or
settle by themselves (transactions, microtasks); per component in the module that
defines it (`FairSpec`, `Fairness`, `RunnerStep`, `HandlerStep`). Nobody is made
to ask, to come online, to redeploy, to answer or to fail; a provider, a verifier
or a container need not end of its own accord.

## 4. Findings

- `checkout_alarm_fallback`: the comment at `src/core/checkout-session.ts:433` says
  the already-armed recovery alarm remains the fallback. When `alarm()` itself runs
  the finalization and both alarm writes fail, no alarm is left.
- `authoring_overlap`: `docs/production-runtime.md:245` says overlapping authority
  is refused. `#mutationAdmission` looks neither at `released_at_ms` nor at the
  reservations of other scopes: two released leases that have not expired and whose
  write sets overlap can both reserve. `WritersDisjoint` is what does hold.
- `agent_registration_full`: `docs/runtime-api.md:71` says unconfirmed provider
  outcomes remain held. After `outcome_capacity` the reservation is completed; the
  same request sent later resumes the completed permit without a reservation, the
  admission state now registers it, and a request that ends there leaves an
  admission that nothing holds.
- `admission_catch_up`: `src/admission/worker-extension.js:44` says "a healthy warm
  isolate catches up". A rehydration that fails after a commit resets `rehydrated`
  but keeps `projectedRevision`; if that is the store's, `snapshot` answers no
  registrations and `commerce-admission-provider.js:208` throws on every later
  request and probe of the isolate.

## 5. Disagreements

Places where code and text, or code and its own check elsewhere, differ, met
while modelling and seen in a counterexample or a failed proof. No run stands for
them; where a property is stated, its comment refers to this section.

| Where | What |
|---|---|
| `src/core/core-actions.ts:133`, journal full | `ReplacesWhatItNamed` is violated as well, for the same reason as `UnconfirmedIsHeld`: a request that resumes without a reservation writes over a record that changed after it was read. `HasRoom` is what the theorems of section 6 need, and all they need. |
| `src/admission/agent-state.js:222`, journal full | The admission side of the same: `outcome_capacity` is answered as final although it depends on the time, and an outcome that was compacted lets a retry be answered `lease_expired`. With one retained outcome TLC finds `SettledIsTrue` violated: a permit the core closed as rejected is the agent's registration. `SettledIsTold` is proved under `[]HasRoom`. |
| `scripts/production-release/production-controller.ts:320` | `validateStaticContracts` admits a recovery only with route mode 'bootstrap' and an equal authority digest, which the receipt of a failed steady-state release cannot have; `docs/production-runtime.md:408` and every preserve receipt promise a roll-forward (`RollForwardIsPossible`). |
| `src/edge/client/shopper-state.client.js:96` | After a lost answer the page advises a retry of the same checkout; reconnecting replays the queue, which replaces the session cookie, and the retry is refused (`RetryIsPossible`). |
| `src/local-first/stripe-checkout.ts:143` | The idempotency key of `expire` has no order in it: cancelling a second order of a session is refused by Stripe, although "cancel expires the open session" (`CancelExpires`). |
| `public/local-first/checkout.js:83` | A session of 23 hours or more without an order can neither start nor be reset on the page (`OldIntentCanBeReset`). |
| `public/local-first/checkout.js:159` | The recovery file of the cookie's order is filed under the page's order: after a restore in another tab the file saved is another order's (`PaidIsRecoverable` holds in one tab). |
| `src/sandbox/preview.ts:75` | A reader that saw the expired preview deletes the one renewed since (`PreviewKept`). |
| `scripts/local-host/server.ts:84` | A probe whose cleanup is unproven is swallowed, and the host stays unlocked, against `docs/local-host-runtime.md:40` (`UncertainIsLocked`). |
| `scripts/isolated-process.ts:172` | A job that writes what is no UTF-8 locks the host although its container is proved removed; `docs/local-host-runtime.md:40` speaks of an operation "that leaves runtime state uncertain" (`OutputInvalid`, `LockedForCause`). |
| `src/edge/client/merchant-view.client.js:74` | A page that still shows a removed record deletes the same proposal staged again while it is being published (`OnePublisher` holds without such a record). |
| `src/edge/client/merchant.client.js:39` | A page suspended between its mark and its claim publishes more than the announced minute later (`CheckIsFinal` holds without such a page). |
| `src/edge/client/storefront-actions.ts:163` | `initiateCheckout` compares its input with the selection, awaits, and sends what is selected by then. |
| `src/edge/client/shopper-actions.client.js:44` | A selection that began during a search selects an offer the shown catalogue no longer has. |
| `src/edge/client/shopper-actions.client.js:17` | A caller's abort of its tool call is shown as being offline. |
| `public/local-first/sme-business-pack.js:390` | The status "plan built" is written after the table without a comparison of generations. |
| `public/local-first/sme-business-pack.js:265` | `refreshFields` resets the mode without a new generation. |
| `public/local-first/sme-business-pack.js:236` | A file chosen before the protocol of a newly selected pack arrived is read under the old pack and applied under the new one. |
| `public/local-first/sme-business-pack-core.js:286` | The missing inputs of the funding gap are empty for the path "undecided", so the next check "Choose an acquisition or build path" is never given; and a product beyond `MAX_SAFE_INTEGER` is reported as an input not supplied. |

## 6. Proofs

Every theorem holds for every value of the constants that satisfies the named
assumptions, so for any number of requests, tabs, permits, restarts, faults,
prices and rates. Each safety theorem goes `Init => Inv`, `Inv /\ [Next]_vars =>
Inv'`, `Inv => Property`. The proofs are in `…Proofs`, for `LocalStore` and
`AuthoringFence` at the module's end. `ProviderProofs` holds those of the admission
provider, the provider gate and the readiness flights, `EdgeProofs` those of the
confirmation, the edge's requests and the catalogue; the last two of each module
speak of a named instance (`Gate!`, `Probe!`, `Edge!`, `Catalog!`). The cardinality
in an instance is a symbol of its own to the prover, so each instance has a lemma
on the few counts it needs. The inductive invariants are defined in the component's
module, those of `ProviderProofs` and of these instances beside their proofs; TLC
checked the candidates on small instances before they were proved.
`Stored`, in `IntentRouteProofs`, is the one hypothesis that is not on constants:
what a registry row may hold, which the registration checks.

| Module | Assumptions | Theorems |
|---|---|---|
| `CheckoutSessionProofs` | `AmountAssumption`, `ConfigAssumption`, `OtherPricesAssumption`, `BoundsAssumption` | `TypeCorrect`, `AtMostOneCharge`, `SettledOnlyIfCharged`, `ConsentBeforeEgress`, `BookedOnlyAtPinnedRate`, `BookedMarkupIsRoundedShare`, `MarkupMonotone`, `CompletedOnlyIfBooked`, `HeldOfferStaysWatched`, `ClosedStaysClosed`, `RecoveryStaysScheduled`, `Refinement` |
| `AuthoringFence` | `ClaimFields`, `Bounds`, `NoPermitAssumption`, `JournalFields` | `AuthoringTypeCorrect`, `PermitOrder`, `DisjointWriters`, `UnresolvedStaysHeld`, `ExecutionOrder` |
| `AgentRegistrationProofs` | those, `RegistrationFields` | `RegistrationTypeCorrect`, `RegistrationUsesAuthoring`, `OnlyAdmittedRegistered`, `UnconfirmedStaysHeld`, `WritesReplaceTheNamed`, `AmpleJournal`, `OnlyTheReservedWrites` |
| `ThemeDeploymentProofs` | `ThemeAssumption` | `ThemeUsesAuthoring`, `ThemeTypeCorrect`, `ReviewedThemeReplaced`, `ReservationHasItsRequest`, `OnlyPreparedReserved`, `SuccessIsOfTheWritten`, `ThemeWrittenWhileReserved` |
| `IntentRouteProofs` | `IntentAssumption` | `RoutesToTheBest`, `PinIsFollowed`, `IntentTypeCorrect`, `AtMostOneCallPerRole`, `FallbackNeedsTimeout`, `DecidedAgentsCalled`, `MerchantScopeHolds`, `CompletionIsTrue`, `RowsKeepTheirHandler` |
| `EdgeProofs` | `TtlAssumption` | `ConfirmationTypeCorrect`, `OnlyShownConfirmed`, `EveryBlockerAcknowledged`, `ShopperStays`, `WindowStays` |
| | `Edge!VersionAssumption` | `EdgeTypeCorrect`, `ReadyFromOneRelease`, `EffectsOfOneRelease`, `RefusedDidNothing`, `CheckoutsStayVisual` |
| | `Catalog!PinAssumption` | `CatalogTypeCorrect`, `CoreCallsCovered`, `RefreshRevokesAnswers`, `FewSessionsLeft` |
| `ProviderProofs` | `AdmissionAssumption` | `AdmissionTypeCorrect`, `ProjectionIsOneRevision`, `RegisteredAgentProjected`, `OwnersOfRegistrations`, `ProjectionGoesForward`, `SettledIsTold`, `SettledIsToldByAmpleJournal` |
| | `Gate!OperationAssumption` | `GateTypeCorrect`, `VerifiedBeforeDecided`, `OnePinOneEvidence`, `DecidedBeforeCompleted`, `OrderOfPermits` |
| | `Probe!ProbeAssumption` | `ProbeTypeCorrect`, `OneVerifierAtATime`, `NobodyServed`, `ReadyOnlyFresh` |
| `LocalStore` | `QueueAssumption` | `QueueTypeCorrect`, `NoOfflineChangeLost`, `OfflineChangesInOrder` |

**CheckoutSession.** `IInv` is `TypeOK` with `GateMatchesRow`, `RowIsConsistent` and
the safety properties. That the request goes out once needs to know that a
handler about to send it finds `posts = 0` and the row `confirming`, known only
because it has held the gate since it committed: `GateMatchesRow` says so for
each continuation. `RecoveryInv` adds, as long as no write has failed, that the
alarm is there from before the confirmation is committed. `Refinement` uses
`IInv` to show that every step is a step of `PaymentPromise` or a stutter.
`BookedMarkupIsRoundedShare` adds the arithmetic: at a rate up to
`MAXIMUM_RATE_BASIS_POINTS` the product is at most a tenth of the whole, so the
rounded share never exceeds the amount and the comparison with it in
`computeMarkupMinor` is a safeguard that never cuts (`MarkupRoundsHalfUp`).

**AuthoringFence.** `AuthoringInv` adds that rows are well formed, that every
issued permit has a number up to the scope's counter and an epoch up to that of
the lease in the row, and that a fence is an issued permit of its journal's scope.
Order is carried by two facts: a new permit is above all issued ones, and a
replaced lease has a higher epoch. `DisjointWriters` rests on the two comparisons
in `acquire` and on reservations pinning the lease of their scope.

**AgentRegistration.** First `AuthoringStep`: every step of a request is one that
`AuthoringFence` allows of its callers, so `AuthoringInv` carries over
(`RegistrationUsesAuthoring`). `RegistrationInv` then holds without a condition:
a request past the admission has a permit the admission journal answered for, so
what the registry holds was admitted. The two promises about unfinished work are
false when the admission journal is full (section 4), so they are proved under
`[]HasRoom`: whenever a request stands before the admission with a permit that is
not in the journal, the journal is not full. `RoomInv` is the argument: a request
that may still write has its permit in reservation (`WriterIsReserved`); a permit
that was closed without having executed stays shut out by the fence for good
(`ShutOutStays`); permits that can execute only become fewer (`ExecutableFalls`).
`AmpleJournal` discharges the hypothesis where the limit is at least the number
of permits, by a count of the journal (`RoomSuffices`).

**ThemeDeployment.** `ThemeInv` again contains `AuthoringInv`. The key fact is
that a permit that is not in reservation is inert: it has executed or the fence is
past it, so a completed permit handed out again, or a late one, writes nothing.
Hence the theme under review can change only by the reserved permit, and the
predecessor compared inside the transaction is the one before it in `history`.

**IntentRoute.** Three facts make `IntentInv` inductive: a row in progress has one
owner, the request that inserted it (`Owns`); the stored route event never changes
once a row or a call rests on it (`Decided`); and every call is remembered by the
locals of its request, which go on only forward (`Remembered`). A retry finds the
row and never calls. The routing decision itself is proved for every stored
registry: `SelectAgent` takes the least identifier among the best scores, and both
"least" and "best" of a finite set exist by a least-counterexample argument over
natural numbers (`LeastOfNaturals`, `GreatestValue`).

**HumanConfirmation.** The edge keeps no state, so the invariant is about what its
signatures stand for: every proof in the jar or in an answer on its way to it is
`Issued`, that is, its window ends within the row's first one, its blockers are
among the row's, and with blockers it names a shopper who consented with fewer.
`SignatureStays` shows that nothing later takes this back. A tab about to send has
put what it shows among the consents (`SentWasShown`), and the core compares
blockers in the step that confirms. That challenges are unique is not needed.

**LocalStore.** `QueueInv` says that the change a replay is about to delete was
merged, and that everything before the change a replay posts was merged first.
**ListingProbe.** `ProbeInv` says that a running verifier is that of the current
flight, which keeps its place after an abort until the verifier has ended, and that
a request waits in at most one flight.

**AdmissionProvider.** What an isolate has read was the store's state once, and the
store has only moved on: `ViewInv` orders the projected revision, the snapshot of
the rehydration under way and the registrations by `Reaches` (every agent has the
same permit or a later one), which the fence makes an order. `Partial` describes
the entries half way through a rehydration, and `AttemptInv` says that who is
answered "registered" is covered by its isolate's revision. What the core concludes
of a permit (`SettledIsTold`) needs `RoomInv` too: what an attempt has read tells
what the store will say of its permit (`PathInv`), and a permit settled as rejected,
all earlier ones being settled or expired by then, can no longer be stored, by an
abandoned attempt either. With outcomes missing from a full journal that is false
(section 5), so the theorem is under `[]HasRoom`; `SettledIsToldByAmpleJournal`
discharges the hypothesis where the journal retains as many outcomes as there are
permits.

**ProviderGate.** `GateInv` gives every decision a witness: a call with its permit
and pin that has verified evidence against that pin (`DecisionInv`). What a call
knows is frozen once it has sent, so the witness stays one whatever is decided
later or in another life of the provider. A pin contains the digest of the
evidence, which the gate recomputes, so two calls under one pin saw the same
evidence. Order is by the fence, per life of the provider, as a restart loses it.

**EdgeRequest.** `EdgeInv` says of a request that it holds, with a core's answer, the
version that gave it, and once authorised a version of its own candidate (`Held`);
that it has no effect before its call and exactly one after (`Executed`); and of an
effect that it is of one candidate (`EffectFits`). No part mentions the versions
now deployed, so rollouts cannot disturb it.

**InvocationCatalog.** `CatalogInv` says that only the pinned snapshot is ever cached,
delivered or called with; that a hydration begun or going on while the upstream is
away never holds the metadata of the pin, and the cache is empty once the absence
was seen; and that sessions left behind are at most as many as faults. It rests on
the digest, which separates catalogues without repeated tokens; hence the token
check in the model.

**Only model-checked.**

- All liveness (`ChargeIsSettled`, `SettledIsBooked`, `GateIsReleased`,
  `KeepsPromise` with its fairness, `ServicesAnswer`, `WorkEnds`): fairness and
  `ENABLED` are beyond the prover.
- The contracts of the suites, as they speak of instances; of their parts, those of
  the components in the table above are proved for all constants.
- The components without theorems: the merchant, storefront, shopper and SME pages,
  drafts, local checkout, sandboxes, local host, releases, merge agent, evidence.
- What recursive definitions compute: the merge of change logs (`Confluence`), the
  calculation on ranges, the storage comparison. Induction over data is out of
  reach, so these are compared with reference definitions over bounded inputs.

## 7. Not modelled

Signatures, digests, encodings, schemas and headers (equality of what is signed or
digested stands for them); wording and layout; read-only projections (public and
merchant catalogues, revenue periods); entry points and wiring (that all scopes
share one AuthoringClaim object is an assumption of `AuthoringClaim`); the
workflow engine behind the fulfilment host; generated types; static assets;
vendored data. Rows from before rates were pinned, the outbox of a markup that
could not be computed, the platform's limit on alarm retries, clock skew between
objects, and the race between activation and deactivation of the SME pack's
browser tools are left out. `DraftWorkspace` follows one draft: with several, a listing dialog
that answers after another draft was opened makes its own draft the `selected` one
(`public/local-first/app.js:143`) under an editor that shows the other, and nothing
is stated of that. `MerchantReview` reduces the core's `deployMerchantTheme` to its
claim and version checks; `ThemeDeployment` has its steps. `PROJECT.json` gives the
reason per component.

## 8. Plan

1. Theorems for `LocalCheckout` and `MerchantReview`, the two page components whose
   properties relate several tabs.
2. `ProductionRelease`: that a receipt tells the truth for any number of operators.
3. Shared lemmas: the steps of a fenced request that `AgentRegistration` and
   `ThemeDeployment` both prove.
