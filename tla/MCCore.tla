------------------------------ MODULE MCCore ------------------------------
(*****************************************************************************)
(* The services of src/core, src/admission and src/edge, each in small       *)
(* instances.  The components do not share state, so they are not multiplied *)
(* with each other: `scenario' selects one instance, its component takes its *)
(* steps, and all the others stand still in an initial state.  The reachable *)
(* states are the sum of the instances.                                      *)
(*****************************************************************************)
EXTENDS Integers, FiniteSets, Sequences, TLC

CONSTANTS 
    None, Unreviewed,
    t1, t2,          \* interchangeable tabs, handlers, attempts, requests
    p1, p2, o1, o2   \* interchangeable shoppers, and offers

VARIABLES
    scenario,        \* the instance that runs
    \* router
    stored, weighting,
    \* IntentRoute
    registry, theme, changes, routeEvent, row, pc, local, answer, calls,
    executed, restarts,
    \* ProviderGate
    provider, core, deployments, fences, leaseOver, permits, reservation,
    gatePc, gateLocal, gateAnswer, network, responses, decided,
    \* ThemeDeployment
    now, claim, released, themeReservation, sequence, completion,
    reconciliation, issued, fence, outcome, registered, themeTheme, history,
    answered, themePc, request, permit, result, faults,
    \* AdmissionProvider
    registration, owner, admissionFence, outcomes, ended, isolate, attempt,
    settled, admissionRegistered, admissionFaults,
    \* EdgeRequest
    edge, edgeCore, sandbox, dep, deploys, edgeFaults, req, effects,
    \* InvocationCatalog
    adv, body, live, published, catalogFaults, session, cache, hyd,
    catalogReq, called, off,
    \* HumanConfirmation
    confirmNow, confirmSession, confirmation, tab, confirmCore, checkouts,
    confirmIssued, sessions, losses, consents

routerVars == <<stored, weighting>>
intentVars == <<registry, theme, changes, routeEvent, row, pc, local, answer,
                calls, executed, restarts>>
gateVars == <<provider, core, deployments, fences, leaseOver, permits,
              reservation, gatePc, gateLocal, gateAnswer, network, responses,
              decided>>
themeVars == <<now, claim, released, themeReservation, sequence, completion,
               reconciliation, issued, fence, outcome, registered, themeTheme,
               history, answered, themePc, request, permit, result, faults>>
admissionVars == <<registration, owner, admissionFence, outcomes, ended,
                   isolate, attempt, settled, admissionRegistered,
                   admissionFaults>>
edgeVars == <<edge, edgeCore, sandbox, dep, deploys, edgeFaults, req, effects>>
catalogVars == <<adv, body, live, published, catalogFaults, session, cache,
                 hyd, catalogReq, called, off>>
confirmVars == <<confirmNow, confirmSession, confirmation, tab, confirmCore,
                 checkouts, confirmIssued, sessions, losses, consents>>
vars == <<scenario, routerVars, intentVars, gateVars, themeVars,
          admissionVars, edgeVars, catalogVars, confirmVars>>
-----------------------------------------------------------------------------
\* The routing decision over every registry of three agents with small
\* attributes and every weighting, agents leaving one after another.
Router == INSTANCE CategoryRouter WITH NoAgent <- None
Records(a) == [category : {1}, active : {TRUE}, admissionVerified : {TRUE},
               fallback : {IF a = 1 THEN None ELSE a - 1},
               attributes : [price : {0, 1, 3}, quality : {0, 2}, latency : {1}]]

routerInit ==
    IF scenario = "router"
    THEN /\ stored \in {<<x, y, z>> : x \in Records(1), y \in Records(2), z \in Records(3)}
         /\ weighting \in [Router!Attributes -> {0, 2}]
    ELSE stored = <<>> /\ weighting = <<>>

Deregister(a) ==
    /\ stored[a].active
    /\ stored' = [stored EXCEPT ![a].active = FALSE]
    /\ UNCHANGED weighting

routerNext == \E a \in DOMAIN stored : Deregister(a)

\* Candidate b is at least as good as a in everything that has a weight.
AtLeastAsGood(b, a) ==
    LET x == stored[a].attributes  y == stored[b].attributes
    IN  /\ weighting["price"] > 0 => y.price <= x.price
        /\ weighting["quality"] > 0 => y.quality >= x.quality
        /\ weighting["latency"] > 0 => y.latency <= x.latency

\* CategoryRouter: the unpinned winner is undominated among the eligible agents,
\* and of those that equal it the one with the smallest identifier; there is a
\* winner whenever anybody is eligible and the policy is readable.
WinnerUndominated == scenario = "router" =>
    LET decision == Router!RouteIntentExclusively(stored, 1, weighting, Router!NoAuthority)
        candidates == Router!Candidates(stored, 1)
    IN  /\ (decision.status = "dispatch")
              <=> candidates # {} /\ Router!ReadSelectionPolicy(weighting)
        /\ decision.status = "dispatch" =>
              /\ decision.agent \in candidates
              /\ \A b \in candidates : AtLeastAsGood(b, decision.agent) =>
                    AtLeastAsGood(decision.agent, b) /\ decision.agent <= b

\* CategoryRouter: a pinned authority is followed exactly or not at all: the
\* pinned agent with the pinned fallback, both eligible, and the fallback the
\* agent declares.
PinFollowedExactly == scenario = "router" =>
    \A p \in DOMAIN stored, f \in DOMAIN stored \cup {None} :
        LET decision == Router!RouteIntentExclusively(stored, 1, weighting,
                                                      [pinned |-> p, fallback |-> f])
        IN  decision.status = "dispatch" =>
              /\ decision.agent = p /\ p \in Router!Candidates(stored, 1)
              /\ decision.fallback = f
              /\ f # None => f = stored[p].fallback /\ f \in Router!Candidates(stored, 1)

\* A request and its retry; two requests that name listings of one merchant.
\* Agent 1 falls back on 2 and 2 on 3.
Intent(id, category, listing) ==
    [id |-> id, category |-> category, listing |-> listing, wellFormed |-> TRUE]
Retried == [r \in {t1, t2} |-> Intent(1, 1, None)]
OfMerchant == [r \in {"r1", "r2"} |-> Intent(1, 1, IF r = "r1" THEN 1 ELSE 3)]
Facts == [a \in 1 .. 3 |->
    [category |-> 1, fallback |-> IF a < 3 THEN a + 1 ELSE None,
     attributes |-> [x \in Router!Attributes |-> IF a = 1 THEN 1 ELSE 2]]]
PriceAndLatency == [x \in Router!Attributes |-> IF x = "quality" THEN 0 ELSE 1]
Retry == INSTANCE IntentRoute WITH
    Requests <- {t1, t2}, intent <- Retried, Agents <- 1 .. 3,
    agentFacts <- Facts, weights <- PriceAndLatency, NoAgent <- None,
    NoListing <- None, NoTheme <- None, MaxChanges <- 1, MaxRestarts <- 1
Merchant == INSTANCE IntentRoute WITH
    Requests <- {"r1", "r2"}, intent <- OfMerchant, Agents <- 1 .. 3,
    agentFacts <- Facts, weights <- PriceAndLatency, NoAgent <- None,
    NoListing <- None, NoTheme <- None, MaxChanges <- 1, MaxRestarts <- 1

\* Two vendor transitions, one of them tried twice; evidence that differs in
\* version, checks and digest.
\* Evidence as it should be, with a digest of its own content.
Sound(version, minor, checked) ==
    [wellFormed |-> TRUE, revision |-> [major |-> 0, minor |-> minor], version |-> version,
     checks |-> checked,
     receiptDigest |-> <<[major |-> 0, minor |-> minor], version, checked>>]
Evidence ==
    {Sound(1, 3, {"fence"}), Sound(2, 4, {"fence", "extra"}),
     [Sound(1, 3, {"fence"}) EXCEPT !.checks = {"fence", "extra"}]}
Transitions == [c \in {"c1", "c2", "c3"} |->
    [kind |-> "transition", mutation |-> IF c = "c3" THEN "m2" ELSE "m1", valid |-> TRUE]]
Gate == INSTANCE ProviderGate WITH
    Calls <- {"c1", "c2", "c3"}, operation <- Transitions,
    RequiredChecks <- {"fence"}, Declared <- [major |-> 0, minor |-> 3],
    Secrets <- {"s1"}, NoPin <- None, MaxDeployments <- 1,
    Evidence <- Evidence, pc <- gatePc, local <- gateLocal,
    answer <- gateAnswer

\* One merchant, two leases: two themes, both reviewed when there was none;
\* or manifests that do not pass, and one without a review.
Leases == {"c1", "c2"}
Number == [c \in Leases |-> IF c = "c1" THEN 1 ELSE 2]
Sections == {"palette", "logo", "copy", "locale"}
Own(section) == [s \in Sections |-> IF s = section THEN "own" ELSE "absent"]
Rivals == {"one", "other"}
RivalManifest == [op \in Rivals |->
    [merchant |-> "merchant", scope |-> {"a"}, unknown |-> FALSE,
     sections |-> Own(IF op = "one" THEN "palette" ELSE "locale")]]
RivalReview == [op \in Rivals |-> None]
Doubtful == {"good", "invalid", "foreign", "malformed"}
DoubtfulManifest == [op \in Doubtful |->
    [merchant |-> IF op = "foreign" THEN "m2" ELSE "merchant", scope |-> {"a"}, unknown |-> FALSE,
     sections |-> IF op = "good" THEN Own("logo")
                  ELSE [s \in Sections |-> IF op = "invalid" THEN "bad" ELSE "absent"]]]
DoubtfulReview == [op \in Doubtful |-> CASE op = "malformed" -> "malformed"
                                          [] op = "good" -> Unreviewed [] OTHER -> None]
Deploy == INSTANCE ThemeDeployment WITH
    Scopes <- {"merchant"}, Targets <- {"theme"}, Claims <- Leases,
    Operations <- Rivals, semanticScope <- [c \in Leases |-> "merchant"],
    claimId <- Number, declaredWriteSet <- [c \in Leases |-> {"theme"}],
    leaseEpoch <- Number, leaseExpiresAtMs <- Number,
    operationScope <- [op \in Rivals |-> "merchant"],
    writeTarget <- [s \in {"merchant"} |-> "theme"], Journals <- {"theme"},
    Compacting <- {}, journalScope <- [j \in {"theme"} |-> "merchant"],
    Handlers <- {t1, t2}, Agents <- {"a"}, manifest <- RivalManifest,
    reviewed <- RivalReview, NoTheme <- None, MerchantScope <- "merchant",
    NoClaim <- None, NoPermit <- None, MaxTime <- 1, MaxSequence <- 2,
    MaxFaults <- 1, reservation <- themeReservation, theme <- themeTheme,
    pc <- themePc
Prepare == INSTANCE ThemeDeployment WITH
    Scopes <- {"merchant"}, Targets <- {"theme"}, Claims <- Leases,
    Operations <- Doubtful, semanticScope <- [c \in Leases |-> "merchant"],
    claimId <- Number, declaredWriteSet <- [c \in Leases |-> {"theme"}],
    leaseEpoch <- Number, leaseExpiresAtMs <- Number,
    operationScope <- [op \in Doubtful |-> "merchant"],
    writeTarget <- [s \in {"merchant"} |-> "theme"], Journals <- {"theme"},
    Compacting <- {}, journalScope <- [j \in {"theme"} |-> "merchant"],
    Handlers <- {t1}, Agents <- {"a"}, manifest <- DoubtfulManifest,
    reviewed <- DoubtfulReview, NoTheme <- None, MerchantScope <- "merchant",
    NoClaim <- None, NoPermit <- None, MaxTime <- 1, MaxSequence <- 1,
    MaxFaults <- 1, reservation <- themeReservation, theme <- themeTheme,
    pc <- themePc

\* Permits 1 and 3 are of one agent under different entries, 2 of another
\* agent under the entry of 1; 3 is of the next lease.
Isolated == INSTANCE AdmissionProvider WITH
    Isolates <- {"w1", "w3"}, Attempts <- {t1, t2}, Permits <- {1, 3},
    Agents <- {"a", "b"}, Entries <- {"e", "f"},
    agent <- [p \in {1, 3} |-> IF p = 2 THEN "b" ELSE "a"],
    definition <- [p \in {1, 3} |-> [revision |-> IF p = 3 THEN 2 ELSE 1, text |-> p]],
    entry <- [p \in {1, 3} |-> IF p = 3 THEN "f" ELSE "e"],
    content <- [p \in {1, 3} |-> IF p = 3 THEN 2 ELSE 1],
    epoch <- [p \in {1, 3} |-> IF p = 3 THEN 2 ELSE 1],
    sequenceNo <- [p \in {1, 3} |-> p],
    authority <- [w \in {"w1", "w3"} |-> [w1 |-> 1, w2 |-> 2, w3 |-> 3][w]],
    identity <- [w \in {"w1", "w3"} |-> "v1"], DeploymentPin <- "v1",
    flaw <- [p \in {1, 3} |-> "none"], Defects <- {"none"},
    MAX_COMMERCE_RETAINED_OUTCOMES <- 2,
    MAX_COMMERCE_REGISTRATIONS <- 2, MaxFaults <- 0, fence <- admissionFence,
    registered <- admissionRegistered, faults <- admissionFaults
Shared == INSTANCE AdmissionProvider WITH
    Isolates <- {"w1", "w2", "w3"}, Attempts <- {t1}, Permits <- 1 .. 3,
    Agents <- {"a", "b"}, Entries <- {"e", "f"},
    agent <- [p \in 1 .. 3 |-> IF p = 2 THEN "b" ELSE "a"],
    definition <- [p \in 1 .. 3 |-> [revision |-> IF p = 3 THEN 2 ELSE 1, text |-> p]],
    entry <- [p \in 1 .. 3 |-> IF p = 3 THEN "f" ELSE "e"],
    content <- [p \in 1 .. 3 |-> IF p = 3 THEN 2 ELSE 1],
    epoch <- [p \in 1 .. 3 |-> IF p = 3 THEN 2 ELSE 1],
    sequenceNo <- [p \in 1 .. 3 |-> p],
    authority <- [w \in {"w1", "w2", "w3"} |-> [w1 |-> 1, w2 |-> 2, w3 |-> 3][w]],
    identity <- [w \in {"w1", "w2", "w3"} |-> "v1"], DeploymentPin <- "v1",
    flaw <- [p \in 1 .. 3 |-> "none"], Defects <- {"none", "unsigned"},
    MAX_COMMERCE_RETAINED_OUTCOMES <- 3,
    MAX_COMMERCE_REGISTRATIONS <- 2, MaxFaults <- 1, fence <- admissionFence,
    registered <- admissionRegistered, faults <- admissionFaults

\* Two candidates, a redeployment of the first, an untagged version and two
\* of another lane or configuration.
Version(id, cand, tag, lane, config) ==
    [id |-> id, cand |-> cand, tag |-> tag, lane |-> lane, config |-> config]
EdgeVersions == {Version(1, "c1", "c1", "Production", TRUE), Version(2, "c1", "c1", "Production", TRUE),
                 Version(3, "c2", "c2", "Production", TRUE), Version(4, "c2", "none", "Production", TRUE),
                 Version(5, "c1", "c1", "Staging", TRUE), Version(6, "c1", "c1", "Production", FALSE)}
EdgeSandboxes == [cand : {"c1", "c2"}, lane : {"Production"}]
Ready == INSTANCE EdgeRequest WITH
    Requests <- {"q1"}, Versions <- EdgeVersions, Sandboxes <- EdgeSandboxes,
    Doors <- {"dashboard", "readyz"}, Deps <- {"catalog"}, MaxDeploys <- 2,
    MaxFaults <- 0, core <- edgeCore, faults <- edgeFaults
Calls == INSTANCE EdgeRequest WITH
    Requests <- {"q1"}, Versions <- {v \in EdgeVersions : v.id \leq 4}, Sandboxes <- EdgeSandboxes,
    Doors <- {"route", "mcp", "mcp_operator"}, Deps <- {"catalog"},
    MaxDeploys <- 1, MaxFaults <- 1, core <- edgeCore, faults <- edgeFaults

\* Revision r1 moves the tool's semantic away from the pinned one; one entry
\* has a source URL.
Entry(token, kind, tools, semantics, bindings, url) ==
    [token |-> token, kind |-> kind, tools |-> tools, semantics |-> semantics,
     bindings |-> bindings, url |-> url]
Published == [r \in {"r0", "r1"} |->
    IF r = "r0"
    THEN {Entry("cmd", "command", {"tool"}, {"sem"}, {"bind"}, None),
          Entry("sem", "semantic", {}, {}, {}, None), Entry("bind", "binding", {}, {}, {}, "r0")}
    ELSE {Entry("cmd", "command", {"tool"}, {}, {"bind"}, None),
          Entry("sem2", "semantic", {}, {}, {}, None), Entry("bind", "binding", {}, {}, {}, "r1")}]
ActionMap == [action : {"checkout.confirm"}, command : {"cmd"}, semantics : {{"sem"}},
              bindings : {{"bind"}}, tool : {"tool"}]
             \cup [action : {"theme.deploy"}, command : {"cmd"}, semantics : {{"sem"}},
                   bindings : {{"bind"}}, tool : {"tool2"}]
Catalog == INSTANCE InvocationCatalog WITH
    BadToken <- "bad", Requests <- {t1, t2}, Revision <- {"r0", "r1"},
    Pin <- "r0", Content <- Published, Map <- ActionMap,
    Actions <- {"checkout.confirm"}, Required <- {"cmd", "sem"},
    Presented <- {{"cmd"}, {"bad"}},
    Kinds <- {"call", "present", "ready", "coverage"}, MaxPublish <- 2,
    MaxFaults <- 1, faults <- catalogFaults, req <- catalogReq

\* Two shoppers at one browser and changing offers; two tabs with two
\* checkouts; the development mode without a trust anchor.
OneTab == INSTANCE HumanConfirmation WITH
    Tabs <- {t1}, Offers <- {o1}, Principals <- {p1, p2}, TrustAnchor <- TRUE,
    ConfirmationTtl <- 2, PresenceTtl <- 1, CoreTtl <- 3, SessionTtl <- 3,
    MaxTime <- 3, MaxCheckouts <- 1, MaxBlockers <- 2, MaxSessions <- 2,
    MaxLosses <- 0, now <- confirmNow, session <- confirmSession,
    core <- confirmCore, issued <- confirmIssued
TwoTabs == INSTANCE HumanConfirmation WITH
    Tabs <- {t1, t2}, Offers <- {o1}, Principals <- {p1, p2},
    TrustAnchor <- TRUE, ConfirmationTtl <- 2, PresenceTtl <- 1, CoreTtl <- 3,
    SessionTtl <- 3, MaxTime <- 0, MaxCheckouts <- 2, MaxBlockers <- 1,
    MaxSessions <- 2, MaxLosses <- 0, now <- confirmNow,
    session <- confirmSession, core <- confirmCore, issued <- confirmIssued
Visual == INSTANCE HumanConfirmation WITH
    Tabs <- {t1}, Offers <- {o1, o2}, Principals <- {p1},
    TrustAnchor <- FALSE, ConfirmationTtl <- 2, PresenceTtl <- 1,
    CoreTtl <- 3, SessionTtl <- 3, MaxTime <- 1, MaxCheckouts <- 2,
    MaxBlockers <- 1, MaxSessions <- 2, MaxLosses <- 1, now <- confirmNow,
    session <- confirmSession, core <- confirmCore, issued <- confirmIssued

-----------------------------------------------------------------------------
ASSUME
    /\ Retry!IntentAssumption /\ Merchant!IntentAssumption
    /\ Gate!OperationAssumption /\ Deploy!ThemeAssumption
    /\ Prepare!ThemeAssumption /\ Isolated!AdmissionAssumption
    /\ Shared!AdmissionAssumption /\ Ready!VersionAssumption
    /\ Calls!VersionAssumption /\ Catalog!PinAssumption
    /\ OneTab!TtlAssumption /\ TwoTabs!TtlAssumption
    /\ Visual!TtlAssumption

Scenarios == { "router", "intent retried", "intents of a merchant",
              "provider gate", "theme deployed", "theme prepared",
              "admission isolates", "admission entry shared",
              "edge readiness", "edge calls", "invocation catalog",
              "confirmation in one tab", "confirmation in two tabs",
              "visual confirmation"}

\* Everybody but one component stands still.
Still(component) ==
    /\ UNCHANGED scenario
    /\ IF component = "router" THEN TRUE ELSE UNCHANGED routerVars
    /\ IF component = "IntentRoute" THEN TRUE ELSE UNCHANGED intentVars
    /\ IF component = "ProviderGate" THEN TRUE ELSE UNCHANGED gateVars
    /\ IF component = "ThemeDeployment" THEN TRUE ELSE UNCHANGED themeVars
    /\ IF component = "AdmissionProvider" THEN TRUE ELSE UNCHANGED admissionVars
    /\ IF component = "EdgeRequest" THEN TRUE ELSE UNCHANGED edgeVars
    /\ IF component = "InvocationCatalog" THEN TRUE ELSE UNCHANGED catalogVars
    /\ IF component = "HumanConfirmation" THEN TRUE ELSE UNCHANGED confirmVars

Init ==
    /\ scenario \in Scenarios
    /\ routerInit
    /\ CASE scenario = "intents of a merchant" -> Merchant!Init
         [] OTHER -> Retry!Init
    /\ scenario \notin {"intent retried", "intents of a merchant"} =>
         theme = None
    /\ Gate!Init
    /\ scenario \notin {"provider gate"} =>
         provider.evidence = Sound(1, 3, {"fence"}) /\ core.pin = Gate!PinOf(provider.evidence)
    /\ CASE scenario = "theme prepared" -> Prepare!Init
         [] OTHER -> Deploy!Init
    /\ CASE scenario = "admission entry shared" -> Shared!Init
         [] OTHER -> Isolated!Init
    /\ CASE scenario = "edge calls" -> Calls!Init
         [] OTHER -> Ready!Init
    /\ scenario \notin {"edge readiness", "edge calls"} =>
         edge.id = 1 /\ edgeCore.id = 1 /\ sandbox.cand = "c1"
    /\ Catalog!Init
    /\ CASE scenario = "confirmation in one tab" -> OneTab!Init
         [] scenario = "visual confirmation" -> Visual!Init
         [] OTHER -> TwoTabs!Init

RouterStep == scenario = "router" /\ routerNext /\ Still("router")
RetryStep == scenario = "intent retried" /\ Retry!Next /\ Still("IntentRoute")
MerchantStep == scenario = "intents of a merchant" /\ Merchant!Next /\ Still("IntentRoute")
GateStep == scenario = "provider gate" /\ Gate!Next /\ Still("ProviderGate")
DeployStep == scenario = "theme deployed" /\ Deploy!Next /\ Still("ThemeDeployment")
PrepareStep == scenario = "theme prepared" /\ Prepare!Next /\ Still("ThemeDeployment")
IsolatedStep == scenario = "admission isolates" /\ Isolated!Next /\ Still("AdmissionProvider")
SharedStep == scenario = "admission entry shared" /\ Shared!Next /\ Still("AdmissionProvider")
ReadyStep == scenario = "edge readiness" /\ Ready!Next /\ Still("EdgeRequest")
CallsStep == scenario = "edge calls" /\ Calls!Next /\ Still("EdgeRequest")
CatalogStep == scenario = "invocation catalog" /\ Catalog!Next /\ Still("InvocationCatalog")
OneTabStep == scenario = "confirmation in one tab" /\ OneTab!Next /\ Still("HumanConfirmation")
TwoTabsStep == scenario = "confirmation in two tabs" /\ TwoTabs!Next /\ Still("HumanConfirmation")
VisualStep == scenario = "visual confirmation" /\ Visual!Next /\ Still("HumanConfirmation")

Next ==
    \/ RouterStep \/ RetryStep \/ MerchantStep \/ GateStep
    \/ DeployStep \/ PrepareStep \/ IsolatedStep \/ SharedStep
    \/ ReadyStep \/ CallsStep \/ CatalogStep \/ OneTabStep
    \/ TwoTabsStep \/ VisualStep

Spec == Init /\ [][Next]_vars

Symmetry == Permutations({t1, t2}) \cup Permutations({p1, p2})
-----------------------------------------------------------------------------
\* CategoryRouter and IntentRoute: the winner is undominated and a pin is
\* followed exactly; an intent has at most one dispatch call per role,
\* however often and concurrently it is retried, the fallback is called only
\* after the selected agent's call timed out and only agents of the recorded
\* decision are called, with the merchant's scope kept by the fallback; a row
\* says completed only if a call did execute, and one left dispatching is the
\* work of a restart.
RoutingSafe ==
    /\ WinnerUndominated
    /\ PinFollowedExactly
    /\ scenario = "intent retried" =>
         /\ Retry!TypeOK /\ Retry!OneCallPerRole /\ Retry!FallbackAfterTimeout
         /\ Retry!OnlyDecidedAgents /\ Retry!CompletedMeansExecuted
         /\ Retry!OrphanOnlyAfterRestart
    /\ scenario = "intents of a merchant" =>
         /\ Merchant!TypeOK /\ Merchant!MerchantScopeKept

\* ProviderGate: a provider's decision is taken under evidence that was
\* verified and that the pin fixes, over every deployment of the provider
\* between the two reads; a completed call was decided and transitions apply
\* in order.  AdmissionProvider: what the provider answers about a mutation
\* is true of the durable authority, an isolate's projection is the state of
\* one revision, what it shows as registered is projected, and owners match
\* registrations, whichever answers of the durable commits are delayed or
\* lost.
ProvidersSafe ==
    /\ scenario = "provider gate" =>
         /\ Gate!TypeOK /\ Gate!DecidedUnderVerifiedEvidence
         /\ Gate!PinFixesEvidence /\ Gate!CompletedIsDecided
         /\ Gate!AppliedInOrder
    /\ scenario = "admission isolates" =>
         /\ Isolated!TypeOK /\ Isolated!SettledIsTrue /\ Isolated!ProjectionIsItsRevision
         /\ Isolated!RegisteredIsProjected
         /\ Isolated!OwnersMatchRegistrations
    /\ scenario = "admission entry shared" =>
         /\ Shared!TypeOK /\ Shared!SettledIsTrue /\ Shared!ProjectionIsItsRevision
         /\ Shared!RegisteredIsProjected /\ Shared!OwnersMatchRegistrations

\* ThemeDeployment: an activation replaces exactly the theme that was
\* reviewed, although others may be activated in between; success is answered
\* only for what was written; a reservation of the merchant scope left
\* without a handler is the work of a fault; only a prepared theme of that
\* merchant is reserved.
ThemesSafe ==
    /\ scenario = "theme deployed" =>
         /\ Deploy!TypeOK /\ Deploy!ReviewedIsReplaced
         /\ Deploy!HeldOnlyByFault /\ Deploy!SuccessWasWritten
    /\ scenario = "theme prepared" =>
         /\ Prepare!TypeOK /\ Prepare!ReservedIsPrepared

\* EdgeRequest: readiness is answered only when edge, core and sandbox are of
\* one release, effects are those of one release although any Worker may be
\* redeployed between the calls, a refusal had no effect, and a checkout is
\* confirmed visually.  InvocationCatalog: every call that leaves is covered
\* by the catalogue hydrated for it, and the sessions of the catalogue client
\* are all accounted for.
EdgeSafe ==
    /\ scenario = "edge readiness" => Ready!TypeOK /\ Ready!ReadyIsOneRelease
    /\ scenario = "edge calls" =>
         /\ Calls!TypeOK /\ Calls!EffectsAreOneRelease
         /\ Calls!RefusalDidNothing /\ Calls!CheckoutsAreVisual
    /\ scenario = "invocation catalog" =>
         /\ Catalog!TypeOK /\ Catalog!CallsAreCovered
         /\ Catalog!SessionsAccounted

\* HumanConfirmation: a confirmation reaches the core only for what this
\* shopper was shown, with every blocker the core knows of acknowledged, by
\* the shopper who prepared it, and inside a window that no renewal extends,
\* in whatever order two tabs present their cookies.
ConsentSafe ==
    /\ scenario = "confirmation in one tab" =>
         /\ OneTab!ConsentWasShown /\ OneTab!NothingUnacknowledged
         /\ OneTab!SameShopperThroughout /\ OneTab!WindowNeverGrows
    /\ scenario = "confirmation in two tabs" =>
         /\ TwoTabs!ConsentWasShown /\ TwoTabs!SameShopperThroughout
    /\ scenario = "visual confirmation" =>
         /\ Visual!ConsentWasShown /\ Visual!NothingUnacknowledged

\* What no step may do: write a theme outside its reservation
\* (ThemeDeployment), project an older revision over a newer one
\* (AdmissionProvider), go on serving a catalogue that a refresh has replaced
\* (InvocationCatalog).
CoreSteps ==
    /\ Deploy!WrittenWhileReserved
    /\ [][scenario = "admission isolates" => Isolated!ProjectionKept]_admissionVars
    /\ Catalog!RefreshRevokes

\* "Public readiness survives a private projection failure; a healthy warm
\* isolate catches up" (worker-extension.js:44): an isolate at rest can
\* rehydrate once the store answers.  The code does not keep it.
WarmIsolateCatchesUp ==
    /\ scenario = "admission isolates" => Isolated!WarmIsolateCatchesUp
    /\ scenario = "admission entry shared" => Shared!WarmIsolateCatchesUp

=============================================================================
