---------------------------- MODULE MCProgress ----------------------------
(*****************************************************************************)
(* What must eventually happen, component by component, under the fairness   *)
(* its timers and settled promises give it.  `scenario' selects one          *)
(* instance, its component takes its steps and all the others stand still;   *)
(* each fairness condition is about the selected component only.             *)
(*****************************************************************************)
EXTENDS Integers, FiniteSets, Sequences, TLC

CONSTANTS None

VARIABLES
    scenario,        \* the instance that runs
    \* IntentRoute
    registry, theme, changes, routeEvent, row, pc, local, answer, calls,
    executed, restarts,
    \* ProviderGate
    provider, core, deployments, fences, leaseOver, permits, reservation,
    gatePc, gateLocal, gateAnswer, network, responses, decided,
    \* LocalStore
    pending, lastSequence, online, replay, merged, closes,
    \* EdgeRequest
    edge, edgeCore, sandbox, dep, deploys, faults, req, effects,
    \* InvocationCatalog
    adv, body, live, published, catalogFaults, session, cache, hyd,
    catalogReq, called, off,
    \* MerchantPage
    operatorToken, merchantRegistry, connects, refreshDisabled, applying, asked, shown,
    lookups, wanted, merchantCalls, now, merchantOnline, visible, release,
    generation, controller, checks, observation, badge, expiry, history,
    passedAt, events,
    \* DraftWorkspace
    store, tab, draftSession, jobs, backup, lastSaved, acked, exported, seen,
    selected,
    \* ListingProbe
    probeAsked, status, probe, aborted, verifier, waiters, good,
    \* MergeAgent
    pull, agent, written, unmerged, world,
    \* LocalFirstRelease
    plan, serving, route, main, localFirstPc, owned, before, journal, disk,
    restore, proof, verified, peerSeen, peers, localFirstFaults,
    \* HostRendezvous
    host, rendezvousPc, rendezvousAnswer, error, late, seenNew, foreign,
    \* SandboxProvision
    tree, provisionNow, provisionProof, boxes, ranIn, signed, check, edits,
    provisionFaults,
    \* SandboxRun
    shape, runPc, box, runBoxes, ran, runCalls, exec, verdict, runAnswer,
    caller, bundle, ranUnder, hurt, runFaults,
    \* LocalHost
    hostHost, kind, phase, connected, hostAnswer, active, executor,
    hostAborted, container, recoveryRequired, stopping, closed, hostFaults

intentVars == <<registry, theme, changes, routeEvent, row, pc, local, answer,
                calls, executed, restarts>>
gateVars == <<provider, core, deployments, fences, leaseOver, permits,
              reservation, gatePc, gateLocal, gateAnswer, network, responses,
              decided>>
queueVars == <<pending, lastSequence, online, replay, merged, closes>>
edgeVars == <<edge, edgeCore, sandbox, dep, deploys, faults, req, effects>>
catalogVars == <<adv, body, live, published, catalogFaults, session, cache,
                 hyd, catalogReq, called, off>>
merchantVars == <<operatorToken, merchantRegistry, connects, refreshDisabled, applying, asked,
                  shown, lookups, wanted, merchantCalls, now, merchantOnline,
                  visible, release, generation, controller, checks,
                  observation, badge, expiry, history, passedAt, events>>
draftVars == <<store, tab, draftSession, jobs, backup, lastSaved, acked,
               exported, seen, selected>>
probeVars == <<probeAsked, status, probe, aborted, verifier, waiters, good>>
mergeVars == <<pull, agent, written, unmerged, world>>
localFirstVars == <<plan, serving, route, main, localFirstPc, owned, before,
                    journal, disk, restore, proof, verified, peerSeen, peers,
                    localFirstFaults>>
rendezvousVars == <<host, rendezvousPc, rendezvousAnswer, error, late,
                    seenNew, foreign>>
provisionVars == <<tree, provisionNow, provisionProof, boxes, ranIn, signed,
                   check, edits, provisionFaults>>
runVars == <<shape, runPc, box, runBoxes, ran, runCalls, exec, verdict,
             runAnswer, caller, bundle, ranUnder, hurt, runFaults>>
hostVars == <<hostHost, kind, phase, connected, hostAnswer, active, executor,
              hostAborted, container, recoveryRequired, stopping, closed,
              hostFaults>>
vars == <<scenario, intentVars, gateVars, queueVars, edgeVars, catalogVars,
          merchantVars, draftVars, probeVars, mergeVars, localFirstVars,
          rendezvousVars, provisionVars, runVars, hostVars>>
-----------------------------------------------------------------------------
\* Two intents, of which one names a listing of another category.
Intent(id, category, listing) ==
    [id |-> id, category |-> category, listing |-> listing, wellFormed |-> TRUE]
TwoIntents == [r \in {"r1", "r2"} |-> IF r = "r1" THEN Intent(1, 1, None) ELSE Intent(2, 2, 1)]
Rated == {"price", "quality", "latency"}
Facts == [a \in 1 .. 2 |->
    [category |-> 1, fallback |-> IF a = 1 THEN 2 ELSE None,
     attributes |-> [x \in Rated |-> IF a = 1 THEN 1 ELSE 2]]]
PriceAndLatency == [x \in Rated |-> IF x = "quality" THEN 0 ELSE 1]
Intents == INSTANCE IntentRoute WITH
    Requests <- {"r1", "r2"}, intent <- TwoIntents, Agents <- 1 .. 2,
    agentFacts <- Facts, weights <- PriceAndLatency, NoAgent <- None,
    NoListing <- None, NoTheme <- None, MaxChanges <- 0, MaxRestarts <- 1

\* A read and a transition, with providers whose evidence blocks and secrets
\* that differ.
\* Evidence as it should be, with a digest of its own content.
Sound(version, minor, checked) ==
    [wellFormed |-> TRUE, revision |-> [major |-> 0, minor |-> minor], version |-> version,
     checks |-> checked,
     receiptDigest |-> <<[major |-> 0, minor |-> minor], version, checked>>]
Blocked ==
    {Sound(1, 3, {"fence"}),
     [Sound(1, 3, {"fence"}) EXCEPT !.revision.major = 1]}
TwoCalls ==
    [c1 |-> [kind |-> "vendors", mutation |-> "none", valid |-> TRUE],
     c2 |-> [kind |-> "transition", mutation |-> "m1", valid |-> TRUE]]
Gate == INSTANCE ProviderGate WITH
    Calls <- {"c1", "c2"}, operation <- TwoCalls, RequiredChecks <- {"fence"},
    Declared <- [major |-> 0, minor |-> 3], Secrets <- {"s1", "s2"},
    NoPin <- None, MaxDeployments <- 1, Evidence <- Blocked, pc <- gatePc,
    local <- gateLocal, answer <- gateAnswer

Queue == INSTANCE LocalStore WITH
    Tabs <- {"t1", "t2"}, MAXIMUM_PENDING_CHANGES <- 2, MaxSequence <- 2,
    MaxCloses <- 1, MaxMerges <- 3

Version(id, cand) == [id |-> id, cand |-> cand, tag |-> cand, lane |-> "Production", config |-> TRUE]
EdgeVersions == {Version(1, "c1"), Version(2, "c2")}
EdgeSandboxes == [cand : {"c1", "c2"}, lane : {"Production"}]
Edge == INSTANCE EdgeRequest WITH
    Requests <- {"q1"}, Versions <- EdgeVersions, Sandboxes <- EdgeSandboxes,
    Doors <- {"dashboard", "readyz", "route"}, Deps <- {"catalog"},
    MaxDeploys <- 1, MaxFaults <- 1, core <- edgeCore

Entry(token, entryKind, tools, semantics, bindings, url) ==
    [token |-> token, kind |-> entryKind, tools |-> tools, semantics |-> semantics,
     bindings |-> bindings, url |-> url]
Published == [r \in {"r0", "r1"} |->
    IF r = "r0"
    THEN {Entry("cmd", "command", {"tool"}, {"sem"}, {"bind"}, None),
          Entry("sem", "semantic", {}, {}, {}, None), Entry("bind", "binding", {}, {}, {}, "r0")}
    ELSE {Entry("cmd", "command", {"tool"}, {}, {"bind"}, None),
          Entry("sem2", "semantic", {}, {}, {}, None), Entry("bind", "binding", {}, {}, {}, "r1")}]
ActionMap == {[action |-> "checkout.confirm", command |-> "cmd", semantics |-> {"sem"},
               bindings |-> {"bind"}, tool |-> "tool"]}
Catalog == INSTANCE InvocationCatalog WITH
    BadToken <- "bad", Requests <- {"q1", "q2"}, Revision <- {"r0", "r1"},
    Pin <- "r0", Content <- Published, Map <- ActionMap,
    Actions <- {"checkout.confirm"}, Required <- {"cmd", "sem"},
    Presented <- {{"cmd"}}, Kinds <- {"call", "ready"}, MaxPublish <- 1,
    MaxFaults <- 1, faults <- catalogFaults, req <- catalogReq

Panel == INSTANCE MerchantPage WITH
    Credentials <- {}, Refused <- {}, Merchants <- {}, Minute <- 2,
    HistoryLimit <- 2, MaxTime <- 3, MaxCalls <- 0, MaxChecks <- 2,
    MaxEvents <- 2, registry <- merchantRegistry, calls <- merchantCalls,
    online <- merchantOnline

Draft == INSTANCE DraftWorkspace WITH
    Tabs <- {"t1"}, Texts <- {"a", "b"}, MaxRevision <- 3, MaxSessions <- 1,
    Listing <- TRUE, Launch <- FALSE, session <- draftSession

Probe == INSTANCE ListingProbe WITH
    Requests <- 1 .. 3, MaxWaiters <- 1, asked <- probeAsked

Patch(paths, effective, tokens) == [paths |-> paths, effective |-> effective, tokens |-> tokens]
Answer(operator, repair) == [within |-> TRUE, operator |-> operator, repair |-> repair]
Patches ==
    [conflicts |-> [p \in {"a"} |-> Patch({"a"}, {"a"}, 1)],
     comments |-> [c1 |-> Answer(FALSE, Patch({"b"}, {"b"}, 1)), c2 |-> Answer(TRUE, Patch({"b"}, {"b"}, 1)),
                   c3 |-> Answer(FALSE, Patch({"dir/c"}, {"dir/c"}, 1)),
                   c4 |-> Answer(FALSE, Patch({"b"}, {"b", "x"}, 1))],
     checks |->
       [unit |-> [bound |-> TRUE, approaches |-> <<Patch({"a", "b"}, {"a", "b"}, 2), Patch({"b"}, {"b"}, 2)>>],
        loose |-> [bound |-> FALSE, approaches |-> <<Patch({"b"}, {"b"}, 1)>>],
        void |-> [bound |-> TRUE, approaches |-> <<Patch({"b"}, {"b"}, 1), Patch({}, {}, 1)>>]]]
Comment(id, path) == [id |-> id, path |-> path]
Observed(conflicts, comments, unit) ==
    [conflicts |-> conflicts, comments |-> comments, checks |-> [k \in {"unit"} |-> unit],
     decision |-> "REVIEW_REQUIRED", mergeable |-> "MERGEABLE", head |-> 1]
Observations ==
    {Observed({"a"}, {Comment("c1", "b")}, "fail"), Observed({}, {}, "fail"),
     Observed({}, {}, "pending"), Observed({}, {}, "success"),
     Observed({"x"}, {}, "success"), Observed({}, {Comment("c2", "b")}, "success")}
Merge == INSTANCE MergeAgent WITH
    Pulls <- Observations, Plan <- Patches, WriteSet <- {"a", "b", "dir"},
    Below <- {<<"dir/c", "dir">>},
    AllowedActions <- {"conflict-resolution", "comment-change", "check-repair"},
    BoundChecks <- {"unit", "loose", "void"},
    Bounds <- [iterations |-> 4, tokens |-> 4]

Planned(mode, checkout, prev, retained, pins) ==
    [mode |-> mode, checkout |-> checkout, prev |-> prev, retained |-> retained, pins |-> pins]
Before(checkout, pins) == [checkout |-> checkout, pins |-> pins]
Releases ==
    {Planned("bootstrap", "sandbox", None, FALSE, None),
     Planned("bootstrap", "sandbox", Before("sandbox", None), TRUE, None),
     Planned("steady", "sandbox", Before("sandbox", None), FALSE, None),
     Planned("steady", "sandbox", Before("sandbox", "h1"), FALSE, "h1"),
     Planned("steady", "sandbox", Before("sandbox", "h1"), FALSE, "h2"),
     Planned("steady", "live", Before("live-reader", None), FALSE, None),
     Planned("steady", "sandbox", Before("live", None), FALSE, None)}
LocalFirst == INSTANCE LocalFirstRelease WITH
    Plans <- Releases, MaxPeers <- 1, MaxFaults <- 1, pc <- localFirstPc,
    faults <- localFirstFaults

Rendezvous == INSTANCE HostRendezvous WITH
    MaxForeign <- 1, pc <- rendezvousPc, answer <- rendezvousAnswer

Provision == INSTANCE SandboxProvision WITH
    Files <- {"f1"}, Versions <- {"v1", "v2"}, Proofs <- {"p1"},
    SANDBOX_PROOF_COMMANDS <- <<"12.4", "12.7">>, Attestors <- {"ours"},
    Trusted <- {"ours"}, WallClock <- 1, Grace <- 1, Validity <- 1,
    MaxClock <- 2, MaxEdits <- 1, MaxFaults <- 1, now <- provisionNow,
    proof <- provisionProof, faults <- provisionFaults

DryRun(tools, allow) ==
    [purpose |-> "registration-dry-run", tools |-> tools, allow |-> allow, target |-> "good",
     manifest |-> [f \in {"merchantId", "palette", "locale"} |-> "absent"]]
TwoTools == {DryRun(<<"t1", "t2">>, {"t1", "t2"})}
OnDevice == INSTANCE SandboxRun WITH
    Requests <- {"r1", "r2"}, Shapes <- TwoTools, Tools <- {"t1", "t2"},
    Required <- {"merchantId"}, Optional <- {"palette", "locale"},
    Device <- TRUE, MaxFaults <- 1, pc <- runPc, boxes <- runBoxes,
    calls <- runCalls, answer <- runAnswer, faults <- runFaults

Host == INSTANCE LocalHost WITH
    Requests <- {"r1", "r2"}, Kinds <- {"readyz", "run"}, MaxFaults <- 1,
    host <- hostHost, answer <- hostAnswer, aborted <- hostAborted,
    faults <- hostFaults

-----------------------------------------------------------------------------
ASSUME
    /\ Intents!IntentAssumption /\ Gate!OperationAssumption
    /\ Queue!QueueAssumption /\ Edge!VersionAssumption
    /\ Catalog!PinAssumption /\ Panel!PageAssumption
    /\ Draft!DraftAssumption /\ Probe!ProbeAssumption
    /\ Merge!BoundsAssumption /\ LocalFirst!LocalFirstAssumption
    /\ Rendezvous!RendezvousAssumption /\ Provision!ProvisionAssumption
    /\ OnDevice!SandboxAssumption /\ Host!HostAssumption

Scenarios == { "two intents", "provider gate", "offline queue",
              "edge request", "invocation catalog", "merchant panel",
              "draft listing", "readiness flights", "merge agent",
              "local-first release", "host rendezvous", "sandbox provision",
              "device lane", "local host"}

\* Everybody but one component stands still.
Still(component) ==
    /\ UNCHANGED scenario
    /\ IF component = "IntentRoute" THEN TRUE ELSE UNCHANGED intentVars
    /\ IF component = "ProviderGate" THEN TRUE ELSE UNCHANGED gateVars
    /\ IF component = "LocalStore" THEN TRUE ELSE UNCHANGED queueVars
    /\ IF component = "EdgeRequest" THEN TRUE ELSE UNCHANGED edgeVars
    /\ IF component = "InvocationCatalog" THEN TRUE ELSE UNCHANGED catalogVars
    /\ IF component = "MerchantPage" THEN TRUE ELSE UNCHANGED merchantVars
    /\ IF component = "DraftWorkspace" THEN TRUE ELSE UNCHANGED draftVars
    /\ IF component = "ListingProbe" THEN TRUE ELSE UNCHANGED probeVars
    /\ IF component = "MergeAgent" THEN TRUE ELSE UNCHANGED mergeVars
    /\ IF component = "LocalFirstRelease" THEN TRUE ELSE UNCHANGED localFirstVars
    /\ IF component = "HostRendezvous" THEN TRUE ELSE UNCHANGED rendezvousVars
    /\ IF component = "SandboxProvision" THEN TRUE ELSE UNCHANGED provisionVars
    /\ IF component = "SandboxRun" THEN TRUE ELSE UNCHANGED runVars
    /\ IF component = "LocalHost" THEN TRUE ELSE UNCHANGED hostVars

Init ==
    /\ scenario \in Scenarios
    /\ Intents!Init
    /\ scenario \notin {"two intents"} =>
         theme = None
    /\ Gate!Init
    /\ scenario \notin {"provider gate"} =>
         provider = [evidence |-> Sound(1, 3, {"fence"}), secret |-> "s1", life |-> 0] /\ core = [pin |-> Gate!PinOf(provider.evidence), secret |-> "s1"]
    /\ Queue!Init
    /\ scenario \notin {"offline queue"} =>
         online
    /\ Edge!Init
    /\ scenario \notin {"edge request"} =>
         edge.id = 1 /\ edgeCore.id = 1 /\ sandbox.cand = "c1"
    /\ Catalog!Init
    /\ Panel!Init
    /\ Draft!Init
    /\ Probe!Init
    /\ scenario \notin {"readiness flights"} =>
         good
    /\ Merge!Init
    /\ LocalFirst!Init
    /\ scenario \notin {"local-first release"} =>
         plan.prev = None
    /\ Rendezvous!Init
    /\ Provision!Init
    /\ scenario \notin {"sandbox provision"} =>
         tree = [f \in {"f1"} |-> "v1"]
    /\ OnDevice!Init
    /\ scenario \notin {"device lane"} =>
         \A r \in {"r1", "r2"} : shape[r] = DryRun(<<"t1", "t2">>, {"t1", "t2"})
    /\ Host!Init

IntentsStep == scenario = "two intents" /\ Intents!Next /\ Still("IntentRoute")
GateStep == scenario = "provider gate" /\ Gate!Next /\ Still("ProviderGate")
QueueStep == scenario = "offline queue" /\ Queue!Next /\ Still("LocalStore")
EdgeStep == scenario = "edge request" /\ Edge!Next /\ Still("EdgeRequest")
CatalogStep == scenario = "invocation catalog" /\ Catalog!Next /\ Still("InvocationCatalog")
PanelStep == scenario = "merchant panel" /\ Panel!Next /\ Still("MerchantPage")
DraftStep == scenario = "draft listing" /\ Draft!Next /\ Still("DraftWorkspace")
ProbeStep == scenario = "readiness flights" /\ Probe!Next /\ Still("ListingProbe")
MergeStep == scenario = "merge agent" /\ Merge!Next /\ Still("MergeAgent")
LocalFirstStep == scenario = "local-first release" /\ LocalFirst!Next /\ Still("LocalFirstRelease")
RendezvousStep == scenario = "host rendezvous" /\ Rendezvous!Next /\ Still("HostRendezvous")
ProvisionStep == scenario = "sandbox provision" /\ Provision!Next /\ Still("SandboxProvision")
OnDeviceStep == scenario = "device lane" /\ OnDevice!Next /\ Still("SandboxRun")
HostStep == scenario = "local host" /\ Host!Next /\ Still("LocalHost")

Next ==
    \/ IntentsStep \/ GateStep \/ QueueStep \/ EdgeStep
    \/ CatalogStep \/ PanelStep \/ DraftStep \/ ProbeStep
    \/ MergeStep \/ LocalFirstStep \/ RendezvousStep \/ ProvisionStep
    \/ OnDeviceStep \/ HostStep

\* The fairness each component's own module states and justifies: calls end at
\* their timers, promises settle, a handler that may go on does; nobody is made
\* to ask, to come online, to deploy or to fail.
Fairness ==
    /\ \A r \in {"r1", "r2"} : WF_intentVars(scenario = "two intents" /\ Intents!RunnerStep(r))
    /\ \A c \in {"c1", "c2"} : WF_gateVars(scenario = "provider gate" /\ Gate!HandlerStep(c))
    /\ \A t \in {"t1", "t2"} : WF_queueVars(scenario = "offline queue" /\ Queue!ReplayStep(t))
    /\ WF_edgeVars(scenario = "edge request" /\ Edge!Serve("q1"))
    /\ WF_catalogVars(scenario = "invocation catalog" /\ Catalog!Hydrate)
    /\ \A r \in {"q1", "q2"} : WF_catalogVars(scenario = "invocation catalog" /\ Catalog!Finish(r))
    /\ \A r \in {"q1", "q2"} : WF_catalogVars(scenario = "invocation catalog" /\ Catalog!Begin(r))
    /\ WF_merchantVars(scenario = "merchant panel" /\ Panel!cancelCheck)
    /\ WF_merchantVars(scenario = "merchant panel" /\ Panel!pageshow)
    /\ WF_merchantVars(scenario = "merchant panel" /\ \E c \in checks : c.aborted /\ Panel!CheckEnds(c))
    /\ WF_draftVars(scenario = "draft listing" /\ Draft!OpStep("t1"))
    /\ \A f \in 1 .. 3 : WF_probeVars(scenario = "readiness flights" /\ Probe!Timeout(f))
    /\ \A f \in 1 .. 3 : WF_probeVars(scenario = "readiness flights" /\ Probe!Verify(f))
    /\ WF_mergeVars(scenario = "merge agent" /\ Merge!Step)
    /\ WF_localFirstVars(scenario = "local-first release" /\ LocalFirst!Step)
    /\ WF_rendezvousVars(scenario = "host rendezvous" /\ Rendezvous!Step)
    /\ WF_rendezvousVars(scenario = "host rendezvous" /\ Rendezvous!Deadline)
    /\ WF_provisionVars(scenario = "sandbox provision" /\ Provision!Work("p1"))
    /\ \A r \in {"r1", "r2"} : WF_runVars(scenario = "device lane" /\ OnDevice!Step(r))
    /\ \A r \in {"r1", "r2"} : WF_hostVars(scenario = "local host" /\ Host!Step(r))
    /\ WF_hostVars(scenario = "local host" /\ Host!CloseEnds)

Spec == Init /\ [][Next]_vars /\ Fairness
-----------------------------------------------------------------------------
\* Every request of a service is answered: a dispatched intent settles
\* (IntentRoute), a call of a provider ends (ProviderGate), every request of
\* the edge (EdgeRequest), every one that awaits a hydration of the
\* catalogue, which recovers once the publisher answers again
\* (InvocationCatalog), every caller of a readiness flight (ListingProbe);
\* and the local host ends every request it accepted, frees its slot when the
\* client leaves, and completes its stop (LocalHost).
ServicesAnswer ==
    /\ (scenario = "two intents" => Intents!DispatchEnds)
    /\ (scenario = "provider gate" => Gate!CallsEnd)
    /\ (scenario = "edge request" => Edge!RequestsEnd)
    /\ (scenario = "invocation catalog" => Catalog!RequestsEnd)
    /\ (scenario = "invocation catalog" => Catalog!Recovers)
    /\ (scenario = "readiness flights" => Probe!EveryoneAnswered)
    /\ (scenario = "local host" => Host!LeavingFrees)
    /\ (scenario = "local host" => Host!EveryRequestEnds)
    /\ (scenario = "local host" => Host!StopCompletes)

\* Work that began ends: the replay of the offline queue while the page is
\* online (LocalStore), a check the merchant left or cancelled
\* (MerchantPage), an operation on a draft (DraftWorkspace), a run of the
\* merge agent (MergeAgent), a release (LocalFirstRelease), the rendezvous
\* with a host (HostRendezvous), a proof of the sandbox (SandboxProvision)
\* and every sandbox run (SandboxRun).
WorkEnds ==
    /\ (scenario = "offline queue" => Queue!ReplayEnds)
    /\ (scenario = "merchant panel" => Panel!CheckReturns)
    /\ (scenario = "draft listing" => Draft!OperationEnds)
    /\ (scenario = "merge agent" => Merge!RunEnds)
    /\ (scenario = "local-first release" => LocalFirst!ReleaseEnds)
    /\ (scenario = "host rendezvous" => Rendezvous!RendezvousEnds)
    /\ (scenario = "sandbox provision" => Provision!ProofEnds)
    /\ (scenario = "device lane" => OnDevice!RunsEnd)

=============================================================================
