----------------------------- MODULE EdgeRequest -----------------------------
(***************************************************************************)
(* A request of the edge Worker (src/edge/index.ts, readiness.ts, mcp.ts)  *)
(* from its first guard to its answer, against a core that is rolled out   *)
(* while the request waits.  A request keeps the environment of the edge   *)
(* version that accepted it; each call to the core is answered by the core *)
(* version of that moment.  Readiness reads the core twice, and the core   *)
(* reads the sandbox and the other dependencies in the course of it.       *)
(***************************************************************************)
EXTENDS Integers, FiniteSets

CONSTANTS
    None,
    Requests,
    Versions,     \* deployable versions: [id, cand, tag, lane, config]
    Sandboxes,    \* sandbox deployments: [cand, lane]
    Doors,        \* kinds of request of this instance
    Deps,         \* the core's other dependencies
    MaxDeploys, MaxFaults

Targets == {"registry", "intent", "prepare", "confirm", "operator_read", "operator_write"}
Creds == {"none", "agent", "operator", "session"}
Stages == {"arrived", "probing", "authorize", "call", "called", "done"}
Statuses == {"ok", "failed", "refused"}
Checks == Deps \cup {"registration_sandbox"}

\* What the edge holds of a request.
RequestRecord ==
    [pc : Stages, door : Doors, target : Targets, cred : Creds, claim : BOOLEAN, exact : BOOLEAN,
     ev : Versions, report : Versions \cup {None}, live : Versions \cup {None},
     left : SUBSET Checks, bad : SUBSET Checks, auth : Versions \cup {None},
     mode : Creds \cup {None}, status : Statuses \cup {None}, header : BOOLEAN,
     seen : SUBSET Versions]

\* What the core executed, by which version, authorised by which.
EffectRecord == [req : Requests, by : Versions, auth : Versions]

VersionAssumption ==
    /\ \A v \in Versions : v.lane \in {"Dev", "Staging", "Production"} /\ v.config \in BOOLEAN
    /\ MaxDeploys \in Nat /\ MaxFaults \in Nat
    /\ Doors \subseteq {"dashboard", "readyz", "route", "mcp", "mcp_operator"}
    /\ None \notin Versions /\ None \notin RequestRecord /\ None \notin Statuses

VARIABLES
    edge, core, sandbox,   \* the deployed versions
    dep,                   \* dependency -> does it answer as the core expects
    deploys, faults,
    req,                   \* what each request holds
    effects                \* core operations executed: [req, by, auth]

env == <<edge, core, sandbox, dep, deploys, faults>>
vars == <<edge, core, sandbox, dep, deploys, faults, req, effects>>

----------------------------------------------------------------------------
(* The route table and who may use it.                                      *)

\* routeToCore: the authority, whether a claim is required, the checkout action.
routeToCore(t) ==
    [authority |-> CASE t \in {"registry", "confirm"} -> "agent"
                     [] t = "intent" -> "storefront-read-or-agent"
                     [] t = "prepare" -> "session-or-agent"
                     [] OTHER -> "operator",
     claim    |-> t = "operator_write",
     checkout |-> IF t \in {"prepare", "confirm"} THEN t ELSE None]

\* The mode a request is served in, None when its credential is refused.
routeAuthorized(authority, cred) ==
    CASE authority = "operator" -> IF cred = "operator" THEN "operator" ELSE None
      [] authority = "agent"    -> IF cred = "agent" THEN "agent" ELSE None
      [] OTHER -> IF cred \in {"agent", "session"} THEN cred ELSE None

\* The tools each MCP profile registers.
registerAgentTools == {"registry", "intent", "prepare", "confirm"}
registerOperatorTools == {"operator_read", "operator_write"}

readAuthoringClaimHeaders(q) == q.claim

\* The lane, the secrets and the candidate of a version, one verdict per version.
operationalConfiguration(v) == v.config

----------------------------------------------------------------------------
(* Answers.  refused: a 4xx the edge or the core gave before doing          *)
(* anything; failed: a 5xx; ok: the core's own success.                     *)

End(q, status) == [q EXCEPT !.pc = "done", !.status = status]

\* The headers a dashboard answer carries.
X_attachRouteReadinessHeaders(q, ready) == [q EXCEPT !.header = ready, !.status = "ok"]
attachRouteReadinessHeaders(q, ready) == [End(q, "ok") EXCEPT !.header = ready]

NewRequest(door, t, cred, claim, exact) ==
    [pc |-> "arrived", door |-> door, target |-> t, cred |-> cred, claim |-> claim, exact |-> exact,
     ev |-> edge, report |-> None, live |-> None, left |-> {}, bad |-> {}, auth |-> None, mode |-> None,
     status |-> None, header |-> FALSE, seen |-> {}]

Arrive(r) ==
    /\ req[r] = None
    /\ \E door \in Doors, t \in Targets, cred \in Creds, claim \in BOOLEAN, exact \in BOOLEAN :
          \* inputs a door does not read are fixed
          /\ door \in {"dashboard", "readyz"} => t = "registry" /\ cred = "none" /\ ~claim
          /\ door # "dashboard" => exact
          /\ door = "route" /\ ~routeToCore(t).claim => ~claim
          /\ door = "mcp" => t \in registerAgentTools /\ ~claim
          /\ door = "mcp_operator" => t \in registerOperatorTools
          /\ req' = [req EXCEPT ![r] = NewRequest(door, t, cred, claim, exact)]
    /\ UNCHANGED <<env, effects>>

----------------------------------------------------------------------------
(* GET / under the production prefix: observeProductionRouteReadiness       *)

isExactProductionDeliveryRequest(q) == q.exact

ObserveGuard(q) ==
    /\ q.ev.lane = "Production"
    /\ isExactProductionDeliveryRequest(q)
    /\ operationalConfiguration(q.ev)
    /\ q.ev.tag = q.ev.cand

X_observeProductionRouteReadiness(r) ==
    /\ req[r] # None /\ req[r].pc = "arrived" /\ req[r].door = "dashboard"
    /\ ObserveGuard(req[r])
    /\ req' = [req EXCEPT ![r].pc = "probing"]
    /\ UNCHANGED <<env, effects>>
observeProductionRouteReadiness(r) ==
    /\ req[r] # None /\ req[r].pc = "arrived" /\ req[r].door = "dashboard"
    /\ req' = [req EXCEPT ![r] = IF ObserveGuard(@) THEN [@ EXCEPT !.pc = "probing"]
                                 ELSE attachRouteReadinessHeaders(@, FALSE)]
    /\ UNCHANGED <<env, effects>>

\* GET /readyz asks the core whatever the edge's own configuration says.
readinessResponse(r) ==
    /\ req[r] # None /\ req[r].pc = "arrived" /\ req[r].door = "readyz"
    /\ req' = [req EXCEPT ![r].pc = "probing"]
    /\ UNCHANGED <<env, effects>>

\* /internal/livez of the core that is serving.
CoreLivez(r) ==
    /\ req[r] # None /\ req[r].pc = "probing" /\ req[r].live = None
    /\ req' = [req EXCEPT ![r].live = core, ![r].seen = @ \cup {core}]
    /\ UNCHANGED <<env, effects>>

\* /internal/readyz: the report is of the core version that took the call, and
\* every check of readiness() is made at a time of its own.
CoreReadyz(r) ==
    /\ req[r] # None /\ req[r].pc = "probing" /\ req[r].report = None
    /\ req' = [req EXCEPT ![r].report = core, ![r].left = Checks, ![r].seen = @ \cup {core}]
    /\ UNCHANGED <<env, effects>>

probeRegistrationSandbox(v) == sandbox.lane = v.lane /\ sandbox.cand = v.cand

check(r) ==
    /\ req[r] # None /\ req[r].pc = "probing"
    /\ \E c \in req[r].left :
          LET ok == IF c = "registration_sandbox" THEN probeRegistrationSandbox(req[r].report) ELSE dep[c]
          IN  req' = [req EXCEPT ![r].left = @ \ {c}, ![r].bad = IF ok THEN @ ELSE @ \cup {c}]
    /\ UNCHANGED <<env, effects>>

\* Live release readiness is always blocked in the core, so its report is a 503
\* whose reason is the route being unknown, and ok is never true.
releaseCandidateConfiguration(v) == v.lane = "Production" => v.cand # None
SourceOk(q) == q.bad = {} /\ releaseCandidateConfiguration(q.report)
LiveReason(v) == IF v.lane = "Dev" THEN "delivery_route_unauthorized_in_dev" ELSE "delivery_route_live_unknown"
readiness(q) == [ok |-> FALSE, source |-> SourceOk(q), reason |-> LiveReason(q.report)]

coreStatusReflectsOnlyRouteUnknown(report) == ~report.ok /\ report.reason = "delivery_route_live_unknown"

readCoreReadiness(q) == /\ q.report.lane = "Production" /\ q.report.cand = q.ev.cand
                        /\ q.report.tag = q.ev.cand
                        /\ readiness(q).source
                        /\ coreStatusReflectsOnlyRouteUnknown(readiness(q))

readCoreLive(q) == q.live.lane = "Production" /\ q.live.cand = q.ev.cand /\ q.live.tag = q.ev.cand

X_sameVersion(left, right) == left.tag = right.tag
sameVersion(left, right) == left = right

ProbesDone(q) == q.pc = "probing" /\ q.live # None /\ q.report # None /\ q.left = {}

RouteVerdict(r) ==
    /\ req[r] # None /\ req[r].door = "dashboard" /\ ProbesDone(req[r])
    /\ req' = [req EXCEPT ![r] = attachRouteReadinessHeaders(@,
                  readCoreReadiness(@) /\ readCoreLive(@) /\ sameVersion(@.report, @.live))]
    /\ UNCHANGED <<env, effects>>

\* /readyz is ok only if the core's own report is, which the core never says.
ReadyzVerdict(r) ==
    /\ req[r] # None /\ req[r].door = "readyz" /\ ProbesDone(req[r])
    /\ req' = [req EXCEPT ![r] = End(@, IF /\ operationalConfiguration(@.ev)
                                           /\ @.live.cand = @.ev.cand
                                           /\ readiness(@).ok THEN "ok" ELSE "failed")]
    /\ UNCHANGED <<env, effects>>

\* Either fetch of the core may fail or time out.
ProbeFails(r) ==
    /\ req[r] # None /\ req[r].pc = "probing" /\ faults < MaxFaults
    /\ faults' = faults + 1
    /\ req' = [req EXCEPT ![r] = IF @.door = "dashboard" THEN attachRouteReadinessHeaders(@, FALSE)
                                 ELSE End(@, "failed")]
    /\ UNCHANGED <<edge, core, sandbox, dep, deploys, effects>>

----------------------------------------------------------------------------
(* Requests that go to the core.                                            *)

\* The fetch handler up to the capability authorisation.
AdmitRoute(r) ==
    /\ req[r] # None /\ req[r].pc = "arrived" /\ req[r].door = "route"
    /\ \E origin, body \in BOOLEAN :   \* originAllowed, readJsonObject
       LET q == req[r]
           route == routeToCore(q.target)
           mode == routeAuthorized(route.authority, q.cred)
       IN req' = [req EXCEPT ![r] =
              IF ~origin THEN End(@, "refused")
              ELSE IF ~operationalConfiguration(q.ev) THEN End(@, "failed")
              ELSE IF mode = None \/ (route.claim /\ ~readAuthoringClaimHeaders(q)) \/ ~body
              THEN End(@, "refused")
              ELSE [@ EXCEPT !.pc = "authorize", !.mode = mode]]
    /\ UNCHANGED <<env, effects>>

\* /mcp and /mcp/operator; a claimed tool without claim headers calls nothing.
handleMcpRequest(r) ==
    /\ req[r] # None /\ req[r].pc = "arrived" /\ req[r].door \in {"mcp", "mcp_operator"}
    /\ \E origin, body \in BOOLEAN :
       LET q == req[r]
           mode == IF q.door = "mcp" THEN "agent" ELSE "operator"
       IN req' = [req EXCEPT ![r] =
              IF ~origin THEN End(@, "refused")
              ELSE IF ~operationalConfiguration(q.ev) THEN End(@, "failed")
              ELSE IF q.cred # mode \/ (routeToCore(q.target).claim /\ ~readAuthoringClaimHeaders(q)) \/ ~body
              THEN End(@, "refused")
              ELSE [@ EXCEPT !.pc = "authorize", !.mode = mode]]
    /\ UNCHANGED <<env, effects>>

\* What the core asks of every call that is not a probe: the caller's candidate
\* and its digest are the core's own.
X_handleCoreRequest(q) == TRUE
handleCoreRequest(q) == core.cand = q.ev.cand

\* authorizeCoreAction, then the checkout guards of the handler and of
\* visualOnlyCheckout: an agent never prepares and nobody confirms here.
X_CheckoutRefused(q) == routeToCore(q.target).checkout = "confirm"
CheckoutRefused(q) ==
    LET action == routeToCore(q.target).checkout
    IN  \/ action = "confirm"
        \/ action = "prepare" /\ q.mode = "agent"

X_authorizeCoreAction(r) ==
    /\ req[r] # None /\ req[r].pc = "authorize"
    /\ req' = [req EXCEPT ![r].pc = "call"]
    /\ UNCHANGED <<env, effects>>
authorizeCoreAction(r) ==
    /\ req[r] # None /\ req[r].pc = "authorize"
    /\ req' = [req EXCEPT ![r] =
                  IF ~handleCoreRequest(@) THEN End(@, "refused")
                  ELSE IF ~dep["catalog"] THEN End(@, "failed")
                  ELSE IF CheckoutRefused(@) THEN End(@, "refused")
                  ELSE [@ EXCEPT !.pc = "call", !.auth = core]]
    /\ UNCHANGED <<env, effects>>

\* coreCall: the core's handler runs, and its answer may be lost or late.
coreCall(r) ==
    /\ req[r] # None /\ req[r].pc = "call"
    /\ \/ /\ ~handleCoreRequest(req[r])
          /\ req' = [req EXCEPT ![r] = End(@, "refused")]
          /\ UNCHANGED <<effects, faults>>
       \/ /\ handleCoreRequest(req[r])
          /\ effects' = effects \cup {[req |-> r, by |-> core, auth |-> req[r].auth]}
          /\ \/ req' = [req EXCEPT ![r].pc = "called"] /\ UNCHANGED faults
             \/ /\ faults < MaxFaults /\ faults' = faults + 1
                /\ req' = [req EXCEPT ![r] = End(@, "failed")]
    /\ UNCHANGED <<edge, core, sandbox, dep, deploys>>

CallFails(r) ==
    /\ req[r] # None /\ req[r].pc \in {"authorize", "call"} /\ faults < MaxFaults
    /\ faults' = faults + 1
    /\ req' = [req EXCEPT ![r] = End(@, "failed")]
    /\ UNCHANGED <<edge, core, sandbox, dep, deploys, effects>>

\* A prepared checkout is answered with a confirmation proof, or as a failure
\* when the proof cannot be issued: the checkout stays prepared.
X_issueProof(r) ==
    /\ req[r] # None /\ req[r].pc = "called"
    /\ \E status \in IF req[r].target = "prepare" THEN {"ok", "refused"} ELSE {"ok"} :
          req' = [req EXCEPT ![r] = End(@, status)]
    /\ UNCHANGED <<env, effects>>
issueProof(r) ==
    /\ req[r] # None /\ req[r].pc = "called"
    /\ \E status \in IF req[r].target = "prepare" THEN {"ok", "failed"} ELSE {"ok"} :
          req' = [req EXCEPT ![r] = End(@, status)]
    /\ UNCHANGED <<env, effects>>

----------------------------------------------------------------------------
(* Rollouts and dependencies, external to the two Workers.                  *)

Deploy ==
    /\ deploys < MaxDeploys /\ deploys' = deploys + 1
    /\ \/ \E v \in Versions \ {edge} : edge' = v /\ UNCHANGED <<core, sandbox>>
       \/ \E v \in Versions \ {core} : core' = v /\ UNCHANGED <<edge, sandbox>>
       \/ \E s \in Sandboxes \ {sandbox} : sandbox' = s /\ UNCHANGED <<edge, core>>
    /\ UNCHANGED <<dep, faults, req, effects>>

Disturb ==
    /\ faults < MaxFaults /\ faults' = faults + 1
    /\ \E d \in Deps : dep' = [dep EXCEPT ![d] = ~@]
    /\ UNCHANGED <<edge, core, sandbox, deploys, req, effects>>

----------------------------------------------------------------------------
Init ==
    /\ edge \in Versions /\ core \in Versions /\ sandbox \in Sandboxes
    /\ dep = [d \in Deps |-> TRUE]
    /\ deploys = 0 /\ faults = 0
    /\ req = [r \in Requests |-> None]
    /\ effects = {}

Serve(r) ==
    \/ observeProductionRouteReadiness(r) \/ readinessResponse(r)
    \/ CoreLivez(r) \/ CoreReadyz(r) \/ check(r) \/ RouteVerdict(r) \/ ReadyzVerdict(r)
    \/ AdmitRoute(r) \/ handleMcpRequest(r)
    \/ authorizeCoreAction(r) \/ coreCall(r) \/ issueProof(r)

Next == \/ \E r \in Requests : Arrive(r) \/ Serve(r) \/ ProbeFails(r) \/ CallFails(r)
        \/ Deploy \/ Disturb

(* Every fetch of the core carries an abort signal, so a request goes on.   *)
Spec == Init /\ [][Next]_vars /\ \A r \in Requests : WF_vars(Serve(r))

----------------------------------------------------------------------------
(* The type invariant.                                                      *)
TypeOK ==
    /\ edge \in Versions /\ core \in Versions /\ sandbox \in Sandboxes
    /\ deploys \in 0..MaxDeploys /\ faults \in 0..MaxFaults
    /\ req \in [Requests -> RequestRecord \cup {None}]
    /\ effects \subseteq EffectRecord
    /\ \A r \in Requests : req[r] # None =>
          /\ req[r].pc = "done" <=> req[r].status # None
          /\ req[r].pc \in {"call", "called"} => req[r].auth # None
    /\ \A e \in effects : req[e.req] # None

(* A dashboard answered "ready" was served by one release: one core version *)
(* took both probes, its candidate and tag are the edge's, every check of   *)
(* that core passed, whatever was rolled out between the reads.             *)
ReadyIsOneRelease ==
    \A r \in Requests :
        (req[r] # None /\ req[r].header) =>
            LET q == req[r]
            IN  /\ q.seen = {q.report}
                /\ q.report.cand = q.ev.cand /\ q.report.tag = q.ev.tag
                /\ q.ev.lane = "Production" /\ q.report.lane = "Production"
                /\ q.bad = {}

(* Nothing the core executes for the edge mixes two releases: the edge that *)
(* asked, the core that authorised and the core that executed have one      *)
(* candidate, although a rollout may pass between any two of the steps.     *)
EffectsAreOneRelease ==
    \A e \in effects : /\ e.by.cand = req[e.req].ev.cand
                       /\ e.auth.cand = e.by.cand

(* A request that was refused changed nothing in the core, and one that was *)
(* answered ok was executed once; only a failure leaves it open.            *)
RefusalDidNothing ==
    \A r \in Requests :
        (req[r] # None /\ req[r].pc = "done" /\ req[r].door \notin {"dashboard", "readyz"}) =>
            /\ req[r].status = "refused" => ~\E e \in effects : e.req = r
            /\ req[r].status = "ok" => Cardinality({e \in effects : e.req = r}) = 1

(* Through no door does an agent's or a route's request confirm a checkout, *)
(* and only a shopper's session prepares one.                               *)
CheckoutsAreVisual ==
    \A e \in effects : /\ req[e.req].target # "confirm"
                       /\ req[e.req].target = "prepare" => req[e.req].cred = "session"

(* Every request is answered.                                               *)
RequestsEnd == \A r \in Requests : (req[r] # None) ~> (req[r] # None /\ req[r].pc = "done")
=============================================================================
