---------------------------- MODULE IntentRoute -----------------------------
(***************************************************************************)
(* Routing and dispatch of an intent: the routeIntent handler of the core  *)
(* Worker, the route table of the AgentRegistry object, one IntentRoute    *)
(* object per intent, and the MCP session in which a discovery tool is     *)
(* called.                                                                 *)
(*                                                                         *)
(* routeIntent reads the theme, the registry, the route, and the registry  *)
(* again, each in a call of its own; registry and theme change in between. *)
(* The object stores `dispatching' before it calls anybody, and an object  *)
(* that restarts loses the handler but not the row.  A provider may act on *)
(* a call after the deadline has passed.                                   *)
(***************************************************************************)
EXTENDS CategoryRouter, Sequences

CONSTANTS
    Requests,        \* POST /v1/intents/route requests, retries included
    intent,          \* what a request asks: [id, category, listing, wellFormed]
    Agents,          \* agent identifiers, as integers
    agentFacts,      \* the admitted facts: [category, fallback, attributes]
    weights,         \* the selection policy
    NoListing,       \* an intent without a merchant's listing
    NoTheme,         \* no theme deployed
    MaxChanges,      \* bound: changes of registry and theme
    MaxRestarts      \* bound: restarts of an IntentRoute object

IntentAssumption ==
    /\ intent \in [Requests -> [id : Nat, category : Nat,
                                listing : Agents \cup {NoListing}, wellFormed : BOOLEAN]]
    /\ Agents \subseteq Nat /\ IsFiniteSet(Agents) /\ NoAgent \notin Agents
    /\ weights \in [Attributes -> Int]
    /\ agentFacts \in [Agents -> [category : Nat, fallback : Agents \cup {NoAgent},
                                  attributes : [Attributes -> Nat]]]
    /\ \A a \in Agents : agentFacts[a].fallback # a
    /\ MaxChanges \in Nat /\ MaxRestarts \in Nat

Ids == {intent[r].id : r \in Requests}
Roles == {"selected", "fallback"}

VARIABLES
    registry,        \* agent_admission: the stored agents and their records
    theme,           \* resolvedCatalogScope of the merchant's current theme
    changes,
    routeEvent,      \* route_event: the decision stored for an intent
    row,             \* intent_dispatch of each IntentRoute object
    pc,              \* where the handler of a request is
    local,           \* its local variables
    answer,          \* what the client got
    calls,           \* tools/call requests that left: request, intent, role, agent
    executed,        \* those the provider has acted on
    restarts

vars == <<registry, theme, changes, routeEvent, row, pc, local, answer, calls,
          executed, restarts>>
worldVars == <<registry, theme, changes>>

Id(r) == intent[r].id
Running == {"evidence", "initialize", "call", "await", "close", "settle"}

\* A stored agent: the admitted facts, the state, and a revision that stands
\* for the timestamps of the record.
Record(a, active, revision) ==
    [category |-> agentFacts[a].category, fallback |-> agentFacts[a].fallback,
     attributes |-> agentFacts[a].attributes, active |-> active,
     admissionVerified |-> TRUE, revision |-> revision]

\* No row in route_event, no row in intent_dispatch.
NoEvent == [digest |-> <<>>, decision |-> NoDispatch("none")]
NoRow == [digest |-> <<>>, agent |-> NoAgent, state |-> "absent", attempts |-> <<>>]

NoCall == [scope |-> {}, authority |-> NoAuthority, decision |-> NoDispatch("none"),
           prior |-> NoEvent, agent |-> NoAgent, fallback |-> NoAgent, digest |-> <<>>,
           role |-> "selected", reply |-> "none", aborted |-> FALSE, attempts |-> <<>>]

Init ==
    /\ registry = [a \in Agents |-> Record(a, TRUE, 0)]
    /\ theme \in {Agents, NoTheme}
    /\ changes = 0
    /\ routeEvent = [i \in Ids |-> NoEvent]
    /\ row = [i \in Ids |-> NoRow]
    /\ pc = [r \in Requests |-> "start"]
    /\ local = [r \in Requests |-> NoCall]
    /\ answer = [r \in Requests |-> "none"]
    /\ calls = {}
    /\ executed = {}
    /\ restarts = 0

Goto(r, label) == pc' = [pc EXCEPT ![r] = label] /\ UNCHANGED answer
Respond(r, code) == pc' = [pc EXCEPT ![r] = "done"] /\ answer' = [answer EXCEPT ![r] = code]
-----------------------------------------------------------------------------
\* The world: an agent is registered or deregistered, a theme is activated.
ChangeRegistry(a) ==
    /\ changes < MaxChanges
    /\ registry' = [registry EXCEPT ![a] = Record(a, ~@.active, @.revision + 1)]
    /\ changes' = changes + 1
    /\ UNCHANGED <<theme, routeEvent, row, pc, local, answer, calls, executed, restarts>>

ChangeTheme(scope) ==
    /\ changes < MaxChanges
    /\ scope # theme
    /\ theme' = scope
    /\ changes' = changes + 1
    /\ UNCHANGED <<registry, routeEvent, row, pc, local, answer, calls, executed, restarts>>
-----------------------------------------------------------------------------
\* routeIntent: the body is read and the policy; an intent with a listing
\* needs the theme of its merchant.
Receive(r) ==
    /\ pc[r] = "start"
    /\ IF ~intent[r].wellFormed THEN Respond(r, "intent_malformed") /\ UNCHANGED local
       ELSE IF ~ReadSelectionPolicy(weights)
            THEN Respond(r, "selection_policy_invalid") /\ UNCHANGED local
       ELSE IF intent[r].listing = NoListing THEN Goto(r, "route") /\ UNCHANGED local
       ELSE IF theme = NoTheme
            THEN Respond(r, "theme_deployment_not_found") /\ UNCHANGED local
       ELSE local' = [local EXCEPT ![r].scope = theme] /\ Goto(r, "target")
    /\ UNCHANGED <<worldVars, routeEvent, row, calls, executed, restarts>>

\* resolveMerchantRouteTarget, after the registry answered.
ResolveTarget(r) ==
    LET listing == intent[r].listing
        category == intent[r].category
        scope == local[r].scope
    IN  /\ pc[r] = "target"
        /\ IF listing \notin MerchantListings(registry, scope)
           THEN Respond(r, "listing_not_found") /\ UNCHANGED local
           ELSE IF registry[listing].category # category
           THEN Respond(r, "merchant_listing_category_mismatch") /\ UNCHANGED local
           ELSE /\ local' = [local EXCEPT ![r].authority =
                      [pinned |-> listing,
                       fallback |-> ResolveEligibleMerchantFallback(registry, listing,
                                                                    category, scope)]]
                /\ Goto(r, "route")
        /\ UNCHANGED <<worldVars, routeEvent, row, calls, executed, restarts>>

\* AgentRegistry.route up to its last await: the decision on the registry of
\* now, and the row of the intent as it is now.
RouteRead(r) ==
    /\ pc[r] = "route"
    /\ local' = [local EXCEPT
          ![r].decision = RouteIntentExclusively(registry, intent[r].category, weights,
                                                 local[r].authority),
          ![r].prior = routeEvent[Id(r)]]
    /\ Goto(r, "decide")
    /\ UNCHANGED <<worldVars, routeEvent, row, calls, executed, restarts>>

RouteDigest(r) == <<intent[r], local[r].authority>>

\* What routeIntent does with the decision it gets.
FollowDecision(r) ==
    LET decision == local[r].decision
        authority == local[r].authority
    IN  IF decision.status # "dispatch" THEN Respond(r, "no-dispatch")
        ELSE IF authority # NoAuthority
                /\ <<decision.agent, decision.fallback>> # <<authority.pinned, authority.fallback>>
             THEN Respond(r, "registry_route_drift")
        ELSE Goto(r, "list")

\* Mutant: a decision made meanwhile is replaced.
RouteCommit_Replaces(r) ==
    /\ pc[r] = "decide"
    /\ routeEvent' = [routeEvent EXCEPT ![Id(r)] =
          [digest |-> RouteDigest(r), decision |-> local[r].decision]]
    /\ FollowDecision(r)
    /\ UNCHANGED <<worldVars, row, local, calls, executed, restarts>>

\* AgentRegistry.route after its last await.  A stored decision is compared;
\* without one it is inserted, which fails if another call inserted it.
RouteCommit(r) ==
    LET prior == local[r].prior
    IN  /\ pc[r] = "decide"
        /\ \/ /\ prior # NoEvent /\ prior.digest # RouteDigest(r)
              /\ Respond(r, "intent_precondition_failed") /\ UNCHANGED routeEvent
           \/ /\ prior # NoEvent /\ prior.digest = RouteDigest(r)
              /\ prior.decision # local[r].decision
              /\ Respond(r, "intent_registration_drift") /\ UNCHANGED routeEvent
           \/ /\ prior # NoEvent /\ prior.digest = RouteDigest(r)
              /\ prior.decision = local[r].decision
              /\ FollowDecision(r) /\ UNCHANGED routeEvent
           \/ /\ prior = NoEvent /\ routeEvent[Id(r)] # NoEvent
              /\ Respond(r, "error") /\ UNCHANGED routeEvent
           \/ /\ prior = NoEvent /\ routeEvent[Id(r)] = NoEvent
              /\ routeEvent' = [routeEvent EXCEPT ![Id(r)] =
                    [digest |-> RouteDigest(r), decision |-> local[r].decision]]
              /\ FollowDecision(r)
        /\ UNCHANGED <<worldVars, row, local, calls, executed, restarts>>

\* routeIntent after registry.list: both agents must still be eligible, and
\* their records are what is dispatched.
List(r) ==
    LET decision == local[r].decision
        eligible(a) == Eligible(registry, a, intent[r].category)
        record(a) == IF a = NoAgent THEN NoAgent ELSE <<a, registry[a]>>
    IN  /\ pc[r] = "list"
        /\ IF ~eligible(decision.agent)
                \/ (decision.fallback # NoAgent /\ ~eligible(decision.fallback))
           THEN Respond(r, "registry_route_drift") /\ UNCHANGED local
           ELSE /\ local' = [local EXCEPT
                      ![r].agent = decision.agent, ![r].fallback = decision.fallback,
                      ![r].digest = <<intent[r], record(decision.agent),
                                      record(decision.fallback)>>]
                /\ Goto(r, "dispatch")
        /\ UNCHANGED <<worldVars, routeEvent, row, calls, executed, restarts>>
-----------------------------------------------------------------------------
\* Mutant: an unsettled row is dispatched again.
DispatchRow_Redispatches(r) ==
    LET prior == row[Id(r)]
    IN  /\ pc[r] = "dispatch"
        /\ IF prior # NoRow /\ prior.state = "completed"
           THEN Respond(r, "completed") /\ UNCHANGED row
           ELSE /\ row' = [row EXCEPT ![Id(r)] =
                      [digest |-> local[r].digest, agent |-> local[r].agent,
                       state |-> "dispatching", attempts |-> <<>>]]
                /\ Goto(r, "evidence")
        /\ UNCHANGED <<worldVars, routeEvent, local, calls, executed, restarts>>

\* IntentRoute.dispatch after the digests: the row is read and inserted
\* without a gap; an existing row is the answer (priorDispatchResult).
DispatchRow(r) ==
    LET prior == row[Id(r)]
    IN  /\ pc[r] = "dispatch"
        /\ IF prior = NoRow
           THEN /\ row' = [row EXCEPT ![Id(r)] =
                      [digest |-> local[r].digest, agent |-> local[r].agent,
                       state |-> "dispatching", attempts |-> <<>>]]
                /\ Goto(r, "evidence")
           ELSE /\ UNCHANGED row
                /\ Respond(r, IF prior.digest # local[r].digest
                              THEN "intent_dispatch_precondition_failed"
                              ELSE IF prior.state = "completed" THEN "completed"
                              ELSE "dispatch_result_unknown")
        /\ UNCHANGED <<worldVars, routeEvent, local, calls, executed, restarts>>

Target(r) == IF local[r].role = "selected" THEN local[r].agent ELSE local[r].fallback
Call(r) == [request |-> r, id |-> Id(r), role |-> local[r].role, agent |-> Target(r)]

\* What an attempt can end with: a tool result, a timer, the error of a tool,
\* an error of the session or its envelope, evidence that blocks, and an error
\* in the provider's own words, which may speak of a timeout.
Errors == {"toolError", "mcpError", "saysTimeout"}

\* classifyProviderFailure goes by the words of the error.
ClassifyProviderFailure(reply) ==
    CASE reply \in {"timer", "saysTimeout"} -> "discovery_timeout"
      [] reply = "evidence" -> "discovery_provider_evidence_blocked"
      [] reply = "toolError" -> "discovery_tool_failed"
      [] reply = "mcpError" -> "discovery_mcp_failed"
      [] OTHER -> "discovery_result_unknown"

\* A failed step ends the attempt; after the session was opened it is closed
\* first.
Fail(r, reply, label) ==
    /\ local' = [local EXCEPT ![r].reply = reply]
    /\ Goto(r, label)

\* discoveryOperationalEvidence: has its own limit, and its failures are not
\* timeouts.
Evidence(r) ==
    /\ pc[r] = "evidence"
    /\ \/ Goto(r, "initialize") /\ UNCHANGED local
       \/ Fail(r, "evidence", "settle")
    /\ UNCHANGED <<worldVars, routeEvent, row, calls, executed, restarts>>

\* initialize and the notification.  A request under an aborted signal does
\* not leave.
Initialize(r) ==
    /\ pc[r] = "initialize"
    /\ \/ ~local[r].aborted /\ Goto(r, "call") /\ UNCHANGED local
       \/ ~local[r].aborted /\ \E e \in {"mcpError", "saysTimeout"} : Fail(r, e, "settle")
       \/ Fail(r, "timer", "settle")
    /\ UNCHANGED <<worldVars, routeEvent, row, calls, executed, restarts>>

\* postRpc of tools/call: the request is bound to the evidence, then sent.
SendCall(r) ==
    /\ pc[r] = "call"
    /\ \/ /\ ~local[r].aborted
          /\ calls' = calls \cup {Call(r)}
          /\ Goto(r, "await") /\ UNCHANGED local
       \/ ~local[r].aborted /\ Fail(r, "mcpError", "close") /\ UNCHANGED calls
       \/ local[r].aborted /\ Fail(r, "timer", "close") /\ UNCHANGED calls
    /\ UNCHANGED <<worldVars, routeEvent, row, executed, restarts>>

\* The provider acts on a call: before the answer, or when nobody waits.
ProviderExecutes(c) ==
    /\ c \in calls \ executed
    /\ executed' = executed \cup {c}
    /\ UNCHANGED <<worldVars, routeEvent, row, pc, local, answer, calls, restarts>>

\* Mutant: an error result of the tool is taken for its result.
AwaitAnswer_ErrorIsResult(r) ==
    /\ pc[r] = "await"
    /\ ~local[r].aborted /\ Fail(r, "result", "close")
    /\ UNCHANGED <<worldVars, routeEvent, row, calls, executed, restarts>>

\* Mutant: the tool call has no limit.
AwaitAnswer_NoLimit(r) ==
    /\ pc[r] = "await"
    /\ Call(r) \in executed /\ Fail(r, "result", "close")
    /\ UNCHANGED <<worldVars, routeEvent, row, calls, executed, restarts>>

\* The answer: a tool result needs the provider to have acted, an error and a
\* timeout do not tell.
AwaitAnswer(r) ==
    /\ pc[r] = "await"
    /\ \/ Call(r) \in executed /\ ~local[r].aborted /\ Fail(r, "result", "close")
       \/ ~local[r].aborted /\ \E e \in Errors : Fail(r, e, "close")
       \/ Fail(r, "timer", "close")
    /\ UNCHANGED <<worldVars, routeEvent, row, calls, executed, restarts>>

\* close: best effort, its failure is swallowed.
CloseSession(r) ==
    /\ pc[r] = "close"
    /\ Goto(r, "settle")
    /\ UNCHANGED <<worldVars, routeEvent, row, local, calls, executed, restarts>>

\* The signal of the attempt: DISCOVERY_DISPATCH_DEADLINE_MS.
Deadline(r) ==
    /\ pc[r] \in Running /\ ~local[r].aborted
    /\ local' = [local EXCEPT ![r].aborted = TRUE]
    /\ UNCHANGED <<worldVars, routeEvent, row, pc, answer, calls, executed, restarts>>

\* #dispatchAgent after the call: normalizeDiscoveryReceipt and the pinned
\* revision may refuse the result, a late result is a timeout.
Outcome(r, receiptValid) ==
    LET reply == IF local[r].reply # "result" THEN local[r].reply
                 ELSE IF ~receiptValid THEN "receipt"
                 ELSE IF local[r].aborted THEN "timer" ELSE "result"
    IN  IF reply = "result" THEN "completed"
        ELSE IF ClassifyProviderFailure(reply) = "discovery_timeout" THEN "timeout" ELSE "failed"

\* Mutant: only a result is stored, a failure is only answered.
WriteOutcome_OnlyCompleted(r, state, attempts) ==
    row' = [row EXCEPT ![Id(r)] =
              IF @.state = "dispatching" /\ state = "completed"
              THEN [@ EXCEPT !.state = state, !.agent = Target(r), !.attempts = attempts]
              ELSE @]

\* Mutant: the outcome of the attempt is stored as the state.
WriteOutcome_StoresOutcome(r, state, attempts) ==
    row' = [row EXCEPT ![Id(r)].state = attempts[Len(attempts)][2],
                       ![Id(r)].attempts = attempts]

\* #complete and #fail: a row that is no longer `dispatching' is left alone.
WriteOutcome(r, state, attempts) ==
    row' = [row EXCEPT ![Id(r)] =
              IF @.state = "dispatching"
              THEN [@ EXCEPT !.state = state, !.agent = Target(r), !.attempts = attempts]
              ELSE @]

\* dispatchSelectedWithFallback: the fallback is tried once, under a signal of
\* its own, and only after one of the outcomes that lead to it.
SettleAttempt(r, leadToFallback) ==
    \E receiptValid \in BOOLEAN :
        LET outcome == Outcome(r, receiptValid)
            attempts == Append(local[r].attempts, <<Target(r), outcome>>)
            retry == /\ outcome \in leadToFallback
                     /\ local[r].role = "selected"
                     /\ local[r].fallback # NoAgent
        IN  /\ pc[r] = "settle"
            /\ \/ /\ outcome = "completed"
                  /\ WriteOutcome(r, "completed", attempts)
                  /\ Respond(r, "completed") /\ UNCHANGED local
               \/ /\ retry
                  /\ local' = [local EXCEPT ![r].role = "fallback", ![r].reply = "none",
                                            ![r].aborted = FALSE, ![r].attempts = attempts]
                  /\ Goto(r, "evidence") /\ UNCHANGED row
               \/ /\ outcome # "completed" /\ ~retry
                  /\ WriteOutcome(r, "unknown", attempts)
                  /\ Respond(r, "unknown") /\ UNCHANGED local
            /\ UNCHANGED <<worldVars, routeEvent, calls, executed, restarts>>

\* Mutant: any failure of the selected agent leads to the fallback.
Settle_AlwaysFallsBack(r) == SettleAttempt(r, {"timeout", "failed"})

Settle(r) == SettleAttempt(r, {"timeout"})

\* The object of an intent is evicted: its handlers end without an answer,
\* the row and the calls already sent remain.
Restart(i) ==
    /\ restarts < MaxRestarts
    /\ \E r \in Requests : Id(r) = i /\ pc[r] \in Running
    /\ restarts' = restarts + 1
    /\ pc' = [r \in Requests |-> IF Id(r) = i /\ pc[r] \in Running THEN "done" ELSE pc[r]]
    /\ answer' = [r \in Requests |-> IF Id(r) = i /\ pc[r] \in Running THEN "error" ELSE answer[r]]
    /\ UNCHANGED <<worldVars, routeEvent, row, local, calls, executed>>
-----------------------------------------------------------------------------
RunnerStep(r) ==
    \/ Evidence(r) \/ Initialize(r) \/ SendCall(r) \/ AwaitAnswer(r)
    \/ CloseSession(r) \/ Settle(r)

Next ==
    \/ \E a \in Agents : ChangeRegistry(a)
    \/ \E scope \in SUBSET Agents : ChangeTheme(scope)
    \/ \E r \in Requests :
          \/ Receive(r) \/ ResolveTarget(r) \/ RouteRead(r) \/ RouteCommit(r)
          \/ List(r) \/ DispatchRow(r) \/ RunnerStep(r) \/ Deadline(r)
    \/ \E c \in calls : ProviderExecutes(c)
    \/ \E i \in Ids : Restart(i)

Spec == Init /\ [][Next]_vars

\* Every fetch of the handler is bounded by a timer and every other step is
\* local: a handler that is not evicted goes on.
FairSpec == Spec /\ \A r \in Requests : WF_vars(RunnerStep(r))
-----------------------------------------------------------------------------
Decisions == [status : {"dispatch", "no-dispatch"},
              reason : {"none", "unmatched-category", "registry-conflict"},
              agent : Agents \cup {NoAgent}, fallback : Agents \cup {NoAgent}]

TypeOK ==
    /\ DOMAIN registry = Agents
    /\ theme \in (SUBSET Agents) \cup {NoTheme}
    /\ \A i \in Ids : routeEvent[i] # NoEvent => routeEvent[i].decision \in Decisions
    /\ \A i \in Ids : row[i] # NoRow =>
          /\ row[i].state \in {"dispatching", "completed", "unknown"}
          /\ row[i].agent \in Agents
          /\ Len(row[i].attempts) <= 2
    /\ pc \in [Requests -> Running \cup {"start", "target", "route", "decide", "list",
                                         "dispatch", "done"}]
    /\ calls \subseteq [request : Requests, id : Ids, role : Roles, agent : Agents]
    /\ executed \subseteq calls

\* docs/runtime-api.md: an intent is dispatched to "at most one eligible agent,
\* then at most one fallback", whatever the retries, races and restarts.
OneCallPerRole ==
    \A c, d \in calls : c.id = d.id /\ c.role = d.role => c = d

\* The fallback is called only after an attempt that ended as a timeout: a
\* timer, or an error that speaks of one.  A refusal, an invalid receipt or
\* blocked evidence of the selected agent is final.
FallbackAfterTimeout ==
    \A c \in calls : c.role = "fallback" =>
        /\ local[c.request].attempts[1] = <<local[c.request].agent, "timeout">>
        /\ row[c.id].state # "dispatching" =>
              Len(row[c.id].attempts) = 2 /\ row[c.id].attempts[1][2] = "timeout"

\* Two requests of one intent race through a registry that changes: only the
\* agents of the one stored decision are ever called, in their roles.
OnlyDecidedAgents ==
    \A c \in calls :
        /\ routeEvent[c.id] # NoEvent
        /\ c.agent = IF c.role = "selected" THEN routeEvent[c.id].decision.agent
                     ELSE routeEvent[c.id].decision.fallback

\* An intent with a merchant's listing calls only agents of the catalogue
\* scope its request read, the fallback included, though the theme changes.
MerchantScopeKept ==
    \A c \in calls : intent[c.request].listing # NoListing => c.agent \in local[c.request].scope

\* A row is `completed' only with the agent whose tool the provider ran, and a
\* client is only told so then.
CompletedMeansExecuted ==
    /\ \A i \in Ids : row[i] # NoRow /\ row[i].state = "completed" =>
          \E c \in executed : c.id = i /\ c.agent = row[i].agent
    /\ \A r \in Requests : answer[r] = "completed" => row[Id(r)].state = "completed"

\* A row stays `dispatching' without a handler only after a restart: a handler
\* that loses a race or fails never abandons the row it inserted.
OrphanOnlyAfterRestart ==
    \A i \in Ids : row[i] # NoRow /\ row[i].state = "dispatching" =>
        restarts > 0 \/ \E r \in Requests : Id(r) = i /\ pc[r] \in Running

\* Every dispatch that is not interrupted ends: selected agent, fallback, and
\* the result is stored.
DispatchEnds == \A r \in Requests : pc[r] \in Running ~> pc[r] = "done"
-----------------------------------------------------------------------------
\* What makes the above inductive.  The tables and the locals keep their
\* fields, and the registry holds the admitted facts.
Authorities == [pinned : Agents \cup {NoAgent}, fallback : Agents \cup {NoAgent}]

WellFormed ==
    /\ DOMAIN routeEvent = Ids /\ DOMAIN row = Ids
    /\ DOMAIN local = Requests /\ DOMAIN answer = Requests
    /\ \A i \in Ids : DOMAIN routeEvent[i] = DOMAIN NoEvent /\ DOMAIN row[i] = DOMAIN NoRow
    /\ \A r \in Requests :
          /\ DOMAIN local[r] = DOMAIN NoCall
          /\ local[r].authority \in Authorities /\ local[r].decision \in Decisions
          /\ local[r].role \in Roles
    /\ \A a \in Agents :
          /\ registry[a].active \in BOOLEAN /\ registry[a].revision \in Nat
          /\ registry[a] = Record(a, registry[a].active, registry[a].revision)
    /\ restarts \in Nat /\ changes \in Nat

\* The decision a request follows is the stored one, and the one its merchant
\* pinned: the stored decision of an intent never changes.
Decided(r) ==
    /\ pc[r] = "decide" /\ local[r].prior # NoEvent => routeEvent[Id(r)] = local[r].prior
    /\ pc[r] \in {"route", "decide", "list", "dispatch"} \cup Running
          /\ intent[r].listing # NoListing =>
          /\ local[r].authority.pinned = intent[r].listing
          /\ intent[r].listing \in Agents \cap local[r].scope
          /\ local[r].authority.fallback \in local[r].scope \cup {NoAgent}
    /\ pc[r] \in {"list", "dispatch"} \cup Running =>
          /\ routeEvent[Id(r)] # NoEvent /\ routeEvent[Id(r)].decision = local[r].decision
          /\ local[r].authority # NoAuthority =>
                /\ local[r].decision.agent = local[r].authority.pinned
                /\ local[r].decision.fallback = local[r].authority.fallback
    /\ pc[r] \in {"dispatch"} \cup Running =>
          /\ local[r].agent \in Agents /\ local[r].agent = local[r].decision.agent
          /\ local[r].fallback = local[r].decision.fallback

\* A handler that runs owns the row of its intent, alone; before it runs it
\* has tried nobody, then the selected agent, then, after a timeout, the
\* fallback.
Owns(r) ==
    /\ pc[r] \notin Running \cup {"done"} =>
          local[r].role = "selected" /\ local[r].attempts = <<>>
    /\ pc[r] \in Running =>
          /\ row[Id(r)].state = "dispatching"
          /\ \A q \in Requests : pc[q] \in Running /\ Id(q) = Id(r) => q = r
          /\ IF local[r].role = "selected" THEN local[r].attempts = <<>>
             ELSE /\ local[r].fallback # NoAgent
                  /\ local[r].attempts = <<<<local[r].agent, "timeout">>>>
    /\ pc[r] \in {"close", "settle"} /\ local[r].reply = "result" => Call(r) \in executed

\* A call is remembered by the handler that made it, which nobody else can
\* follow on the same row, and which never makes it again.
Remembered(c) ==
    /\ c.id = Id(c.request) /\ pc[c.request] \in Running \cup {"done"}
    /\ row[c.id] # NoRow
    /\ c.agent = IF c.role = "selected" THEN local[c.request].agent ELSE local[c.request].fallback
    /\ \A q \in Requests : pc[q] \in Running /\ Id(q) = c.id => q = c.request
    /\ \A d \in calls : d.id = c.id => d.request = c.request
    /\ c.role = "fallback" => local[c.request].role = "fallback"
    /\ pc[c.request] \in {"evidence", "initialize", "call"} => c.role # local[c.request].role

IntentInv ==
    /\ TypeOK
    /\ WellFormed
    /\ \A r \in Requests : Decided(r) /\ Owns(r)
    /\ \A c \in calls : Remembered(c)
    /\ FallbackAfterTimeout
    /\ OnlyDecidedAgents
    /\ MerchantScopeKept
    /\ CompletedMeansExecuted
    /\ OrphanOnlyAfterRestart
=============================================================================
