-------------------------- MODULE IntentRouteProofs --------------------------
(***************************************************************************)
(* The routing decision, for every registry and every weighting, and the   *)
(* dispatch of intents: IntentInv is inductive, so an intent calls at most *)
(* one agent and then one fallback, those of its stored decision, whatever *)
(* retries race and whatever handlers are evicted.                         *)
(***************************************************************************)
EXTENDS IntentRoute, FiniteSetTheorems, WellFoundedInduction, TLAPS

\* A set of naturals has a least element.
LEMMA LeastOfNaturals ==
    ASSUME NEW S, S \subseteq Nat, S # {}
    PROVE  \E x \in S : \A y \in S : x <= y
<1> DEFINE Less == {p \in Nat \X Nat : p[1] < p[2]}
<1>1. IsWellFoundedOn(Less, Nat)
  BY NatLessThanWellFounded, Zenon DEF OpToRel
<1>2. PICK x \in S : \A y \in S : ~ (<<y, x>> \in Less)
  BY <1>1, WFMin, Zenon
<1>3. ASSUME NEW y \in S PROVE x <= y
  <2>1. <<y, x>> \in Nat \X Nat /\ <<y, x>>[1] = y /\ <<y, x>>[2] = x
    OBVIOUS
  <2>2. ~ (y < x)
    BY <1>2, <2>1, Zenon
  <2> QED BY <2>2
<1> QED BY <1>3

\* An integer function on a finite set takes a greatest value: the smallest
\* initial segment of an enumeration without one cannot exist.
LEMMA GreatestValue ==
    ASSUME NEW S, IsFiniteSet(S), S # {}, NEW f \in [S -> Int]
    PROVE  \E a \in S : \A b \in S : f[b] <= f[a]
<1>1. PICK n \in Nat : ExistsBijection(1 .. n, S)
  BY FS_NatBijection
<1>2. PICK g \in [1 .. n -> S] : \A s \in S : \E k \in 1 .. n : g[k] = s
  BY <1>1 DEF ExistsBijection, Bijection, Injection, Surjection, IsInjective
<1> DEFINE Best(k) == \E i \in 1 .. k : \A j \in 1 .. k : f[g[j]] <= f[g[i]]
           Without == {k \in 1 .. n : ~Best(k)}
<1>3. n # 0
  BY <1>2
<1> HIDE DEF Best
<1>4. Without = {}
  <2>1. SUFFICES ASSUME Without # {} PROVE FALSE
    OBVIOUS
  <2>2. PICK k \in Without : \A m \in Without : k <= m
    <3>1. Without \subseteq Nat
      OBVIOUS
    <3> QED BY <2>1, <3>1, LeastOfNaturals
  <2>3. CASE k = 1
    BY <1>2, <2>2, <2>3 DEF Best
  <2>4. CASE k # 1
    <3>1. k - 1 \in 1 .. n /\ k - 1 \notin Without
      <4>1. k \in 1 .. n /\ k - 1 \in 1 .. n
        BY <2>2, <2>4
      <4>2. ~ (k <= k - 1)
        BY <4>1
      <4> QED BY <2>2, <4>1, <4>2
    <3>2. PICK i \in 1 .. k - 1 : \A j \in 1 .. k - 1 : f[g[j]] <= f[g[i]]
      BY <3>1 DEF Best
    <3>3. i \in 1 .. k /\ k \in 1 .. k /\ f[g[i]] \in Int /\ f[g[k]] \in Int
      BY <1>2, <2>2, <3>2
    <3>4. CASE f[g[k]] <= f[g[i]]
      <4>1. \A j \in 1 .. k : f[g[j]] <= f[g[i]]
        BY <2>2, <3>2, <3>4
      <4> QED BY <2>2, <3>3, <4>1 DEF Best
    <3>5. CASE f[g[i]] <= f[g[k]]
      <4>1. \A j \in 1 .. k : f[g[j]] <= f[g[k]]
        <5> TAKE j \in 1 .. k
        <5>1. CASE j = k
          BY <3>3, <5>1
        <5>2. CASE j # k
          <6>1. j \in 1 .. k - 1 /\ j \in 1 .. n
            BY <2>2, <5>2
          <6>2. f[g[j]] <= f[g[i]] /\ f[g[j]] \in Int
            BY <1>2, <3>2, <6>1
          <6> QED BY <3>3, <3>5, <6>2
        <5> QED BY <5>1, <5>2
      <4> QED BY <2>2, <3>3, <4>1 DEF Best
    <3> QED BY <3>3, <3>4, <3>5
  <2> QED BY <2>3, <2>4
<1>5. Best(n)
  BY <1>3, <1>4
<1>6. PICK i \in 1 .. n : \A j \in 1 .. n : f[g[j]] <= f[g[i]]
  BY <1>5 DEF Best
<1>7. \A b \in S : f[b] <= f[g[i]]
  BY <1>2, <1>6
<1> QED BY <1>2, <1>6, <1>7
-----------------------------------------------------------------------------
\* The extremes of an attribute over a finite set of candidates exist.
LEMMA Extremes ==
    ASSUME NEW S, NEW C, IsFiniteSet(C), C # {}, NEW f \in [C -> Nat], S = {f[a] : a \in C}
    PROVE  Minimum(S) \in Nat /\ Maximum(S) \in Nat
<1>1. S \subseteq Nat /\ S # {}
  OBVIOUS
<1>2. \E v \in S : \A w \in S : v <= w
  BY <1>1, LeastOfNaturals
<1>3. PICK a \in C : \A b \in C : f[b] <= f[a]
  <2>1. f \in [C -> Int]
    OBVIOUS
  <2> QED BY <2>1, GreatestValue
<1>4. \E v \in S : \A w \in S : w <= v
  BY <1>3
<1> QED BY <1>1, <1>2, <1>4 DEF Minimum, Maximum

\* A score is an integer.
LEMMA ScoreIsInteger ==
    ASSUME NEW reg, NEW C, IsFiniteSet(C), NEW a \in C, NEW w \in [Attributes -> Int],
           \A b \in C : \A x \in Attributes : reg[b].attributes[x] \in Nat
    PROVE  Score(reg, C, w, a) \in Int
<1>1. ASSUME NEW x \in Attributes
      PROVE  /\ Minimum(Values(reg, C, x)) \in Nat /\ Maximum(Values(reg, C, x)) \in Nat
             /\ Span(reg, C, x) \in Int
  <2> DEFINE f == [b \in C |-> reg[b].attributes[x]]
  <2>1. f \in [C -> Nat] /\ Values(reg, C, x) = {f[b] : b \in C}
    BY DEF Values
  <2>2. Minimum(Values(reg, C, x)) \in Nat /\ Maximum(Values(reg, C, x)) \in Nat
    <3> HIDE DEF f
    <3> QED BY <2>1, Extremes
  <2> QED BY <2>2 DEF Span
<1>2. ASSUME NEW x \in Attributes
      PROVE  Numerator(reg, C, a, x) \in Int /\ Denominator(reg, C, x) \in Int
  BY <1>1 DEF Numerator, Denominator
<1>3. /\ "price" \in Attributes /\ "quality" \in Attributes /\ "latency" \in Attributes
  BY DEF Attributes
<1> DEFINE np == Numerator(reg, C, a, "price")
           nq == Numerator(reg, C, a, "quality")
           nl == Numerator(reg, C, a, "latency")
           dp == Denominator(reg, C, "price")
           dq == Denominator(reg, C, "quality")
           dl == Denominator(reg, C, "latency")
<1>4. /\ np \in Int /\ nq \in Int /\ nl \in Int /\ dp \in Int /\ dq \in Int /\ dl \in Int
      /\ w["price"] \in Int /\ w["quality"] \in Int /\ w["latency"] \in Int
  BY <1>2, <1>3
<1>5. Score(reg, C, w, a) = w["price"] * np * dq * dl + w["quality"] * nq * dp * dl
                               + w["latency"] * nl * dp * dq
  BY DEF Score
<1> HIDE DEF np, nq, nl, dp, dq, dl
<1> QED BY <1>4, <1>5

\* selectAgent returns a candidate: of those with the highest score the one
\* with the smallest identifier.
LEMMA SelectsTheBest ==
    ASSUME NEW reg, NEW C, IsFiniteSet(C), C # {}, C \subseteq Nat,
           NEW w \in [Attributes -> Int], ReadSelectionPolicy(w),
           \A b \in C : \A x \in Attributes : reg[b].attributes[x] \in Nat
    PROVE  LET selected == SelectAgent(reg, C, w)
           IN  /\ selected \in C
               /\ \A b \in C : Score(reg, C, w, b) <= Score(reg, C, w, selected)
               /\ \A b \in C : Score(reg, C, w, b) = Score(reg, C, w, selected) => selected <= b
<1> DEFINE f == [b \in C |-> Score(reg, C, w, b)]
           best == {a \in C : \A b \in C : Score(reg, C, w, b) <= Score(reg, C, w, a)}
<1>1. f \in [C -> Int]
  BY ScoreIsInteger
<1>2. \E a \in C : \A b \in C : f[b] <= f[a]
  <2> HIDE DEF f
  <2> QED BY <1>1, GreatestValue
<1>3. best # {} /\ best \subseteq Nat /\ best \subseteq C
  BY <1>2
<1>4. Minimum(best) \in best /\ \A b \in best : Minimum(best) <= b
  <2> HIDE DEF best
  <2>1. \E x \in best : \A y \in best : x <= y
    BY <1>3, LeastOfNaturals
  <2> QED BY <2>1 DEF Minimum
<1>5. SelectAgent(reg, C, w) = Minimum(best)
  BY DEF SelectAgent
<1>6. \A b \in C : Score(reg, C, w, b) = Score(reg, C, w, Minimum(best)) => b \in best
  BY <1>4
<1> HIDE DEF best
<1>7. \A b \in C : Score(reg, C, w, b) <= Score(reg, C, w, Minimum(best))
  BY <1>4 DEF best
<1> QED BY <1>3, <1>4, <1>5, <1>6, <1>7

\* A registry of admitted agents: what routeIntentExclusively is called with.
Stored(reg) ==
    /\ DOMAIN reg = Agents
    /\ \A a \in Agents :
          /\ reg[a].fallback \in Agents \cup {NoAgent}
          /\ \A x \in Attributes : reg[a].attributes[x] \in Nat

\* Without a pin, routeIntentExclusively dispatches exactly when a candidate
\* exists and the policy is valid: to the candidate with the highest score,
\* and with a fallback only if that one is a candidate as well.
THEOREM RoutesToTheBest ==
    ASSUME IntentAssumption, NEW reg, Stored(reg), NEW category
    PROVE  LET C == Candidates(reg, category)
               decision == RouteIntentExclusively(reg, category, weights, NoAuthority)
           IN  /\ decision.status = "dispatch" <=> C # {} /\ ReadSelectionPolicy(weights)
               /\ decision.status = "dispatch" =>
                     /\ decision.agent \in C
                     /\ \A b \in C : Score(reg, C, weights, b)
                                        <= Score(reg, C, weights, decision.agent)
                     /\ decision.fallback =
                           IF reg[decision.agent].fallback \in C
                           THEN reg[decision.agent].fallback ELSE NoAgent
<1> DEFINE C == Candidates(reg, category)
           selected == SelectAgent(reg, C, weights)
<1>1. C \subseteq Agents /\ IsFiniteSet(C) /\ C \subseteq Nat
  <2>1. C \subseteq Agents
    BY DEF Candidates, Stored
  <2> QED BY <2>1, FS_Subset DEF IntentAssumption
<1>2. C # {} /\ ReadSelectionPolicy(weights) =>
         /\ selected \in C
         /\ \A b \in C : Score(reg, C, weights, b) <= Score(reg, C, weights, selected)
  <2>1. \A b \in C : \A x \in Attributes : reg[b].attributes[x] \in Nat
    BY <1>1 DEF Stored
  <2>2. weights \in [Attributes -> Int]
    BY DEF IntentAssumption
  <2> HIDE DEF C
  <2> QED BY <1>1, <2>1, <2>2, SelectsTheBest
<1>3. C = {} \/ ~ReadSelectionPolicy(weights) => selected = NoAgent
  BY DEF SelectAgent
<1>4. NoAgent \notin C
  BY <1>1 DEF IntentAssumption
<1>5. RouteIntentExclusively(reg, category, weights, NoAuthority) =
         IF C = {} THEN NoDispatch("unmatched-category")
         ELSE IF selected = NoAgent THEN NoDispatch("registry-conflict")
         ELSE Dispatch(selected, IF reg[selected].fallback \in C THEN reg[selected].fallback
                                 ELSE NoAgent)
  BY DEF RouteIntentExclusively, ReadPinnedRouteAuthority, NoAuthority
<1> HIDE DEF C, selected
<1> QED BY <1>2, <1>3, <1>4, <1>5 DEF NoDispatch, Dispatch, C

\* With a pin, a dispatch goes to the pinned agent, which is a candidate, with
\* exactly the fallback of the authority: none, or the one the agent declares
\* and which is a candidate as well.
THEOREM PinIsFollowed ==
    ASSUME IntentAssumption, NEW reg, Stored(reg), NEW category,
           NEW authority \in Authorities, authority # NoAuthority,
           RouteIntentExclusively(reg, category, weights, authority).status = "dispatch"
    PROVE  LET C == Candidates(reg, category)
               decision == RouteIntentExclusively(reg, category, weights, authority)
           IN  /\ decision.agent = authority.pinned /\ authority.pinned \in C
               /\ decision.fallback = authority.fallback
               /\ authority.fallback # NoAgent =>
                     /\ authority.fallback = reg[authority.pinned].fallback
                     /\ authority.fallback \in C
<1> DEFINE C == Candidates(reg, category)
           winners == C \cap {authority.pinned}
           selected == SelectAgent(reg, winners, weights)
<1>1. C \subseteq Agents /\ C \subseteq Nat /\ NoAgent \notin C
  BY DEF Candidates, Stored, IntentAssumption
<1>2. winners # {} /\ ReadSelectionPolicy(weights) => selected \in winners
  <2>1. IsFiniteSet(winners) /\ winners \subseteq Nat
    <3>1. IsFiniteSet(Agents) /\ winners \subseteq Agents
      BY <1>1 DEF IntentAssumption
    <3> QED BY <1>1, <3>1, FS_Subset
  <2>2. \A b \in winners : \A x \in Attributes : reg[b].attributes[x] \in Nat
    BY <1>1 DEF Stored
  <2>3. weights \in [Attributes -> Int]
    BY DEF IntentAssumption
  <2> HIDE DEF winners
  <2> QED BY <2>1, <2>2, <2>3, SelectsTheBest
<1>3. ~ReadSelectionPolicy(weights) => selected = NoAgent
  BY DEF SelectAgent
<1>4. RouteIntentExclusively(reg, category, weights, authority) =
         IF ~ReadPinnedRouteAuthority(authority) THEN NoDispatch("registry-conflict")
         ELSE IF winners = {} THEN NoDispatch("unmatched-category")
         ELSE IF selected = NoAgent THEN NoDispatch("registry-conflict")
         ELSE IF authority.fallback # NoAgent
                 /\ (reg[selected].fallback # authority.fallback \/ authority.fallback \notin C)
              THEN NoDispatch("registry-conflict")
         ELSE Dispatch(selected, IF authority.fallback \in C THEN authority.fallback ELSE NoAgent)
  BY DEF RouteIntentExclusively
<1>5. selected = authority.pinned /\ authority.pinned \in C
  <2>1. winners # {} /\ selected # NoAgent
    BY <1>4 DEF NoDispatch
  <2> QED BY <1>2, <1>3, <2>1
<1> HIDE DEF selected, winners
<1>6. /\ authority.fallback # NoAgent =>
            reg[selected].fallback = authority.fallback /\ authority.fallback \in C
      /\ RouteIntentExclusively(reg, category, weights, authority) =
            Dispatch(selected, IF authority.fallback \in C THEN authority.fallback ELSE NoAgent)
  BY <1>4 DEF NoDispatch
<1> QED BY <1>1, <1>5, <1>6 DEF Dispatch

\* Whatever it is asked, the decision is one of those.
LEMMA DecisionTyped ==
    ASSUME IntentAssumption, NEW reg, Stored(reg), NEW category, NEW authority \in Authorities
    PROVE  RouteIntentExclusively(reg, category, weights, authority) \in Decisions
<1> DEFINE C == Candidates(reg, category)
           pinned == authority # NoAuthority
           winners == IF pinned THEN C \cap {authority.pinned} ELSE C
           selected == SelectAgent(reg, winners, weights)
           requested == IF pinned THEN authority.fallback ELSE reg[selected].fallback
           decision == RouteIntentExclusively(reg, category, weights, authority)
<1>1. C \subseteq Agents /\ winners \subseteq Agents
  BY DEF Candidates, Stored
<1>2. \/ \E reason \in {"unmatched-category", "registry-conflict"} : decision = NoDispatch(reason)
      \/ /\ winners # {} /\ selected # NoAgent
         /\ decision = Dispatch(selected, IF requested \in C THEN requested ELSE NoAgent)
  BY DEF RouteIntentExclusively
<1>3. winners # {} /\ selected # NoAgent => selected \in winners
  <2>1. IsFiniteSet(winners) /\ winners \subseteq Nat
    <3>1. IsFiniteSet(Agents) /\ Agents \subseteq Nat
      BY DEF IntentAssumption
    <3> HIDE DEF winners
    <3> QED BY <1>1, <3>1, FS_Subset
  <2>2. \A b \in winners : \A x \in Attributes : reg[b].attributes[x] \in Nat
    BY <1>1 DEF Stored
  <2>3. weights \in [Attributes -> Int]
    BY DEF IntentAssumption
  <2>4. ~ReadSelectionPolicy(weights) => selected = NoAgent
    BY DEF SelectAgent
  <2> HIDE DEF winners
  <2> QED BY <2>1, <2>2, <2>3, <2>4, SelectsTheBest
<1> HIDE DEF winners, selected, requested, decision, C
<1>4. ASSUME NEW reason \in {"unmatched-category", "registry-conflict"},
             decision = NoDispatch(reason)
      PROVE  decision \in Decisions
  BY <1>4 DEF NoDispatch, Decisions
<1>5. ASSUME NEW a \in Agents, NEW b \in Agents \cup {NoAgent}, decision = Dispatch(a, b)
      PROVE  decision \in Decisions
  BY <1>5 DEF Dispatch, Decisions
<1>6. decision \in Decisions
  BY <1>1, <1>2, <1>3, <1>4, <1>5
<1> QED BY <1>6 DEF decision
-----------------------------------------------------------------------------
Labels == Running \cup {"start", "target", "route", "decide", "list", "dispatch", "done"}

\* Nothing has been asked.
LEMMA InitIntentInv == IntentAssumption /\ Init => IntentInv
<1> SUFFICES ASSUME IntentAssumption, Init PROVE IntentInv
  OBVIOUS
<1>1. NoDispatch("none") \in Decisions /\ NoAuthority \in Authorities
  BY DEF NoDispatch, Decisions, NoAuthority, Authorities
<1>2. TypeOK
  BY DEF Init, TypeOK, Running
<1>3. WellFormed
  BY <1>1 DEF Init, WellFormed, NoCall, Roles, Record
<1>4. \A r \in Requests : Decided(r) /\ Owns(r)
  BY DEF Init, Decided, Owns, NoCall, Running
<1>5. /\ \A c \in calls : Remembered(c)
      /\ FallbackAfterTimeout /\ OnlyDecidedAgents /\ MerchantScopeKept
      /\ CompletedMeansExecuted /\ OrphanOnlyAfterRestart
  BY DEF Init, FallbackAfterTimeout, OnlyDecidedAgents, MerchantScopeKept,
         CompletedMeansExecuted, OrphanOnlyAfterRestart, Ids, NoRow
<1> QED BY <1>2, <1>3, <1>4, <1>5 DEF IntentInv

\* What a call in the table tells of the handler that made it.
LEMMA CallFields ==
    ASSUME IntentInv, NEW c \in calls
    PROVE  /\ c.request \in Requests /\ c.id \in Ids /\ c.role \in Roles /\ c.agent \in Agents
           /\ Remembered(c)
BY DEF IntentInv, TypeOK

\* A request that has not come to the dispatch moves on, or is answered: at
\* most it has stored the decision of an intent that had none.
LEMMA EarlyStep ==
    ASSUME IntentAssumption, IntentInv, NEW r \in Requests,
           pc[r] \notin Running \cup {"done"}, pc'[r] \notin Running,
           pc' \in [Requests -> Labels],
           DOMAIN local' = Requests, DOMAIN answer' = Requests,
           \A q \in Requests \ {r} :
               pc'[q] = pc[q] /\ local'[q] = local[q] /\ answer'[q] = answer[q],
           DOMAIN local'[r] = DOMAIN NoCall,
           local'[r].authority \in Authorities, local'[r].decision \in Decisions,
           local'[r].role = "selected", local'[r].attempts = <<>>,
           UNCHANGED <<worldVars, row, calls, executed, restarts>>,
           DOMAIN routeEvent' = Ids,
           \A i \in Ids : /\ DOMAIN routeEvent'[i] = DOMAIN NoEvent
                          /\ routeEvent'[i] # NoEvent => routeEvent'[i].decision \in Decisions
                          /\ routeEvent[i] # NoEvent => routeEvent'[i] = routeEvent[i],
           Decided(r)',
           answer'[r] = "completed" => row[Id(r)].state = "completed"
    PROVE  IntentInv'
<1>1. TypeOK'
  BY DEF IntentInv, TypeOK, worldVars, Labels
<1>2. WellFormed'
  <2>1. \A q \in Requests :
           /\ DOMAIN local'[q] = DOMAIN NoCall
           /\ local'[q].authority \in Authorities /\ local'[q].decision \in Decisions
           /\ local'[q].role \in Roles
    BY DEF IntentInv, WellFormed, Roles
  <2>2. \A a \in Agents :
           /\ registry'[a].active \in BOOLEAN /\ registry'[a].revision \in Nat
           /\ registry'[a] = Record(a, registry'[a].active, registry'[a].revision)
    BY DEF IntentInv, WellFormed, worldVars
  <2>3. \A i \in Ids : DOMAIN row'[i] = DOMAIN NoRow
    BY DEF IntentInv, WellFormed
  <2>4. restarts' \in Nat /\ changes' \in Nat /\ DOMAIN row' = Ids
    BY DEF IntentInv, WellFormed, worldVars
  <2> QED BY <2>1, <2>2, <2>3, <2>4 DEF WellFormed
<1>3. ASSUME NEW q \in Requests PROVE Decided(q)'
  <2>1. CASE q = r
    BY <2>1
  <2>2. CASE q # r
    <3>1. Decided(q) /\ Id(q) \in Ids
      BY DEF IntentInv, Ids, Id
    <3> QED BY <2>2, <3>1 DEF Decided
  <2> QED BY <2>1, <2>2
<1>4. ASSUME NEW q \in Requests PROVE Owns(q)'
  <2>1. CASE q = r
    BY <2>1 DEF Owns, Running
  <2>2. CASE q # r
    <3>1. Owns(q)
      BY DEF IntentInv
    <3> QED BY <2>2, <3>1 DEF Owns, Call, Target
  <2> QED BY <2>1, <2>2
<1>5. ASSUME NEW c \in calls
      PROVE  /\ c.request \in Requests \ {r} /\ Remembered(c)'
  <2>1. c.request \in Requests \ {r} /\ Remembered(c)
    BY CallFields DEF Remembered
  <2> QED BY <2>1 DEF Remembered
<1>6. FallbackAfterTimeout' /\ MerchantScopeKept'
  BY <1>5 DEF IntentInv, FallbackAfterTimeout, MerchantScopeKept
<1>7. OnlyDecidedAgents'
  BY CallFields DEF IntentInv, OnlyDecidedAgents
<1>8. CompletedMeansExecuted'
  BY DEF IntentInv, CompletedMeansExecuted
<1>9. OrphanOnlyAfterRestart'
  BY DEF IntentInv, OrphanOnlyAfterRestart
<1> QED BY <1>1, <1>2, <1>3, <1>4, <1>5, <1>6, <1>7, <1>8, <1>9 DEF IntentInv

\* A handler that runs goes on within an attempt, or to its second one.
LEMMA RunnerGoesOn ==
    ASSUME IntentAssumption, IntentInv, NEW r \in Requests,
           pc[r] \in Running, pc'[r] \in Running, pc' \in [Requests -> Labels],
           DOMAIN local' = Requests,
           \A q \in Requests \ {r} : pc'[q] = pc[q] /\ local'[q] = local[q],
           DOMAIN local'[r] = DOMAIN NoCall,
           local'[r].scope = local[r].scope, local'[r].authority = local[r].authority,
           local'[r].decision = local[r].decision, local'[r].agent = local[r].agent,
           local'[r].fallback = local[r].fallback,
           \/ /\ local'[r].role = local[r].role /\ local'[r].attempts = local[r].attempts
              /\ pc'[r] \in {"evidence", "initialize", "call"} =>
                    pc[r] \in {"evidence", "initialize", "call"}
           \/ /\ local[r].role = "selected" /\ local'[r].role = "fallback"
              /\ local[r].fallback # NoAgent
              /\ local'[r].attempts = <<<<local[r].agent, "timeout">>>>,
           UNCHANGED <<worldVars, routeEvent, row, answer, calls, executed, restarts>>,
           (pc[r] \in {"close", "settle"} /\ local[r].reply = "result" => Call(r) \in executed)'
    PROVE  IntentInv'
<1>0. Id(r) \in Ids /\ Decided(r) /\ Owns(r) /\ local[r].role \in Roles
  BY DEF IntentInv, WellFormed, Ids, Id
<1>1. TypeOK'
  BY DEF IntentInv, TypeOK, worldVars, Labels
<1>2. WellFormed'
  <2>1. \A q \in Requests :
           /\ DOMAIN local'[q] = DOMAIN NoCall
           /\ local'[q].authority \in Authorities /\ local'[q].decision \in Decisions
           /\ local'[q].role \in Roles
    BY DEF IntentInv, WellFormed, Roles
  <2> QED BY <2>1 DEF IntentInv, WellFormed, worldVars
<1>3. ASSUME NEW q \in Requests PROVE Decided(q)'
  <2>1. CASE q = r
    BY <1>0, <2>1 DEF Decided, Running
  <2>2. CASE q # r
    <3>1. Decided(q)
      BY DEF IntentInv
    <3> QED BY <2>2, <3>1 DEF Decided
  <2> QED BY <2>1, <2>2
<1>4. ASSUME NEW q \in Requests PROVE Owns(q)'
  <2>1. CASE q = r
    <3>1. /\ row[Id(r)].state = "dispatching"
          /\ \A p \in Requests : pc[p] \in Running /\ Id(p) = Id(r) => p = r
      BY <1>0 DEF Owns
    <3>2. IF local'[r].role = "selected" THEN local'[r].attempts = <<>>
          ELSE /\ local'[r].fallback # NoAgent
               /\ local'[r].attempts = <<<<local'[r].agent, "timeout">>>>
      BY <1>0 DEF Owns
    <3> QED BY <2>1, <3>1, <3>2 DEF Owns
  <2>2. CASE q # r
    <3>1. Owns(q)
      BY DEF IntentInv
    <3> QED BY <2>2, <3>1 DEF Owns, Call, Target
  <2> QED BY <2>1, <2>2
<1>5. ASSUME NEW c \in calls
      PROVE  /\ Remembered(c)' /\ c.request \in Requests
             /\ local'[c.request].scope = local[c.request].scope
             /\ c.role = "fallback" =>
                   /\ local'[c.request].attempts = local[c.request].attempts
                   /\ local'[c.request].agent = local[c.request].agent
  <2>1. c.request \in Requests /\ c.role \in Roles /\ Remembered(c)
    BY CallFields
  <2>2. CASE c.request = r
    <3>1. c.role = "fallback" => local[r].role = "fallback"
      BY <2>1, <2>2 DEF Remembered
    <3>2. pc'[r] \in {"evidence", "initialize", "call"} => c.role # local'[r].role
      BY <2>1, <2>2 DEF Remembered
    <3> QED BY <2>1, <2>2, <3>1, <3>2 DEF Remembered
  <2>3. CASE c.request # r
    BY <2>1, <2>3 DEF Remembered
  <2> QED BY <2>2, <2>3
<1>6. FallbackAfterTimeout' /\ MerchantScopeKept' /\ OnlyDecidedAgents'
  BY <1>5 DEF IntentInv, FallbackAfterTimeout, MerchantScopeKept, OnlyDecidedAgents
<1>8. CompletedMeansExecuted'
  BY DEF IntentInv, CompletedMeansExecuted
<1>9. OrphanOnlyAfterRestart'
  BY DEF IntentInv, OrphanOnlyAfterRestart
<1> QED BY <1>1, <1>2, <1>3, <1>4, <1>5, <1>6, <1>8, <1>9 DEF IntentInv

\* A row is inserted once, by the request that will run on it: nobody had it
\* before, so nobody has called for the intent.
LEMMA DispatchRowInv ==
    ASSUME IntentAssumption, IntentInv, NEW r \in Requests, DispatchRow(r), row[Id(r)] = NoRow
    PROVE  IntentInv'
<1> DEFINE new == [digest |-> local[r].digest, agent |-> local[r].agent,
                   state |-> "dispatching", attempts |-> <<>>]
<1>0. /\ Id(r) \in Ids /\ Decided(r) /\ Owns(r) /\ pc[r] = "dispatch"
      /\ DOMAIN row = Ids /\ pc \in [Requests -> Labels]
  BY DEF IntentInv, WellFormed, TypeOK, Ids, Id, DispatchRow, Labels
<1>1. /\ row' = [row EXCEPT ![Id(r)] = new]
      /\ pc' = [pc EXCEPT ![r] = "evidence"] /\ UNCHANGED answer
      /\ UNCHANGED <<worldVars, routeEvent, local, calls, executed, restarts>>
  BY DEF DispatchRow, Goto
<1>2. /\ new.state = "dispatching" /\ new.agent = local[r].agent /\ new.attempts = <<>>
      /\ DOMAIN new = DOMAIN NoRow /\ new # NoRow
  BY DEF NoRow
<1> HIDE DEF new
<1>3. /\ row'[Id(r)] = new /\ \A i \in Ids \ {Id(r)} : row'[i] = row[i]
      /\ pc'[r] = "evidence" /\ \A q \in Requests \ {r} : pc'[q] = pc[q]
      /\ pc' \in [Requests -> Labels] /\ DOMAIN row' = Ids
  BY <1>0, <1>1 DEF Labels, Running
<1>4. local[r].agent \in Agents
  BY <1>0 DEF Decided
<1>5. TypeOK'
  BY <1>1, <1>2, <1>3, <1>4 DEF IntentInv, TypeOK, worldVars, Labels
<1>6. WellFormed'
  BY <1>1, <1>2, <1>3 DEF IntentInv, WellFormed, worldVars
<1>7. \A q \in Requests : Id(q) = Id(r) => pc[q] \notin Running
  BY DEF IntentInv, Owns, NoRow
<1>8. \A c \in calls : c.id # Id(r)
  BY CallFields DEF Remembered
<1>9. ASSUME NEW q \in Requests PROVE Decided(q)'
  <2>1. Decided(q)
    BY DEF IntentInv
  <2>2. CASE q = r
    BY <1>0, <1>1, <1>3, <2>1, <2>2 DEF Decided, Running
  <2>3. CASE q # r
    BY <1>1, <1>3, <2>1, <2>3 DEF Decided
  <2> QED BY <2>2, <2>3
<1>10. ASSUME NEW q \in Requests PROVE Owns(q)'
  <2>1. Owns(q) /\ Id(q) \in Ids
    BY DEF IntentInv, Ids, Id
  <2>2. CASE q = r
    <3>1. local[r].role = "selected" /\ local[r].attempts = <<>>
      BY <1>0 DEF Owns, Running
    <3>2. \A p \in Requests : pc'[p] \in Running /\ Id(p) = Id(r) => p = r
      BY <1>3, <1>7
    <3> QED BY <1>1, <1>2, <1>3, <2>2, <3>1, <3>2 DEF Owns, Running
  <2>3. CASE q # r
    <3>1. pc'[q] = pc[q] /\ (pc[q] \in Running => Id(q) # Id(r))
      BY <1>3, <1>7, <2>3
    <3>2. pc[q] \in Running => row'[Id(q)] = row[Id(q)]
      BY <1>3, <2>1, <3>1
    <3> QED BY <1>1, <1>3, <2>1, <2>3, <3>1, <3>2 DEF Owns, Call, Target
  <2> QED BY <2>2, <2>3
<1>11. ASSUME NEW c \in calls PROVE Remembered(c)' /\ row'[c.id] = row[c.id]
  <2>1. c.request \in Requests /\ c.id \in Ids /\ Remembered(c) /\ c.id # Id(r)
    BY <1>8, CallFields
  <2>2. c.request # r /\ row'[c.id] = row[c.id]
    BY <1>3, <2>1 DEF Remembered
  <2> QED BY <1>1, <1>3, <2>1, <2>2 DEF Remembered
<1>12. FallbackAfterTimeout' /\ MerchantScopeKept' /\ OnlyDecidedAgents'
  BY <1>1, <1>11 DEF IntentInv, FallbackAfterTimeout, MerchantScopeKept, OnlyDecidedAgents
<1>13. CompletedMeansExecuted'
  <2>1. \A q \in Requests : answer[q] = "completed" => Id(q) # Id(r) /\ Id(q) \in Ids
    BY DEF IntentInv, CompletedMeansExecuted, NoRow, Ids, Id
  <2> QED BY <1>1, <1>2, <1>3, <2>1 DEF IntentInv, CompletedMeansExecuted
<1>14. OrphanOnlyAfterRestart'
  <2> SUFFICES ASSUME NEW i \in Ids, row'[i] # NoRow, row'[i].state = "dispatching"
               PROVE  restarts' > 0 \/ \E q \in Requests : Id(q) = i /\ pc'[q] \in Running
    BY DEF OrphanOnlyAfterRestart
  <2>1. CASE i = Id(r)
    BY <1>3, <2>1 DEF Running
  <2>2. CASE i # Id(r)
    <3>1. restarts > 0 \/ \E q \in Requests : Id(q) = i /\ pc[q] \in Running
      BY <1>3, <2>2 DEF IntentInv, OrphanOnlyAfterRestart
    <3> QED BY <1>0, <1>1, <1>3, <2>2, <3>1
  <2> QED BY <2>1, <2>2
<1> QED BY <1>1, <1>5, <1>6, <1>9, <1>10, <1>11, <1>12, <1>13, <1>14 DEF IntentInv

\* tools/call leaves: the first of its role for the intent.
LEMMA SendCallInv ==
    ASSUME IntentAssumption, IntentInv, NEW r \in Requests, pc[r] = "call",
           calls' = calls \cup {Call(r)}, pc' = [pc EXCEPT ![r] = "await"],
           UNCHANGED <<worldVars, routeEvent, row, local, answer, executed, restarts>>
    PROVE  IntentInv'
<1>a. PICK new : new = Call(r)
  OBVIOUS
<1>0. /\ Id(r) \in Ids /\ Decided(r) /\ Owns(r) /\ local[r].role \in Roles
      /\ pc \in [Requests -> Labels] /\ pc[r] \in Running
      /\ local[r].authority \in Authorities /\ local[r].decision \in Decisions
  BY DEF IntentInv, WellFormed, TypeOK, Ids, Id, Labels, Running
<1>1. /\ new.request = r /\ new.id = Id(r) /\ new.role = local[r].role
      /\ new.agent = IF new.role = "selected" THEN local[r].agent ELSE local[r].fallback
  BY <1>a DEF Call, Target
<1>2. /\ row[Id(r)].state = "dispatching"
      /\ \A q \in Requests : pc[q] \in Running /\ Id(q) = Id(r) => q = r
      /\ local[r].role = "fallback" =>
            local[r].fallback # NoAgent /\ local[r].attempts = <<<<local[r].agent, "timeout">>>>
  BY <1>0 DEF Owns
<1>3. /\ routeEvent[Id(r)] # NoEvent /\ routeEvent[Id(r)].decision = local[r].decision
      /\ local[r].agent \in Agents /\ local[r].agent = local[r].decision.agent
      /\ local[r].fallback = local[r].decision.fallback
      /\ local[r].authority # NoAuthority =>
            /\ local[r].agent = local[r].authority.pinned
            /\ local[r].fallback = local[r].authority.fallback
      /\ intent[r].listing # NoListing =>
            /\ local[r].authority.pinned = intent[r].listing
            /\ intent[r].listing \in Agents \cap local[r].scope
            /\ local[r].authority.fallback \in local[r].scope \cup {NoAgent}
  BY <1>0 DEF Decided
<1>4. new.agent \in Agents
  <2>1. local[r].decision.fallback \in Agents \cup {NoAgent}
    BY <1>0 DEF Decisions
  <2> QED BY <1>0, <1>1, <1>2, <1>3, <2>1 DEF Roles
<1>5. new \in [request : Requests, id : Ids, role : Roles, agent : Agents]
  BY <1>0, <1>1, <1>4, <1>a DEF Call
<1>6. /\ calls' = calls \cup {new} /\ pc'[r] = "await"
      /\ \A q \in Requests \ {r} : pc'[q] = pc[q]
      /\ pc' \in [Requests -> Labels]
      /\ \A q \in Requests : pc'[q] \in Running <=> pc[q] \in Running
  BY <1>0, <1>a DEF Labels, Running
<1>7. TypeOK'
  BY <1>5, <1>6 DEF IntentInv, TypeOK, worldVars, Labels
<1>8. WellFormed'
  BY DEF IntentInv, WellFormed, worldVars
<1>9. ASSUME NEW q \in Requests PROVE Decided(q)'
  <2>1. Decided(q)
    BY DEF IntentInv
  <2>2. CASE q = r
    BY <1>0, <1>6, <2>1, <2>2 DEF Decided, Running
  <2>3. CASE q # r
    BY <1>6, <2>1, <2>3 DEF Decided
  <2> QED BY <2>2, <2>3
<1>10. ASSUME NEW q \in Requests PROVE Owns(q)'
  <2>1. Owns(q)
    BY DEF IntentInv
  <2>2. CASE q = r
    BY <1>0, <1>6, <2>1, <2>2 DEF Owns, Running
  <2>3. CASE q # r
    BY <1>6, <2>1, <2>3 DEF Owns, Call, Target
  <2> QED BY <2>2, <2>3
<1>11. \A c \in calls : c.id = Id(r) => c.request = r /\ c.role # local[r].role
  <2> SUFFICES ASSUME NEW c \in calls, c.id = Id(r)
               PROVE  c.request = r /\ c.role # local[r].role
    OBVIOUS
  <2>1. Remembered(c)
    BY CallFields
  <2> QED BY <1>0, <2>1 DEF Remembered
<1>12. ASSUME NEW c \in calls PROVE Remembered(c)'
  <2>1. c.request \in Requests /\ c.id \in Ids /\ Remembered(c)
    BY CallFields
  <2>2. \A d \in calls' : d.id = c.id => d.request = c.request
    BY <1>1, <1>6, <1>11, <2>1 DEF Remembered
  <2>3. pc'[c.request] \in Running \cup {"done"}
    BY <1>0, <1>6, <2>1 DEF Remembered
  <2>4. pc'[c.request] \in {"evidence", "initialize", "call"} => c.role # local[c.request].role
    BY <1>6, <2>1 DEF Remembered
  <2> QED BY <1>6, <2>1, <2>2, <2>3, <2>4 DEF Remembered
<1>13. Remembered(new)'
  <2>1. row[Id(r)] # NoRow
    BY <1>2 DEF NoRow
  <2>2. \A d \in calls' : d.id = Id(r) => d.request = r
    BY <1>1, <1>6, <1>11
  <2>3. pc'[r] \in Running /\ pc'[r] \notin {"evidence", "initialize", "call"}
    BY <1>6 DEF Running
  <2> QED BY <1>1, <1>2, <1>6, <2>1, <2>2, <2>3 DEF Remembered
<1>14. FallbackAfterTimeout'
  <2>1. new.role = "fallback" =>
           /\ local[r].attempts[1] = <<local[r].agent, "timeout">>
           /\ row[new.id].state = "dispatching"
    BY <1>1, <1>2
  <2> QED BY <1>1, <1>6, <2>1 DEF IntentInv, FallbackAfterTimeout
<1>15. MerchantScopeKept'
  <2>1. intent[r].listing # NoListing => new.agent \in local[r].scope
    <3> SUFFICES ASSUME intent[r].listing # NoListing PROVE new.agent \in local[r].scope
      OBVIOUS
    <3>1. local[r].authority.pinned # NoAgent
      BY <1>3 DEF IntentAssumption
    <3>2. local[r].authority # NoAuthority
      BY <3>1 DEF NoAuthority
    <3> QED BY <1>0, <1>1, <1>2, <1>3, <3>2 DEF Roles
  <2> QED BY <1>1, <1>6, <2>1 DEF IntentInv, MerchantScopeKept
<1>16. OnlyDecidedAgents'
  BY <1>0, <1>1, <1>3, <1>6 DEF IntentInv, OnlyDecidedAgents, Roles
<1>17. CompletedMeansExecuted' /\ OrphanOnlyAfterRestart'
  BY <1>6 DEF IntentInv, CompletedMeansExecuted, OrphanOnlyAfterRestart
<1> QED BY <1>6, <1>7, <1>8, <1>9, <1>10, <1>12, <1>13, <1>14, <1>15, <1>16, <1>17 DEF IntentInv

\* The last attempt settles: its outcome is stored in the row, which was
\* `dispatching' until now and is not touched again.
LEMMA SettledInv ==
    ASSUME IntentAssumption, IntentInv, NEW r \in Requests, pc[r] = "settle",
           NEW outcome \in {"completed", "timeout", "failed"},
           NEW state \in {"completed", "unknown"},
           WriteOutcome(r, state, Append(local[r].attempts, <<Target(r), outcome>>)),
           Respond(r, state),
           state = "completed" => local[r].reply = "result",
           UNCHANGED <<worldVars, routeEvent, local, calls, executed, restarts>>
    PROVE  IntentInv'
<1> DEFINE attempts == Append(local[r].attempts, <<Target(r), outcome>>)
           new == [row[Id(r)] EXCEPT !.state = state, !.agent = Target(r), !.attempts = attempts]
<1>0. /\ Id(r) \in Ids /\ Decided(r) /\ Owns(r) /\ local[r].role \in Roles
      /\ pc \in [Requests -> Labels] /\ pc[r] \in Running /\ DOMAIN answer = Requests
      /\ local[r].decision \in Decisions
      /\ DOMAIN row = Ids /\ DOMAIN row[Id(r)] = DOMAIN NoRow
  BY DEF IntentInv, WellFormed, TypeOK, Ids, Id, Labels, Running
<1>1. /\ row[Id(r)].state = "dispatching"
      /\ \A q \in Requests : pc[q] \in Running /\ Id(q) = Id(r) => q = r
      /\ IF local[r].role = "selected" THEN local[r].attempts = <<>>
         ELSE /\ local[r].fallback # NoAgent
              /\ local[r].attempts = <<<<local[r].agent, "timeout">>>>
  BY <1>0 DEF Owns
<1>2. Target(r) \in Agents
  <2>1. /\ local[r].agent \in Agents /\ local[r].fallback = local[r].decision.fallback
    BY <1>0 DEF Decided
  <2>2. local[r].decision.fallback \in Agents \cup {NoAgent}
    BY <1>0 DEF Decisions
  <2> QED BY <1>0, <1>1, <2>1, <2>2 DEF Target, Roles
<1>3. /\ Len(attempts) <= 2
      /\ local[r].role = "fallback" => Len(attempts) = 2 /\ attempts[1][2] = "timeout"
  <2>1. CASE local[r].role = "selected"
    BY <1>1, <2>1
  <2>2. CASE local[r].role = "fallback"
    <3> DEFINE x == <<local[r].agent, "timeout">>
               y == <<Target(r), outcome>>
    <3>1. local[r].attempts = <<x>> /\ x[2] = "timeout"
      BY <1>1, <2>2
    <3> HIDE DEF x, y
    <3>2. <<x>> \in Seq({x, y}) /\ y \in {x, y} /\ Len(<<x>>) = 1 /\ <<x>>[1] = x
      OBVIOUS
    <3>3. attempts = Append(<<x>>, y)
      BY <3>1 DEF y
    <3>4. Len(attempts) = 2 /\ attempts[1] = x
      BY <3>2, <3>3
    <3> QED BY <3>1, <3>4
  <2> QED BY <1>0, <2>1, <2>2 DEF Roles
<1>4. /\ new.state = state /\ new.agent = Target(r) /\ new.attempts = attempts
      /\ DOMAIN new = DOMAIN NoRow
  BY <1>0 DEF NoRow
<1>5. new # NoRow
  BY <1>4 DEF NoRow
<1>6. row' = [row EXCEPT ![Id(r)] = new]
  BY <1>0, <1>1 DEF WriteOutcome
<1> HIDE DEF new, attempts
<1>7. /\ row'[Id(r)] = new /\ \A i \in Ids \ {Id(r)} : row'[i] = row[i]
      /\ DOMAIN row' = Ids
  BY <1>0, <1>6
<1>8. /\ pc'[r] = "done" /\ answer'[r] = state
      /\ \A q \in Requests \ {r} : pc'[q] = pc[q] /\ answer'[q] = answer[q]
      /\ pc' \in [Requests -> Labels] /\ DOMAIN answer' = Requests
  BY <1>0 DEF Respond, Labels, Running
<1>9. TypeOK'
  BY <1>2, <1>3, <1>4, <1>7, <1>8 DEF IntentInv, TypeOK, worldVars, Labels
<1>10. WellFormed'
  BY <1>4, <1>7, <1>8 DEF IntentInv, WellFormed, worldVars
<1>11. ASSUME NEW q \in Requests PROVE Decided(q)' /\ Owns(q)'
  <2>1. Decided(q) /\ Owns(q) /\ Id(q) \in Ids
    BY DEF IntentInv, Ids, Id
  <2>2. CASE q = r
    BY <1>8, <2>2 DEF Decided, Owns, Running
  <2>3. CASE q # r
    <3>1. pc'[q] = pc[q] /\ (pc[q] \in Running => row'[Id(q)] = row[Id(q)])
      BY <1>0, <1>1, <1>7, <1>8, <2>1, <2>3
    <3>2. Decided(q)'
      BY <2>1, <3>1 DEF Decided
    <3>3. \A p \in Requests : pc'[p] \in Running => pc[p] \in Running
      BY <1>0, <1>8
    <3>4. Owns(q)'
      BY <2>1, <3>1, <3>3 DEF Owns, Call, Target
    <3> QED BY <3>2, <3>4
  <2> QED BY <2>2, <2>3
<1>12. ASSUME NEW c \in calls
       PROVE  Remembered(c)' /\ (c.request # r => row'[c.id] = row[c.id])
  <2>1. c.request \in Requests /\ c.id \in Ids /\ Remembered(c)
    BY CallFields
  <2>2. c.request # r => row'[c.id] = row[c.id]
    BY <1>0, <1>7, <2>1 DEF Remembered
  <2>3. row'[c.id] # NoRow
    BY <1>5, <1>7, <2>1 DEF Remembered
  <2>4. \A q \in Requests : pc'[q] \in Running => pc[q] \in Running
    BY <1>0, <1>8
  <2>5. /\ pc'[c.request] \in Running \cup {"done"}
        /\ pc'[c.request] \in {"evidence", "initialize", "call"} => pc'[c.request] = pc[c.request]
    BY <1>8, <2>1 DEF Remembered, Running
  <2> QED BY <2>1, <2>2, <2>3, <2>4, <2>5 DEF Remembered
<1>13. FallbackAfterTimeout'
  <2> SUFFICES ASSUME NEW c \in calls, c.role = "fallback"
               PROVE  /\ local[c.request].attempts[1] = <<local[c.request].agent, "timeout">>
                      /\ row'[c.id].state # "dispatching" =>
                            Len(row'[c.id].attempts) = 2 /\ row'[c.id].attempts[1][2] = "timeout"
    BY DEF FallbackAfterTimeout
  <2>1. Remembered(c)
    BY CallFields
  <2>2. CASE c.request = r
    <3>1. local[r].role = "fallback" /\ c.id = Id(r)
      BY <2>1, <2>2 DEF Remembered
    <3> QED BY <1>3, <1>4, <1>7, <2>2, <3>1 DEF IntentInv, FallbackAfterTimeout
  <2>3. CASE c.request # r
    BY <1>12, <2>3 DEF IntentInv, FallbackAfterTimeout
  <2> QED BY <2>2, <2>3
<1>14. MerchantScopeKept' /\ OnlyDecidedAgents'
  BY DEF IntentInv, MerchantScopeKept, OnlyDecidedAgents
<1>15. state = "completed" => \E c \in executed : c.id = Id(r) /\ c.agent = Target(r)
  <2>1. state = "completed" => Call(r) \in executed
    BY <1>0 DEF Owns
  <2>2. Call(r).id = Id(r) /\ Call(r).agent = Target(r)
    BY DEF Call
  <2> QED BY <2>1, <2>2
<1>16. CompletedMeansExecuted'
  <2>1. ASSUME NEW i \in Ids, row'[i] # NoRow, row'[i].state = "completed"
        PROVE  \E c \in executed : c.id = i /\ c.agent = row'[i].agent
    BY <1>4, <1>7, <1>15, <2>1 DEF IntentInv, CompletedMeansExecuted
  <2>2. ASSUME NEW q \in Requests, answer'[q] = "completed"
        PROVE  row'[Id(q)].state = "completed"
    <3>1. CASE q = r
      BY <1>4, <1>7, <1>8, <2>2, <3>1
    <3>2. CASE q # r
      <4>1. row[Id(q)].state = "completed" /\ Id(q) \in Ids
        BY <1>8, <2>2, <3>2 DEF IntentInv, CompletedMeansExecuted, Ids, Id
      <4> QED BY <1>1, <1>7, <4>1
    <3> QED BY <3>1, <3>2
  <2> QED BY <2>1, <2>2 DEF CompletedMeansExecuted
<1>17. OrphanOnlyAfterRestart'
  <2> SUFFICES ASSUME NEW i \in Ids, row'[i] # NoRow, row'[i].state = "dispatching"
               PROVE  restarts' > 0 \/ \E q \in Requests : Id(q) = i /\ pc'[q] \in Running
    BY DEF OrphanOnlyAfterRestart
  <2>1. i # Id(r)
    BY <1>4, <1>7
  <2>2. restarts > 0 \/ \E q \in Requests : Id(q) = i /\ pc[q] \in Running
    BY <1>7, <2>1 DEF IntentInv, OrphanOnlyAfterRestart
  <2> QED BY <1>8, <2>1, <2>2
<1> QED BY <1>9, <1>10, <1>11, <1>12, <1>13, <1>14, <1>16, <1>17 DEF IntentInv

\* Registry, theme and provider move on their own.
LEMMA WorldInv ==
    ASSUME IntentAssumption, IntentInv,
           \/ \E a \in Agents : ChangeRegistry(a)
           \/ \E scope \in SUBSET Agents : ChangeTheme(scope)
           \/ \E c \in calls : ProviderExecutes(c)
           \/ UNCHANGED vars
    PROVE  IntentInv'
<1>0. UNCHANGED <<routeEvent, row, pc, local, answer, calls, restarts>>
  BY DEF ChangeRegistry, ChangeTheme, ProviderExecutes, vars
<1>1. executed \subseteq executed' /\ executed' \subseteq calls
  BY DEF ChangeRegistry, ChangeTheme, ProviderExecutes, vars, IntentInv, TypeOK
<1>2. /\ DOMAIN registry' = Agents /\ changes' \in Nat
      /\ theme' \in (SUBSET Agents) \cup {NoTheme}
      /\ \A a \in Agents :
            /\ registry'[a].active \in BOOLEAN /\ registry'[a].revision \in Nat
            /\ registry'[a] = Record(a, registry'[a].active, registry'[a].revision)
  <2>0. /\ DOMAIN registry = Agents /\ changes \in Nat
        /\ theme \in (SUBSET Agents) \cup {NoTheme}
        /\ \A a \in Agents :
            /\ registry[a].active \in BOOLEAN /\ registry[a].revision \in Nat
            /\ registry[a] = Record(a, registry[a].active, registry[a].revision)
    BY DEF IntentInv, TypeOK, WellFormed
  <2>1. ASSUME NEW a \in Agents, ChangeRegistry(a)
        PROVE  /\ DOMAIN registry' = Agents /\ changes' \in Nat
               /\ theme' \in (SUBSET Agents) \cup {NoTheme}
               /\ \A b \in Agents :
                  /\ registry'[b].active \in BOOLEAN /\ registry'[b].revision \in Nat
                  /\ registry'[b] = Record(b, registry'[b].active, registry'[b].revision)
    <3> DEFINE new == Record(a, ~registry[a].active, registry[a].revision + 1)
    <3>1. /\ new.active = ~registry[a].active /\ new.revision = registry[a].revision + 1
      BY DEF Record
    <3>2. /\ new.active \in BOOLEAN /\ new.revision \in Nat
          /\ new = Record(a, new.active, new.revision)
      <4>0. (~registry[a].active) \in BOOLEAN
        OBVIOUS
      <4>1. new.active \in BOOLEAN /\ new.revision \in Nat
        <5>1. new.active \in BOOLEAN
          BY <3>1, <4>0, Zenon
        <5>2. registry[a].revision + 1 \in Nat
          BY <2>0
        <5> QED BY <3>1, <5>1, <5>2, Zenon
      <4>2. Record(a, new.active, new.revision)
               = Record(a, ~registry[a].active, registry[a].revision + 1)
        BY <3>1, Zenon
      <4> QED BY <4>1, <4>2, Zenon
    <3>3. registry' = [registry EXCEPT ![a] = new] /\ theme' = theme /\ changes' = changes + 1
      BY <2>1 DEF ChangeRegistry
    <3> HIDE DEF new
    <3> QED BY <2>0, <3>2, <3>3
  <2>2. ASSUME NEW scope \in SUBSET Agents, ChangeTheme(scope)
        PROVE  /\ registry' = registry /\ changes' \in Nat
               /\ theme' \in (SUBSET Agents) \cup {NoTheme}
    BY <2>0, <2>2 DEF ChangeTheme
  <2>3. (\E c \in calls : ProviderExecutes(c)) \/ UNCHANGED vars =>
           UNCHANGED <<registry, theme, changes>>
    BY DEF ProviderExecutes, vars, worldVars
  <2> QED BY <2>0, <2>1, <2>2, <2>3
<1>3. TypeOK'
  BY <1>0, <1>1, <1>2 DEF IntentInv, TypeOK
<1>4. WellFormed'
  BY <1>0, <1>2 DEF IntentInv, WellFormed
<1>5. ASSUME NEW q \in Requests PROVE Decided(q)' /\ Owns(q)'
  <2>1. Decided(q) /\ Owns(q)
    BY DEF IntentInv
  <2>2. Decided(q)'
    BY <1>0, <2>1 DEF Decided
  <2>3. Owns(q)'
    BY <1>0, <1>1, <2>1 DEF Owns, Call, Target
  <2> QED BY <2>2, <2>3
<1>6. ASSUME NEW c \in calls PROVE Remembered(c)'
  <2>1. Remembered(c)
    BY CallFields
  <2> QED BY <1>0, <2>1 DEF Remembered
<1>7. /\ FallbackAfterTimeout' /\ MerchantScopeKept' /\ OnlyDecidedAgents'
      /\ OrphanOnlyAfterRestart'
  BY <1>0 DEF IntentInv, FallbackAfterTimeout, MerchantScopeKept, OnlyDecidedAgents,
              OrphanOnlyAfterRestart
<1>8. CompletedMeansExecuted'
  BY <1>0, <1>1 DEF IntentInv, CompletedMeansExecuted
<1> QED BY <1>0, <1>3, <1>4, <1>5, <1>6, <1>7, <1>8 DEF IntentInv

\* An eviction ends the handlers of an intent; row, calls and locals remain.
LEMMA RestartInv ==
    ASSUME IntentAssumption, IntentInv, NEW i \in Ids, Restart(i)
    PROVE  IntentInv'
<1>1. /\ UNCHANGED <<worldVars, routeEvent, row, local, calls, executed>>
      /\ restarts' = restarts + 1
  BY DEF Restart
<1>2. /\ pc \in [Requests -> Labels] /\ restarts \in Nat /\ DOMAIN answer = Requests
  BY DEF IntentInv, TypeOK, WellFormed, Labels
<1>3. /\ pc' \in [Requests -> Labels] /\ DOMAIN answer' = Requests
      /\ \A q \in Requests : \/ pc'[q] = "done" /\ answer'[q] = "error" /\ pc[q] \in Running
                             \/ pc'[q] = pc[q] /\ answer'[q] = answer[q]
  BY <1>2 DEF Restart, Labels
<1>4. "done" \notin Running
  BY DEF Running
<1>5. TypeOK'
  BY <1>1, <1>3 DEF IntentInv, TypeOK, worldVars, Labels
<1>6. WellFormed'
  BY <1>1, <1>2, <1>3 DEF IntentInv, WellFormed, worldVars
<1>7. ASSUME NEW q \in Requests PROVE Decided(q)' /\ Owns(q)'
  <2>1. Decided(q) /\ Owns(q)
    BY DEF IntentInv
  <2>2. Decided(q)'
    BY <1>1, <1>3, <1>4, <2>1 DEF Decided
  <2>3. Owns(q)'
    BY <1>1, <1>3, <1>4, <2>1 DEF Owns, Call, Target
  <2> QED BY <2>2, <2>3
<1>8. ASSUME NEW c \in calls PROVE Remembered(c)'
  <2>1. c.request \in Requests /\ Remembered(c)
    BY CallFields
  <2> QED BY <1>1, <1>3, <1>4, <2>1 DEF Remembered
<1>9. FallbackAfterTimeout' /\ MerchantScopeKept' /\ OnlyDecidedAgents'
  BY <1>1 DEF IntentInv, FallbackAfterTimeout, MerchantScopeKept, OnlyDecidedAgents
<1>10. CompletedMeansExecuted'
  BY <1>1, <1>3 DEF IntentInv, CompletedMeansExecuted
<1>11. OrphanOnlyAfterRestart'
  BY <1>1, <1>2 DEF OrphanOnlyAfterRestart
<1> QED BY <1>1, <1>5, <1>6, <1>7, <1>8, <1>9, <1>10, <1>11 DEF IntentInv

\* The registry the requests read is one of admitted agents.
LEMMA RegistryStored ==
    ASSUME IntentAssumption, IntentInv
    PROVE  Stored(registry)
<1>1. DOMAIN registry = Agents
  BY DEF IntentInv, TypeOK
<1>2. ASSUME NEW a \in Agents
      PROVE  /\ registry[a].fallback \in Agents \cup {NoAgent}
             /\ \A x \in Attributes : registry[a].attributes[x] \in Nat
  <2>1. registry[a].fallback = agentFacts[a].fallback
        /\ registry[a].attributes = agentFacts[a].attributes
    <3>1. PICK b, n : registry[a] = Record(a, b, n)
      BY DEF IntentInv, WellFormed
    <3> QED BY <3>1 DEF Record
  <2>2. agentFacts[a] \in [category : Nat, fallback : Agents \cup {NoAgent},
                           attributes : [Attributes -> Nat]]
    BY DEF IntentAssumption
  <2> QED BY <2>1, <2>2
<1> QED BY <1>1, <1>2 DEF Stored

\* A request before its dispatch: the part EarlyStep asks of every action.
LEMMA EarlyTypes ==
    ASSUME IntentAssumption, IntentInv, NEW r \in Requests, pc[r] \notin Running \cup {"done"}
    PROVE  /\ pc \in [Requests -> Labels] /\ DOMAIN local = Requests
           /\ DOMAIN answer = Requests /\ DOMAIN local[r] = DOMAIN NoCall
           /\ local[r].authority \in Authorities /\ local[r].decision \in Decisions
           /\ local[r].role = "selected" /\ local[r].attempts = <<>>
           /\ DOMAIN routeEvent = Ids /\ Id(r) \in Ids
           /\ \A i \in Ids : /\ DOMAIN routeEvent[i] = DOMAIN NoEvent
                             /\ routeEvent[i] # NoEvent => routeEvent[i].decision \in Decisions
           /\ Decided(r)
BY DEF IntentInv, TypeOK, WellFormed, Owns, Labels, Ids, Id

\* An answer to a request that never ran, or a step to the next label.
LEMMA EarlyAnswer ==
    ASSUME IntentAssumption, IntentInv, NEW r \in Requests, pc[r] \notin Running \cup {"done"},
           NEW code, Respond(r, code), code = "completed" => row[Id(r)].state = "completed",
           UNCHANGED <<worldVars, local, row, calls, executed, restarts>>,
           DOMAIN routeEvent' = Ids,
           \A i \in Ids : /\ DOMAIN routeEvent'[i] = DOMAIN NoEvent
                          /\ routeEvent'[i] # NoEvent => routeEvent'[i].decision \in Decisions
                          /\ routeEvent[i] # NoEvent => routeEvent'[i] = routeEvent[i]
    PROVE  IntentInv'
<1>1. /\ pc'[r] = "done" /\ answer'[r] = code /\ pc' \in [Requests -> Labels]
      /\ DOMAIN answer' = Requests
      /\ \A q \in Requests \ {r} : pc'[q] = pc[q] /\ answer'[q] = answer[q]
  BY EarlyTypes DEF Respond, Labels
<1>2. "done" \notin Running
  BY DEF Running
<1>3. Decided(r)'
  BY <1>1, <1>2 DEF Decided
<1> QED BY <1>1, <1>2, <1>3, EarlyTypes, EarlyStep

LEMMA ReceiveInv ==
    ASSUME IntentAssumption, IntentInv, NEW r \in Requests, Receive(r)
    PROVE  IntentInv'
<1>0. pc[r] = "start" /\ pc[r] \notin Running \cup {"done"}
  BY DEF Receive, Running
<1>1. ASSUME NEW code \in {"intent_malformed", "selection_policy_invalid",
                           "theme_deployment_not_found"},
             Respond(r, code), UNCHANGED local
      PROVE  IntentInv'
  BY <1>0, <1>1, EarlyTypes, EarlyAnswer DEF Receive
<1>2. CASE intent[r].listing = NoListing /\ Goto(r, "route") /\ UNCHANGED local
  <2>1. /\ pc'[r] = "route" /\ pc' \in [Requests -> Labels] /\ UNCHANGED answer
        /\ \A q \in Requests \ {r} : pc'[q] = pc[q]
    BY <1>0, <1>2, EarlyTypes DEF Goto, Labels
  <2>2. Decided(r)'
    BY <1>2, <2>1 DEF Decided, Running
  <2>3. pc'[r] \notin Running /\ (answer'[r] = "completed" => row[Id(r)].state = "completed")
    BY <2>1 DEF Running, IntentInv, CompletedMeansExecuted
  <2> QED BY <1>0, <1>2, <2>1, <2>2, <2>3, EarlyTypes, EarlyStep DEF Receive
<1>3. CASE local' = [local EXCEPT ![r].scope = theme] /\ Goto(r, "target")
  <2>1. /\ pc'[r] = "target" /\ pc' \in [Requests -> Labels] /\ UNCHANGED answer
        /\ \A q \in Requests \ {r} : pc'[q] = pc[q]
    BY <1>0, <1>3, EarlyTypes DEF Goto, Labels
  <2>2. Decided(r)'
    BY <2>1 DEF Decided, Running
  <2>3. pc'[r] \notin Running /\ (answer'[r] = "completed" => row[Id(r)].state = "completed")
    BY <2>1 DEF Running, IntentInv, CompletedMeansExecuted
  <2>4. /\ DOMAIN local' = Requests /\ DOMAIN local'[r] = DOMAIN NoCall
        /\ local'[r].authority = local[r].authority /\ local'[r].decision = local[r].decision
        /\ local'[r].role = local[r].role /\ local'[r].attempts = local[r].attempts
        /\ \A q \in Requests \ {r} : local'[q] = local[q]
    BY <1>0, <1>3, EarlyTypes DEF NoCall
  <2> QED BY <1>0, <2>1, <2>2, <2>3, <2>4, EarlyTypes, EarlyStep DEF Receive
<1> QED BY <1>1, <1>2, <1>3 DEF Receive

LEMMA ResolveTargetInv ==
    ASSUME IntentAssumption, IntentInv, NEW r \in Requests, ResolveTarget(r)
    PROVE  IntentInv'
<1> DEFINE listing == intent[r].listing
           scope == local[r].scope
           target == [pinned |-> listing,
                      fallback |-> ResolveEligibleMerchantFallback(registry, listing,
                                                                   intent[r].category, scope)]
<1>0. pc[r] = "target" /\ pc[r] \notin Running \cup {"done"}
  BY DEF ResolveTarget, Running
<1>1. ASSUME NEW code \in {"listing_not_found", "merchant_listing_category_mismatch"},
             Respond(r, code), UNCHANGED local
      PROVE  IntentInv'
  BY <1>0, <1>1, EarlyTypes, EarlyAnswer DEF ResolveTarget
<1>2. CASE /\ listing \in MerchantListings(registry, scope)
           /\ local' = [local EXCEPT ![r].authority = target] /\ Goto(r, "route")
  <2>1. /\ pc'[r] = "route" /\ pc' \in [Requests -> Labels] /\ UNCHANGED answer
        /\ \A q \in Requests \ {r} : pc'[q] = pc[q]
    BY <1>0, <1>2, EarlyTypes DEF Goto, Labels
  <2>2. listing \in Agents \cap scope
    BY <1>2 DEF MerchantListings, IntentInv, TypeOK
  <2>3. target.fallback \in Agents \cup {NoAgent} /\ target.fallback \in scope \cup {NoAgent}
    BY DEF ResolveEligibleMerchantFallback, Eligible, IntentInv, TypeOK
  <2>4. target \in Authorities
    BY <2>2, <2>3 DEF Authorities
  <2> HIDE DEF target
  <2>5. /\ DOMAIN local' = Requests /\ DOMAIN local'[r] = DOMAIN NoCall
        /\ local'[r].authority = target /\ local'[r].decision = local[r].decision
        /\ local'[r].role = local[r].role /\ local'[r].attempts = local[r].attempts
        /\ local'[r].scope = local[r].scope
        /\ \A q \in Requests \ {r} : local'[q] = local[q]
    BY <1>0, <1>2, EarlyTypes DEF NoCall
  <2>6. Decided(r)'
    <3>1. target.pinned = listing
      BY DEF target
    <3> QED BY <2>1, <2>2, <2>3, <2>5, <3>1 DEF Decided, Running
  <2>7. pc'[r] \notin Running /\ (answer'[r] = "completed" => row[Id(r)].state = "completed")
    BY <2>1 DEF Running, IntentInv, CompletedMeansExecuted
  <2> QED BY <1>0, <2>1, <2>4, <2>5, <2>6, <2>7, EarlyTypes, EarlyStep DEF ResolveTarget
<1> QED BY <1>1, <1>2 DEF ResolveTarget

LEMMA RouteReadInv ==
    ASSUME IntentAssumption, IntentInv, NEW r \in Requests, RouteRead(r)
    PROVE  IntentInv'
<1> DEFINE decision == RouteIntentExclusively(registry, intent[r].category, weights,
                                              local[r].authority)
<1>0. pc[r] = "route" /\ pc[r] \notin Running \cup {"done"}
  BY DEF RouteRead, Running
<1>1. decision \in Decisions
  BY <1>0, EarlyTypes, RegistryStored, DecisionTyped
<1> HIDE DEF decision
<1>2. /\ pc'[r] = "decide" /\ pc' \in [Requests -> Labels] /\ UNCHANGED answer
      /\ \A q \in Requests \ {r} : pc'[q] = pc[q]
  BY <1>0, EarlyTypes DEF RouteRead, Goto, Labels
<1>3. local' = [local EXCEPT ![r].decision = decision, ![r].prior = routeEvent[Id(r)]]
  BY DEF RouteRead, decision
<1>4. /\ DOMAIN local' = Requests /\ DOMAIN local'[r] = DOMAIN NoCall
      /\ local'[r].decision = decision /\ local'[r].prior = routeEvent[Id(r)]
      /\ local'[r].authority = local[r].authority /\ local'[r].scope = local[r].scope
      /\ local'[r].role = local[r].role /\ local'[r].attempts = local[r].attempts
      /\ \A q \in Requests \ {r} : local'[q] = local[q]
  BY <1>0, <1>3, EarlyTypes DEF NoCall
<1>5. Decided(r)'
  BY <1>0, <1>2, <1>4, EarlyTypes DEF Decided, Running, RouteRead
<1>6. pc'[r] \notin Running /\ (answer'[r] = "completed" => row[Id(r)].state = "completed")
  BY <1>2 DEF Running, IntentInv, CompletedMeansExecuted
<1> QED BY <1>0, <1>1, <1>2, <1>4, <1>5, <1>6, EarlyTypes, EarlyStep DEF RouteRead

\* The decision a request follows has been stored, by it or before it read.
LEMMA FollowDecisionInv ==
    ASSUME IntentAssumption, IntentInv, NEW r \in Requests, pc[r] = "decide",
           FollowDecision(r), UNCHANGED <<worldVars, local, row, calls, executed, restarts>>,
           DOMAIN routeEvent' = Ids,
           \A i \in Ids : /\ DOMAIN routeEvent'[i] = DOMAIN NoEvent
                          /\ routeEvent'[i] # NoEvent => routeEvent'[i].decision \in Decisions
                          /\ routeEvent[i] # NoEvent => routeEvent'[i] = routeEvent[i],
           routeEvent'[Id(r)] # NoEvent, routeEvent'[Id(r)].decision = local[r].decision
    PROVE  IntentInv'
<1>0. pc[r] \notin Running \cup {"done"}
  BY DEF Running
<1>1. ASSUME NEW code \in {"no-dispatch", "registry_route_drift"}, Respond(r, code)
      PROVE  IntentInv'
  BY <1>0, <1>1, EarlyAnswer
<1>2. CASE /\ local[r].authority # NoAuthority =>
                 <<local[r].decision.agent, local[r].decision.fallback>>
                    = <<local[r].authority.pinned, local[r].authority.fallback>>
           /\ Goto(r, "list")
  <2>1. /\ pc'[r] = "list" /\ pc' \in [Requests -> Labels] /\ UNCHANGED answer
        /\ \A q \in Requests \ {r} : pc'[q] = pc[q]
    BY <1>0, <1>2, EarlyTypes DEF Goto, Labels
  <2>2. Decided(r)'
    BY <1>0, <1>2, <2>1, EarlyTypes DEF Decided, Running
  <2>3. pc'[r] \notin Running /\ (answer'[r] = "completed" => row[Id(r)].state = "completed")
    BY <2>1 DEF Running, IntentInv, CompletedMeansExecuted
  <2> QED BY <1>0, <2>1, <2>2, <2>3, EarlyTypes, EarlyStep
<1> QED BY <1>1, <1>2 DEF FollowDecision

LEMMA RouteCommitInv ==
    ASSUME IntentAssumption, IntentInv, NEW r \in Requests, RouteCommit(r)
    PROVE  IntentInv'
<1> DEFINE new == [digest |-> RouteDigest(r), decision |-> local[r].decision]
<1>0. /\ pc[r] = "decide" /\ pc[r] \notin Running \cup {"done"}
      /\ UNCHANGED <<worldVars, row, local, calls, executed, restarts>>
  BY DEF RouteCommit, Running
<1>1. ASSUME NEW code \in {"intent_precondition_failed", "intent_registration_drift", "error"},
             Respond(r, code), UNCHANGED routeEvent
      PROVE  IntentInv'
  BY <1>0, <1>1, EarlyTypes, EarlyAnswer
<1>2. CASE /\ local[r].prior # NoEvent /\ local[r].prior.decision = local[r].decision
           /\ FollowDecision(r) /\ UNCHANGED routeEvent
  <2>1. routeEvent[Id(r)] = local[r].prior
    BY <1>0, <1>2, EarlyTypes DEF Decided
  <2> QED BY <1>0, <1>2, <2>1, EarlyTypes, FollowDecisionInv
<1>3. CASE /\ routeEvent[Id(r)] = NoEvent /\ FollowDecision(r)
           /\ routeEvent' = [routeEvent EXCEPT ![Id(r)] = new]
  <2>1. new # NoEvent
    <3>1. new.digest = RouteDigest(r) /\ NoEvent.digest = <<>>
      BY DEF NoEvent
    <3>2. RouteDigest(r) # <<>>
      BY DEF RouteDigest
    <3> QED BY <3>1, <3>2
  <2>2. new.decision = local[r].decision /\ DOMAIN new = DOMAIN NoEvent
    BY DEF NoEvent
  <2> HIDE DEF new
  <2>3. /\ DOMAIN routeEvent' = Ids /\ routeEvent'[Id(r)] = new
        /\ \A i \in Ids \ {Id(r)} : routeEvent'[i] = routeEvent[i]
    BY <1>0, <1>3, EarlyTypes
  <2>4. \A i \in Ids : /\ DOMAIN routeEvent'[i] = DOMAIN NoEvent
                       /\ routeEvent'[i] # NoEvent => routeEvent'[i].decision \in Decisions
                       /\ routeEvent[i] # NoEvent => routeEvent'[i] = routeEvent[i]
    BY <1>0, <1>3, <2>2, <2>3, EarlyTypes
  <2> QED BY <1>0, <1>3, <2>1, <2>2, <2>3, <2>4, FollowDecisionInv
<1> QED BY <1>1, <1>2, <1>3 DEF RouteCommit

LEMMA ListInv ==
    ASSUME IntentAssumption, IntentInv, NEW r \in Requests, List(r)
    PROVE  IntentInv'
<1>0. /\ pc[r] = "list" /\ pc[r] \notin Running \cup {"done"}
      /\ UNCHANGED <<worldVars, routeEvent, row, calls, executed, restarts>>
  BY DEF List, Running
<1>1. CASE Respond(r, "registry_route_drift") /\ UNCHANGED local
  BY <1>0, <1>1, EarlyTypes, EarlyAnswer
<1>2. ASSUME NEW digest, Eligible(registry, local[r].decision.agent, intent[r].category),
             local' = [local EXCEPT ![r].agent = local[r].decision.agent,
                                    ![r].fallback = local[r].decision.fallback,
                                    ![r].digest = digest],
             Goto(r, "dispatch")
      PROVE  IntentInv'
  <2>1. /\ pc'[r] = "dispatch" /\ pc' \in [Requests -> Labels] /\ UNCHANGED answer
        /\ \A q \in Requests \ {r} : pc'[q] = pc[q]
    BY <1>0, <1>2, EarlyTypes DEF Goto, Labels
  <2>2. /\ DOMAIN local' = Requests /\ DOMAIN local'[r] = DOMAIN NoCall
        /\ local'[r].agent = local[r].decision.agent
        /\ local'[r].fallback = local[r].decision.fallback
        /\ local'[r].decision = local[r].decision
        /\ local'[r].authority = local[r].authority /\ local'[r].scope = local[r].scope
        /\ local'[r].role = local[r].role /\ local'[r].attempts = local[r].attempts
        /\ \A q \in Requests \ {r} : local'[q] = local[q]
    BY <1>0, <1>2, EarlyTypes DEF NoCall
  <2>3. local[r].decision.agent \in Agents
    BY <1>2 DEF Eligible, IntentInv, TypeOK
  <2>4. Decided(r)'
    BY <1>0, <2>1, <2>2, <2>3, EarlyTypes DEF Decided, Running
  <2>5. pc'[r] \notin Running /\ (answer'[r] = "completed" => row[Id(r)].state = "completed")
    BY <2>1 DEF Running, IntentInv, CompletedMeansExecuted
  <2> QED BY <1>0, <2>1, <2>2, <2>4, <2>5, EarlyTypes, EarlyStep
<1> QED BY <1>1, <1>2 DEF List

\* A second request of an intent that has a row only reads it.
LEMMA PriorDispatchInv ==
    ASSUME IntentAssumption, IntentInv, NEW r \in Requests, DispatchRow(r), row[Id(r)] # NoRow
    PROVE  IntentInv'
<1>0. /\ pc[r] = "dispatch" /\ pc[r] \notin Running \cup {"done"} /\ UNCHANGED row
      /\ UNCHANGED <<worldVars, routeEvent, local, calls, executed, restarts>>
  BY DEF DispatchRow, Running
<1>1. \E code \in {"intent_dispatch_precondition_failed", "completed", "dispatch_result_unknown"} :
         Respond(r, code) /\ (code = "completed" => row[Id(r)].state = "completed")
  BY DEF DispatchRow
<1> QED BY <1>0, <1>1, EarlyTypes, EarlyAnswer

\* A handler that runs.
LEMMA RunnerTypes ==
    ASSUME IntentAssumption, IntentInv, NEW r \in Requests, pc[r] \in Running
    PROVE  /\ pc \in [Requests -> Labels] /\ DOMAIN local = Requests
           /\ DOMAIN local[r] = DOMAIN NoCall /\ Owns(r)
BY DEF IntentInv, TypeOK, WellFormed, Labels

\* A step within an attempt that at most notes a reply or the deadline.
LEMMA WithinAttempt ==
    ASSUME IntentAssumption, IntentInv, NEW r \in Requests, NEW label \in Running,
           NEW reply, NEW aborted,
           pc[r] \in Running, pc' = [pc EXCEPT ![r] = label],
           local' = [local EXCEPT ![r] = [@ EXCEPT !.reply = reply, !.aborted = aborted]],
           label \in {"evidence", "initialize", "call"} =>
               pc[r] \in {"evidence", "initialize", "call"},
           label \in {"close", "settle"} /\ reply = "result" => Call(r) \in executed,
           UNCHANGED <<worldVars, routeEvent, row, answer, calls, executed, restarts>>
    PROVE  IntentInv'
<1>1. /\ pc'[r] = label /\ pc' \in [Requests -> Labels]
      /\ \A q \in Requests \ {r} : pc'[q] = pc[q]
  BY RunnerTypes DEF Labels
<1>2. /\ DOMAIN local' = Requests /\ DOMAIN local'[r] = DOMAIN NoCall
      /\ local'[r].scope = local[r].scope /\ local'[r].authority = local[r].authority
      /\ local'[r].decision = local[r].decision /\ local'[r].agent = local[r].agent
      /\ local'[r].fallback = local[r].fallback /\ local'[r].role = local[r].role
      /\ local'[r].attempts = local[r].attempts /\ local'[r].reply = reply
      /\ \A q \in Requests \ {r} : local'[q] = local[q]
  BY RunnerTypes DEF NoCall
<1>3. (pc[r] \in {"close", "settle"} /\ local[r].reply = "result" => Call(r) \in executed)'
  BY <1>1, <1>2 DEF Call, Target
<1> QED BY <1>1, <1>2, <1>3, RunnerGoesOn

\* Fail and Goto are such steps.
LEMMA FailStep ==
    ASSUME IntentAssumption, IntentInv, NEW r \in Requests, NEW label \in Running, NEW reply,
           pc[r] \in Running, Fail(r, reply, label),
           label \notin {"evidence", "initialize", "call"},
           reply = "result" => Call(r) \in executed,
           UNCHANGED <<worldVars, routeEvent, row, calls, executed, restarts>>
    PROVE  IntentInv'
<1>1. local' = [local EXCEPT ![r] = [@ EXCEPT !.reply = reply, !.aborted = local[r].aborted]]
  <2>1. [local[r] EXCEPT !.reply = reply]
           = [local[r] EXCEPT !.reply = reply, !.aborted = local[r].aborted]
    BY RunnerTypes DEF NoCall
  <2> QED BY <2>1, RunnerTypes DEF Fail
<1>2. pc' = [pc EXCEPT ![r] = label] /\ UNCHANGED answer
  BY DEF Fail, Goto
<1> QED BY <1>1, <1>2, WithinAttempt

LEMMA GotoStep ==
    ASSUME IntentAssumption, IntentInv, NEW r \in Requests, NEW label \in Running,
           pc[r] \in Running, Goto(r, label), UNCHANGED local,
           label \in {"evidence", "initialize", "call"} =>
               pc[r] \in {"evidence", "initialize", "call"},
           label \in {"close", "settle"} => pc[r] \in {"close", "settle"},
           UNCHANGED <<worldVars, routeEvent, row, calls, executed, restarts>>
    PROVE  IntentInv'
<1>1. /\ pc'[r] = label /\ pc' \in [Requests -> Labels] /\ UNCHANGED answer
      /\ \A q \in Requests \ {r} : pc'[q] = pc[q]
  BY RunnerTypes DEF Goto, Labels
<1>2. (pc[r] \in {"close", "settle"} /\ local[r].reply = "result" => Call(r) \in executed)'
  BY <1>1, RunnerTypes DEF Owns, Call, Target
<1> QED BY <1>1, <1>2, RunnerTypes, RunnerGoesOn

\* The steps of a handler between its row and its outcome.
LEMMA AttemptInv ==
    ASSUME IntentAssumption, IntentInv, NEW r \in Requests,
           \/ Evidence(r) \/ Initialize(r) \/ SendCall(r) \/ AwaitAnswer(r)
           \/ CloseSession(r) \/ Deadline(r)
    PROVE  IntentInv'
<1>0. Running = {"evidence", "initialize", "call", "await", "close", "settle"}
  BY DEF Running
<1>1. CASE Evidence(r)
  BY <1>0, <1>1, FailStep, GotoStep DEF Evidence
<1>2. CASE Initialize(r)
  BY <1>0, <1>2, FailStep, GotoStep DEF Initialize
<1>3. CASE SendCall(r)
  <2>1. CASE calls' = calls \cup {Call(r)} /\ Goto(r, "await") /\ UNCHANGED local
    BY <1>3, <2>1, SendCallInv DEF SendCall, Goto
  <2>2. CASE \E e \in {"mcpError", "timer"} : Fail(r, e, "close") /\ UNCHANGED calls
    BY <1>0, <1>3, <2>2, FailStep DEF SendCall
  <2> QED BY <1>3, <2>1, <2>2 DEF SendCall
<1>4. CASE AwaitAnswer(r)
  BY <1>0, <1>4, FailStep DEF AwaitAnswer, Errors
<1>5. CASE CloseSession(r)
  BY <1>0, <1>5, GotoStep DEF CloseSession
<1>6. CASE Deadline(r)
  <2>1. pc[r] \in Running /\ pc' = [pc EXCEPT ![r] = pc[r]]
    BY <1>6, RunnerTypes DEF Deadline
  <2>2. local' = [local EXCEPT ![r] = [@ EXCEPT !.reply = local[r].reply, !.aborted = TRUE]]
    <3>1. [local[r] EXCEPT !.aborted = TRUE]
             = [local[r] EXCEPT !.reply = local[r].reply, !.aborted = TRUE]
      BY <2>1, RunnerTypes DEF NoCall
    <3> QED BY <1>6, <2>1, <3>1, RunnerTypes DEF Deadline
  <2>3. pc[r] \in {"close", "settle"} /\ local[r].reply = "result" => Call(r) \in executed
    BY <2>1, RunnerTypes DEF Owns
  <2> QED BY <1>6, <2>1, <2>2, <2>3, WithinAttempt DEF Deadline
<1> QED BY <1>1, <1>2, <1>3, <1>4, <1>5, <1>6

\* The outcome of an attempt.
LEMMA Outcomes ==
    ASSUME NEW r, NEW receiptValid
    PROVE  /\ Outcome(r, receiptValid) \in {"completed", "timeout", "failed"}
           /\ Outcome(r, receiptValid) = "completed" => local[r].reply = "result"
BY DEF Outcome

LEMMA SettleInv ==
    ASSUME IntentAssumption, IntentInv, NEW r \in Requests, Settle(r)
    PROVE  IntentInv'
<1>1. PICK receiptValid \in BOOLEAN :
        LET outcome == Outcome(r, receiptValid)
            attempts == Append(local[r].attempts, <<Target(r), outcome>>)
            retry == /\ outcome \in {"timeout"}
                     /\ local[r].role = "selected"
                     /\ local[r].fallback # NoAgent
        IN  /\ pc[r] = "settle"
            /\ \/ /\ outcome = "completed"
                  /\ WriteOutcome(r, "completed", attempts)
                  /\ Respond(r, "completed") /\ UNCHANGED local
               \/ /\ retry
                  /\ local' = [local EXCEPT ![r].role = "fallback", ![r].reply = "none",
                                            ![r].aborted = FALSE, ![r].attempts = attempts]
                  /\ Goto(r, "evidence") /\ UNCHANGED row
               \/ /\ outcome # "completed" /\ ~retry
                  /\ WriteOutcome(r, "unknown", attempts)
                  /\ Respond(r, "unknown") /\ UNCHANGED local
            /\ UNCHANGED <<worldVars, routeEvent, calls, executed, restarts>>
  BY DEF Settle, SettleAttempt
<1>2. PICK outcome \in {"completed", "timeout", "failed"} :
         /\ outcome = Outcome(r, receiptValid)
         /\ outcome = "completed" => local[r].reply = "result"
  BY Outcomes
<1>3. /\ pc[r] = "settle" /\ pc[r] \in Running
      /\ UNCHANGED <<worldVars, routeEvent, calls, executed, restarts>>
  BY <1>1 DEF Running
<1>4. CASE \E state \in {"completed", "unknown"} :
              /\ state = "completed" => outcome = "completed"
              /\ WriteOutcome(r, state, Append(local[r].attempts, <<Target(r), outcome>>))
              /\ Respond(r, state) /\ UNCHANGED local
  BY <1>2, <1>3, <1>4, SettledInv
<1>5. CASE /\ outcome = "timeout" /\ local[r].role = "selected" /\ local[r].fallback # NoAgent
           /\ local' = [local EXCEPT ![r].role = "fallback", ![r].reply = "none",
                                     ![r].aborted = FALSE,
                                     ![r].attempts = Append(local[r].attempts,
                                                            <<Target(r), outcome>>)]
           /\ Goto(r, "evidence") /\ UNCHANGED row
  <2>1. local[r].attempts = <<>>
    BY <1>3, <1>5, RunnerTypes DEF Owns
  <2>2. Append(local[r].attempts, <<Target(r), outcome>>) = <<<<local[r].agent, "timeout">>>>
    BY <1>5, <2>1 DEF Target
  <2>3. /\ DOMAIN local' = Requests /\ DOMAIN local'[r] = DOMAIN NoCall
        /\ local'[r].scope = local[r].scope /\ local'[r].authority = local[r].authority
        /\ local'[r].decision = local[r].decision /\ local'[r].agent = local[r].agent
        /\ local'[r].fallback = local[r].fallback /\ local'[r].role = "fallback"
        /\ local'[r].attempts = Append(local[r].attempts, <<Target(r), outcome>>)
        /\ \A q \in Requests \ {r} : local'[q] = local[q]
    BY <1>3, <1>5, RunnerTypes DEF NoCall
  <2>4. /\ pc'[r] = "evidence" /\ pc' \in [Requests -> Labels] /\ pc'[r] \in Running
        /\ \A q \in Requests \ {r} : pc'[q] = pc[q]
    BY <1>3, <1>5, RunnerTypes DEF Goto, Labels, Running
  <2>5. (pc[r] \in {"close", "settle"} /\ local[r].reply = "result" => Call(r) \in executed)'
    BY <2>4
  <2> QED BY <1>3, <1>5, <2>2, <2>3, <2>4, <2>5, RunnerGoesOn DEF Goto
<1> QED BY <1>1, <1>2, <1>4, <1>5

\* IntentInv is inductive.
LEMMA IntentNextInv ==
    ASSUME IntentAssumption, IntentInv, [Next]_vars
    PROVE  IntentInv'
BY WorldInv, RestartInv, ReceiveInv, ResolveTargetInv, RouteReadInv, RouteCommitInv, ListInv,
   DispatchRowInv, PriorDispatchInv, AttemptInv, SettleInv DEF Next, RunnerStep

LEMMA IntentInvariance == ASSUME IntentAssumption PROVE Spec => []IntentInv
<1>1. Init => IntentInv
  BY InitIntentInv
<1>2. IntentInv /\ [Next]_vars => IntentInv'
  BY IntentNextInv
<1> QED BY <1>1, <1>2, PTL DEF Spec
-----------------------------------------------------------------------------
\* Stored decisions, rows, calls and handlers stay in their types.
THEOREM IntentTypeCorrect == ASSUME IntentAssumption PROVE Spec => []TypeOK
BY IntentInvariance, PTL DEF IntentInv

\* An intent is dispatched at most once to a selected agent and at most once
\* to a fallback, whatever the retries, races and restarts.
THEOREM AtMostOneCallPerRole == ASSUME IntentAssumption PROVE Spec => []OneCallPerRole
<1>1. IntentInv => OneCallPerRole
  <2> SUFFICES ASSUME IntentInv, NEW c \in calls, NEW d \in calls,
                      c.id = d.id, c.role = d.role
               PROVE  c = d
    BY DEF OneCallPerRole
  <2>1. /\ c \in [request : Requests, id : Ids, role : Roles, agent : Agents]
        /\ d \in [request : Requests, id : Ids, role : Roles, agent : Agents]
    BY DEF IntentInv, TypeOK
  <2>2. c.request = d.request /\ c.agent = d.agent
    BY CallFields DEF Remembered
  <2> QED BY <2>1, <2>2
<1> QED BY <1>1, IntentInvariance, PTL

\* The fallback is called only after an attempt that ended as a timeout.
THEOREM FallbackNeedsTimeout == ASSUME IntentAssumption PROVE Spec => []FallbackAfterTimeout
BY IntentInvariance, PTL DEF IntentInv

\* Only the agents of the one stored decision are ever called, in their roles.
THEOREM DecidedAgentsCalled == ASSUME IntentAssumption PROVE Spec => []OnlyDecidedAgents
BY IntentInvariance, PTL DEF IntentInv

\* An intent of a merchant calls only agents of the scope its request read.
THEOREM MerchantScopeHolds == ASSUME IntentAssumption PROVE Spec => []MerchantScopeKept
BY IntentInvariance, PTL DEF IntentInv

\* What is stored or answered as completed, a provider has executed.
THEOREM CompletionIsTrue == ASSUME IntentAssumption PROVE Spec => []CompletedMeansExecuted
BY IntentInvariance, PTL DEF IntentInv

\* A row without a handler is the work of a restart.
THEOREM RowsKeepTheirHandler == ASSUME IntentAssumption PROVE Spec => []OrphanOnlyAfterRestart
BY IntentInvariance, PTL DEF IntentInv
=============================================================================
