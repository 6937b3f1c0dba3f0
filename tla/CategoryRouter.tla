--------------------------- MODULE CategoryRouter ---------------------------
(***************************************************************************)
(* The pure routing decision: routeIntentExclusively, the weighted min-max *)
(* selection policy, and the merchant's target with its fallback.          *)
(*                                                                         *)
(* A registry is a function from the stored agents to their records; the   *)
(* order of agent identifiers is the order of the integers that stand for  *)
(* them.  Scores are compared exactly, over their common denominator,      *)
(* where the code divides in floating point.                               *)
(***************************************************************************)
EXTENDS Integers, FiniteSets

CONSTANTS
    NoAgent          \* null in the place of an agent identifier

Attributes == {"price", "quality", "latency"}
-----------------------------------------------------------------------------
\* readSelectionPolicy: weights are not negative and not all zero.
ReadSelectionPolicy(weights) ==
    /\ \A x \in Attributes : weights[x] >= 0
    /\ \E x \in Attributes : weights[x] > 0

Minimum(S) == CHOOSE v \in S : \A w \in S : v <= w
Maximum(S) == CHOOSE v \in S : \A w \in S : w <= v

\* range: the values of one attribute over the candidates.
Values(registry, candidates, x) == {registry[a].attributes[x] : a \in candidates}
Span(registry, candidates, x) ==
    LET values == Values(registry, candidates, x) IN Maximum(values) - Minimum(values)

\* normalizeCost and normalizeBenefit as numerator and denominator; an
\* attribute on which all candidates agree counts as 1.
Denominator(registry, candidates, x) ==
    IF Span(registry, candidates, x) = 0 THEN 1 ELSE Span(registry, candidates, x)

\* Mutant: the cost attributes are normalised as benefits.
Numerator_AllBenefits(registry, candidates, a, x) ==
    LET values == Values(registry, candidates, x)
    IN  IF Span(registry, candidates, x) = 0 THEN 1
        ELSE registry[a].attributes[x] - Minimum(values)

Numerator(registry, candidates, a, x) ==
    LET values == Values(registry, candidates, x)
        value == registry[a].attributes[x]
    IN  IF Span(registry, candidates, x) = 0 THEN 1
        ELSE IF x = "quality" THEN value - Minimum(values) ELSE Maximum(values) - value

\* score, multiplied by the total weight and by the three denominators, which
\* are the same for every candidate.
Score(registry, candidates, weights, a) ==
    LET n(x) == Numerator(registry, candidates, a, x)
        d(x) == Denominator(registry, candidates, x)
    IN  weights["price"] * n("price") * d("quality") * d("latency")
        + weights["quality"] * n("quality") * d("price") * d("latency")
        + weights["latency"] * n("latency") * d("price") * d("quality")

\* selectAgent: the highest score, and of those the smallest identifier.
SelectAgent(registry, candidates, weights) ==
    IF candidates = {} \/ ~ReadSelectionPolicy(weights) THEN NoAgent
    ELSE LET score(a) == Score(registry, candidates, weights, a)
             best == {a \in candidates : \A b \in candidates : score(b) <= score(a)}
         IN  Minimum(best)
-----------------------------------------------------------------------------
\* eligibleRouteAgent, and the filters of routeIntentExclusively: active,
\* admitted with the invocation pin of this build, and of the category.
Eligible(registry, a, category) ==
    /\ a \in DOMAIN registry
    /\ registry[a].active
    /\ registry[a].admissionVerified
    /\ registry[a].category = category

Candidates(registry, category) ==
    {a \in DOMAIN registry : Eligible(registry, a, category)}

NoDispatch(reason) ==
    [status |-> "no-dispatch", reason |-> reason, agent |-> NoAgent, fallback |-> NoAgent]
Dispatch(a, f) ==
    [status |-> "dispatch", reason |-> "none", agent |-> a, fallback |-> f]

\* The authority of a merchant intent pins an agent and its fallback.
NoAuthority == [pinned |-> NoAgent, fallback |-> NoAgent]

\* readPinnedRouteAuthority: an agent is not its own fallback.
ReadPinnedRouteAuthority(authority) ==
    authority.pinned # NoAgent => authority.pinned # authority.fallback

\* Mutant: the pinned agent is not singled out among the candidates.
RouteIntentExclusively_IgnoresPin(registry, category, weights, authority) ==
    LET candidates == Candidates(registry, category)
        selected == SelectAgent(registry, candidates, weights)
    IN  IF selected = NoAgent THEN NoDispatch("unmatched-category")
        ELSE Dispatch(selected, IF registry[selected].fallback \in candidates
                                THEN registry[selected].fallback ELSE NoAgent)
RouteIntentExclusively(registry, category, weights, authority) ==
    LET candidates == Candidates(registry, category)
        pinned == authority # NoAuthority
        winners == IF pinned THEN candidates \cap {authority.pinned} ELSE candidates
        selected == SelectAgent(registry, winners, weights)
        requested == IF pinned THEN authority.fallback ELSE registry[selected].fallback
    IN  IF ~ReadPinnedRouteAuthority(authority) THEN NoDispatch("registry-conflict")
        ELSE IF winners = {} THEN NoDispatch("unmatched-category")
        ELSE IF selected = NoAgent THEN NoDispatch("registry-conflict")
        ELSE IF pinned /\ requested # NoAgent
                /\ (registry[selected].fallback # requested \/ requested \notin candidates)
             THEN NoDispatch("registry-conflict")
        ELSE Dispatch(selected, IF requested \in candidates THEN requested ELSE NoAgent)

-----------------------------------------------------------------------------
\* projectPublicCatalog, activeMerchantListings and projectMerchantCatalog: a
\* merchant lists the active agents its theme allows.
MerchantListings(registry, scope) == {a \in DOMAIN registry : registry[a].active /\ a \in scope}

\* Mutant: the fallback of the owner is taken although the theme excludes it.
ResolveEligibleMerchantFallback_AnyScope(registry, owner, category, scope) ==
    LET fallback == registry[owner].fallback
    IN  IF Eligible(registry, owner, category) /\ Eligible(registry, fallback, category)
        THEN fallback ELSE NoAgent

\* resolveEligibleMerchantFallback: the fallback the owner declares, if both
\* are eligible and in the merchant's scope.
ResolveEligibleMerchantFallback(registry, owner, category, scope) ==
    IF owner \in scope /\ Eligible(registry, owner, category)
    THEN LET fallback == registry[owner].fallback
         IN  IF fallback # owner /\ fallback \in scope /\ Eligible(registry, fallback, category)
             THEN fallback ELSE NoAgent
    ELSE NoAgent
=============================================================================
