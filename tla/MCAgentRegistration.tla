------------------------- MODULE MCAgentRegistration ------------------------
(* One scope.  The first lease ends before the second; an operation that    *)
(* registers, one that replaces the first record, one that deregisters it.  *)
EXTENDS AgentRegistration, TLC

MCScopes == {"operator-registry"}
MCTargets == {"registry"}
MCClaims == {"c1", "c2"}
MCSemanticScope == [c \in MCClaims |-> "operator-registry"]
MCClaimId == [c \in MCClaims |-> IF c = "c1" THEN 1 ELSE 2]
MCWriteSet == [c \in MCClaims |-> {"registry"}]
MCEpoch == [c \in MCClaims |-> IF c = "c1" THEN 1 ELSE 2]
MCExpiry == [c \in MCClaims |-> IF c = "c1" THEN 1 ELSE 2]
MCOperations == {"first", "replace", "remove"}
MCOperationScope == [op \in MCOperations |-> "operator-registry"]
MCWriteTarget == [s \in MCScopes |-> "registry"]
MCJournals == {"acos", "registry"}
MCCompacting == {"acos"}
MCJournalScope == [j \in MCJournals |-> "operator-registry"]
MCKind == [op \in MCOperations |-> IF op = "remove" THEN "deregister" ELSE "register"]
MCInputs == [op \in MCOperations |-> IF op = "replace" THEN "v2" ELSE "v1"]
MCExpectedHash == [op \in MCOperations |-> IF op = "first" THEN 0 ELSE 1]
HandlerSymmetry == Permutations(Handlers)
=============================================================================
