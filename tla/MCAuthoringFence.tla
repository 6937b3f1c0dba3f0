-------------------------- MODULE MCAuthoringFence --------------------------
(* Two scopes.  The leases of the first cover both targets, those of the    *)
(* second only its own; leases of one scope end at different times, the     *)
(* last claim reuses an identifier.                                         *)
EXTENDS AuthoringFence

MCScopes == {"a", "b"}
MCTargets == {"ta", "tb"}
MCClaims == {"a1", "a2", "b1", "b2"}
MCSemanticScope == [c \in MCClaims |-> IF c \in {"a1", "a2"} THEN "a" ELSE "b"]
MCClaimId == [c \in MCClaims |-> CASE c = "a1" -> 1 [] c = "a2" -> 2
                                   [] c = "b1" -> 3 [] c = "b2" -> 2]
MCWriteSet == [c \in MCClaims |-> IF c \in {"a1", "a2"} THEN {"ta", "tb"} ELSE {"tb"}]
MCEpoch == [c \in MCClaims |-> IF c \in {"a1", "b1"} THEN 1 ELSE 2]
MCExpiry == [c \in MCClaims |-> CASE c = "a1" -> 3 [] c = "a2" -> 4
                                  [] c = "b1" -> 2 [] c = "b2" -> 4]
MCOperations == {"x", "y", "z"}
MCOperationScope == [op \in MCOperations |-> IF op = "z" THEN "b" ELSE "a"]
MCWriteTarget == [s \in MCScopes |-> IF s = "a" THEN "ta" ELSE "tb"]
MCJournals == {"ja", "jb"}
MCCompacting == {"ja"}
MCJournalScope == [j \in MCJournals |-> IF j = "ja" THEN "a" ELSE "b"]
=============================================================================
