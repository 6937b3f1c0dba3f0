SPECIFICATION AuthoringSpec
CONSTANTS
    Scopes <- MCScopes
    Targets <- MCTargets
    Claims <- MCClaims
    Operations <- MCOperations
    semanticScope <- MCSemanticScope
    claimId <- MCClaimId
    declaredWriteSet <- MCWriteSet
    leaseEpoch <- MCEpoch
    leaseExpiresAtMs <- MCExpiry
    operationScope <- MCOperationScope
    writeTarget <- MCWriteTarget
    Journals <- MCJournals
    Compacting <- MCCompacting
    journalScope <- MCJournalScope
    NoClaim = NoClaim
    NoPermit = NoPermit
    MaxTime = 4
    MaxSequence = 3
INVARIANTS
    AuthoringTypeOK
    PermitsOrdered
    WritersDisjoint
    UnresolvedIsHeld
PROPERTY ExecutedInOrder
CHECK_DEADLOCK FALSE
