SPECIFICATION Spec
CONSTANTS
    Scopes <- MCScopes
    Targets <- MCTargets
    Claims <- MCClaims
    Operations <- MCOperations
    semanticScope <- MCSemanticScope
    claimId <- MCClaimId
    declaredWriteSet <- MCWriteSet
    leaseEpoch <- MCEpoch
    leaseExpiresAtMs <- MCExpiry
    operationScope <- MCOperationScope
    writeTarget <- MCWriteTarget
    Journals <- MCJournals
    Compacting <- MCCompacting
    journalScope <- MCJournalScope
    kind <- MCKind
    inputs <- MCInputs
    expectedHash <- MCExpectedHash
    RegistryScope = "operator-registry"
    NoClaim = NoClaim
    NoPermit = NoPermit
    NoRequest = NoRequest
    Handlers = {h1, h2}
    MaxTime = 2
    MaxSequence = 3
    MAX_COMMERCE_RETAINED_OUTCOMES = 1
INVARIANT UnconfirmedIsHeld
SYMMETRY HandlerSymmetry
CHECK_DEADLOCK FALSE
