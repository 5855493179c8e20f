CONSTANTS
    make = make
    data = data
    Binary = {make}
    Nonce = {1, 2}
    Payload = {data}
    NoNonce = NoNonce
    NoBinding = NoBinding
    NoTarget = NoTarget
    NoRoot = NoRoot
    NoChild = NoChild
    Name <- MCName
    Path <- MCPath
    SafePath <- MCSafePath
    Lossy <- MCLossy
    FsStates <- MCFsStates
    Manifests <- MCManifests
    Calls <- MCCalls
    CHILD_TTL_SECONDS = 1
    MaxCalls = 2
    MaxNow = 1
    Rfc3339Max = 1
    TimeMax = 2
    DurationMax = 3
    I64Max = 4
SPECIFICATION FairSpec
INVARIANTS
    TypeOK
    AuditTellsOutcomes
    AllowedOnlyAfterAttenuation
    DeniedHasNoEffect
    
PROPERTIES
    
    RefusedInScopeOnlyForCause
    EveryCallServed
