CONSTANTS
    make = make
    cat = cat
    n1 = n1
    n2 = n2
    d1 = d1
    Binary = {make, cat}
    Nonce = {n1, n2}
    Payload = {d1}
    NoNonce = NoNonce
    NoBinding = NoBinding
    NoTarget = NoTarget
    NoRoot = NoRoot
    NoPending = NoPending
    Name <- MCName
    Path <- MCPath
    SafePath <- MCSafePath
    Lossy <- MCLossy
    FsStates <- MCFsStates
    Manifests <- MCManifests
    Requests <- MCRequests
    FsMayChangeDuring = FALSE
    MaxIssued = 2
    MaxNow = 1
    Rfc3339Max = 5
    TimeMax = 7
    DurationMax = 9
    I64Max = 11
SPECIFICATION Spec
INVARIANTS
    NarrowingChain
    DecodesNewestBlock
    AcceptedByWholeLineage
    MirrorWidensNothing
    BindingHolds
