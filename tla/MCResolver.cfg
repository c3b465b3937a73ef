SPECIFICATION FairSpec
CONSTANTS
    None = None
    h1 = h1
    h2 = h2
    h3 = h3
    h4 = h4
    h5 = h5
    h6 = h6
    h7 = h7
    k1 = k1
    k2 = k2
    tx = tx
    ty = ty
    tz = tz
    Names <- MCNames
    ResourceIds <- MCResourceIds
    Kinds <- MCKinds
    Targets <- MCTargets
    Marks <- MCMarks
    Hashes <- MCHashes
    Keys <- MCKeys
    TrustedKeys <- MCTrustedKeys
    Worlds <- MCWorlds
    Requests <- MCRequests
    MaxDepth = 2
    MaxResources = 4
    MaxManifests = 3
INVARIANTS
    WithinLimits
    NoIdentityTwice
    LocalityNeverDecreases
    Provenance
    LaunchOrder
    SplicedBytesPinned
    NothingSilentlyDropped
PROPERTY Terminates
\* resolution returns: its last state has no successor
CHECK_DEADLOCK FALSE
