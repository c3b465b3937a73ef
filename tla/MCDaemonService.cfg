SPECIFICATION FairSpec
CONSTANTS
    None = None
    c1 = c1
    c2 = c2
    Modes <- MCModes
    Commands = {c1, c2}
    MutePeers = {m}
    ClientTimeout = 2
    DialogTimeout = 3
    ReadTimeout = 5
    MaxCrashes = 1
INVARIANTS
    NoRequestNoActivation
    RefusalIsFinal
PROPERTIES
    NeverADependency
    DaemonReturns
\* all commands may have ended, with the daemon idle
CHECK_DEADLOCK FALSE
