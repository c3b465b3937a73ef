SPECIFICATION FairSpec
CONSTANTS
    ResourceIds = {"a", "b", "c", "d", "zz"}
    Inputs <- MCInputs
INVARIANT DependenciesFirst
INVARIANT CycleIsReal
INVARIANT StableOrder
PROPERTY Terminates
\* the function returns: its last state has no successor
CHECK_DEADLOCK FALSE
