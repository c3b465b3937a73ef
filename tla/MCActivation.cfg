SPECIFICATION FairSpec
CONSTANTS
    Ids = {"a", "b", "c"}
    MaxResources = 3
    Plans <- MCPlans
    PolicySet <- MCPolicySet
    Requests <- MCRequests
INVARIANTS
    HardRulesHold
    AggregateMeansWhatItSays
    PolicyMonotone
PROPERTIES
    ImplementsGate
    Reports
\* an activation that has reported is over
CHECK_DEADLOCK FALSE
