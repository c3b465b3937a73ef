SPECIFICATION Spec
CONSTANTS
    Ids = {"a", "b"}
    MaxResources = 3
    Plans <- MCCollidingPlans
    PolicySet <- MCPolicySet
    Requests <- MCDialog
INVARIANT OnlyTickedIsLaunched
\* an activation that has reported is over
CHECK_DEADLOCK FALSE
