SPECIFICATION Spec
CONSTANTS
    None = None
    Empty = Empty
    Torn = Torn
    p1 = p1
    p2 = p2
    p3 = p3
    Procs = {p1, p2, p3}
    Docs = {d1, d2}
    Jobs <- MCJobs
    Forever = Forever
    Ttls = {1, Forever}
    MaxTime = 2
INVARIANTS
    UsedWasServed
    FreshMeansRecent
    RefreshRefetches
\* every invocation may have ended
CHECK_DEADLOCK FALSE
