SPECIFICATION Spec
CONSTANTS
    None = None
    Empty = Empty
    Torn = Torn
    Latest = Latest
    p1 = p1
    p2 = p2
    p3 = p3
    x = x
    y = y
    d = d
    e = e
    f = f
    g = g
    h = h
    Names <- MCNames
    Documents <- MCDocuments
    Procs = {p1, p2, p3}
    Jobs <- MCJobs
    Starts <- MCStarts
    MaxKills = 1
    MaxEntries = 2
INVARIANTS
    RefusedTouchesNothing
    OldNamesSurvive
    FoundUnderItsName
PROPERTIES
    InstalledIsStored
CHECK_DEADLOCK FALSE
