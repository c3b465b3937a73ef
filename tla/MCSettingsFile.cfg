SPECIFICATION Spec
CONSTANTS
    None = None
    Empty = Empty
    Torn = Torn
    p1 = p1
    p2 = p2
    k1 = k1
    k2 = k2
    i1 = i1
    i2 = i2
    vendor = vendor
    upper = upper
    bad = bad
    custom = custom
    client = client
    strict = strict
    Keys = {k1, k2}
    KeyIds = {i1, i2}
    IdOf <- MCIdOf
    Bodies = {1, 2}
    Authorities = {vendor}
    Spellings = {vendor, upper, bad}
    Canonical <- MCCanonical
    Procs = {p1, p2}
    Jobs <- MCJobs
    Kinds = {custom}
    Programs = {client}
    Settings <- MCSettings
    Starts <- MCStarts
    MaxEdits = 1
    MaxKills = 1
INVARIANTS
    FailsClosed
    TrustedIsEarned
PROPERTIES
    ImplementsRegister
CHECK_DEADLOCK FALSE
