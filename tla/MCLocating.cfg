SPECIFICATION Spec
CONSTANTS
    None = None
    Error = Error
    Alphabet <- MCAlphabet
    Latest = Latest
    Local = local
    vendor = vendor
    localhost = localhost
    bad = bad
    Hosts = {vendor, localhost}
    LoopbackHosts = {localhost}
    MaxLength = 8
    MaxSegments = 2
    MaxSegmentBytes = 2
    MaxQuery = 1
    MaxSelectorItems = 2
    MaxSelectorLen = 2
    Texts <- MCTexts
    Addresses <- MCAddresses
    Characters <- MCCharacters
    Jobs <- MCJobs
    Cap = 2
    MaxTries = 2
    MaxBody = 4
INVARIANTS
    TypeOK
    CanonicalFixedPoint
    PlacesAreDistinct
    FetchStaysInBounds
    LimitsExact
    OpensWhatIsShown
    ProgramGetsTheTarget
CHECK_DEADLOCK FALSE
