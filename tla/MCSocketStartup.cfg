SPECIFICATION StartupSpec
CONSTANTS
    Nobody = Nobody
    Daemons = {d1, d2, d3}
    Overlap = FALSE
    MaxStarts = 5
SYMMETRY Symmetry
INVARIANTS
    NoClobber
    StaleNeverBlocks
\* no more daemons are started
CHECK_DEADLOCK FALSE
