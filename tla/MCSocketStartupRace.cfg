SPECIFICATION StartupSpec
CONSTANTS
    Nobody = Nobody
    Daemons = {d1, d2, d3}
    Overlap = TRUE
    MaxStarts = 3
SYMMETRY Symmetry
\* no more daemons are started
CHECK_DEADLOCK FALSE
INVARIANT NoClobber
