\* A worker and two collectors; a heartbeat outlives two missed beats.
SPECIFICATION FairSpec
CONSTANTS
    Workers = {w1}
    Collectors = {k1, k2}
    TTL = 3
    Interval = 1
    MaxFaults = 3
    Nobody = Nobody
INVARIANTS TypeOK OmittedHasCause
PROPERTY DownIsForgotten
