\* Two overlapping tasks of one check, with retries, a fault and a delete.
SPECIFICATION FairSpec
CONSTANTS
    NoCheck = NoCheck
    Tasks = {n1, n2}
    Checks = {c1}
    MaxRetries = 1
    Limit = 0
    MaxFaults = 1
INVARIANTS TypeOK SentAgainOnlyUnheard OkIsEarned CountDriftsByRetries
PROPERTY EveryTaskEnds
CHECK_DEADLOCK FALSE
