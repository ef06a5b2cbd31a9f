\* Two workers whose reservations and reports overlap.
SPECIFICATION Spec
CONSTANTS
    NoTime = NoTime
    Workers = {w1, w2}
    Weight = 2
    Burst = 2
    StartRate = 2
    MinRate = 1
    MaxRate = 4
    CapRate = 2
    DripRate = 1
    Step = 1
    BackoffBase = 1
    BackoffMax = 2
    LevelMax = 2
    Cooldown = 1
    TTL = 2
    RetryAfters <- ShortRetries
    MaxTime = 2
    MaxFaults = 1
SYMMETRY WorkerSymmetry
INVARIANTS TypeOK GrantsArePaid
PROPERTY BackoffHonoured
CHECK_DEADLOCK FALSE
