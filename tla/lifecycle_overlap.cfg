\* Every pair of overlapping requests and scans on one check.
SPECIFICATION Spec
CONSTANTS
    NoTime = NoTime
    NoCheck = NoCheck
    Checks = {c1}
    Requests = {r1, r2}
    Scanners = {s1, s2}
    Ops <- PairOps
    Allowances <- OneAllowance
    MaxRuntime = 1
    NotifyAfter = 0
    NotifyOnUp = TRUE
    Isolated = FALSE
    MaxTime = 2
    FailCap = 1
    MaxDeaths = 0
SYMMETRY SessionSymmetry
CONSTRAINT PairsOfSessions
INVARIANTS TypeOK SessionsSound DeadlineTracksPing StatusMatchesPing
PROPERTIES DeletedForever ImplementsClock
CHECK_DEADLOCK FALSE
