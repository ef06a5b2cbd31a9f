\* Every operation, edits included, when sessions never overlap.
SPECIFICATION Spec
CONSTANTS
    NoTime = NoTime
    NoCheck = NoCheck
    Checks = {c1}
    Requests = {r1}
    Scanners = {s1}
    Ops <- AllOps
    Allowances <- TwoAllowances
    MaxRuntime = 1
    NotifyAfter = 1
    NotifyOnUp = TRUE
    Isolated = TRUE
    MaxTime = 4
    FailCap = 2
    MaxDeaths = 0
INVARIANTS DeadlineTracksPing StatusMatchesPing AlertMatchesStatus AlertsAlternate
PROPERTY PingLeavesUp
CHECK_DEADLOCK FALSE
