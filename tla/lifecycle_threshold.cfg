\* A check that waits for its second failure before it alerts.
SPECIFICATION Spec
CONSTANTS
    NoTime = NoTime
    NoCheck = NoCheck
    Checks = {c1}
    Requests = {r1}
    Scanners = {s1}
    Ops <- FailOps
    Allowances <- OneAllowance
    MaxRuntime = 1
    NotifyAfter = 2
    NotifyOnUp = TRUE
    Isolated = TRUE
    MaxTime = 3
    FailCap = 3
    MaxDeaths = 0
INVARIANT ThresholdIsTold
CHECK_DEADLOCK FALSE
