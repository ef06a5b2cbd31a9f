\* Does every overdue or long-running check get noticed, when scans die or are aborted by a delete?
SPECIFICATION FairSpec
CONSTANTS
    NoTime = NoTime
    NoCheck = NoCheck
    Checks = {c1, c2}
    Requests = {r1}
    Scanners = {s1}
    Ops <- DetectOps
    Allowances <- TwoAllowances
    MaxRuntime = 1
    NotifyAfter = 0
    NotifyOnUp = TRUE
    Isolated = FALSE
    MaxTime = 2
    FailCap = 1
    MaxDeaths = 1
PROPERTIES OverdueIsDetected LongRunIsDetected
CHECK_DEADLOCK FALSE
