\* One check that is pinged once it is old, and the cleanup.
SPECIFICATION Spec
CONSTANTS
    Checks = {c1, c2}
    Pings = {p1, p2}
    Deletes = {d1}
    Sweeps = {s1}
    LogLength = 2
    Old = 1
    MaxFaults = 0
    None = None
PROPERTY ActiveChecksKept
CHECK_DEADLOCK FALSE
