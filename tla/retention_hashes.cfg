\* Three pings, a delete and a cleanup of two checks, one fault.
SPECIFICATION Spec
CONSTANTS
    Checks = {c1, c2}
    Pings = {p1, p2, p3}
    Deletes = {d1}
    Sweeps = {s1}
    LogLength = 2
    Old = 1
    MaxFaults = 1
    None = None
SYMMETRY RetentionSymmetry
INVARIANTS TypeOK OrphanHasCause LogIsLatest
CHECK_DEADLOCK FALSE
