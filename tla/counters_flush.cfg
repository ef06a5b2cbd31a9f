\* Three requests for two checks, two flushes in flight beside the final one,
\* one fault; the second delete reaches the maximum of operations.
SPECIFICATION Spec
CONSTANTS
    Checks = {c1, c2}
    Requests = {r1, r2, r3}
    Flushes = {f1, f2}
    Final = Final
    MaxOps = 5
    MaxFaults = 1
    NoCheck = NoCheck
SYMMETRY CountersSymmetry
INVARIANTS TypeOK LostHasCause TwiceHasCause PausedBalanced
