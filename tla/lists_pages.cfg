\* Three checks on pages of one row, a refresh beside a click, a change,
\* and two intervals.
SPECIFICATION Spec
CONSTANTS
    Checks = {c1, c2, c3}
    Clicks = {r1}
    Refreshes = {r2}
    Size = 1
    MaxKey = 2
    MaxInterval = 1
    MaxChanges = 1
    Absent = Absent
SYMMETRY ListsSymmetry
INVARIANTS TypeOK ForwardLosesOnlyTies ShownOnce BumpsAreShown
