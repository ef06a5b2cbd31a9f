\* Two requests that open, use, rotate and delete accounts, overlapping freely.
SPECIFICATION Spec
CONSTANTS
    NoUser = NoUser
    NoKey = NoKey
    NoSecret = NoSecret
    NoCheck = NoCheck
    Users = {u1, u2}
    Checks = {c1}
    Keys = {k1, k2, k3}
    FirstKeys = {k1, k2}
    Channels = {telegram, slack}
    Telegram = telegram
    Requests = {r1, r2}
    MaxMaster = 1
    MaxFaults = 1
SYMMETRY Symmetry
INVARIANTS TypeOK SecretsOfOwner KeyOwnsItsChecks NoOrphans ReadableUnlessRaced
CHECK_DEADLOCK FALSE
