SPECIFICATION FairLimitSpec
CONSTANTS
    Request = {r1, r2, r3}
    Max = 2
    Window = 2
    MaxWindows = 3
    MaxCount = 3
    MaxLost = 1
CHECK_DEADLOCK FALSE
INVARIANTS AdmittedBounded
PROPERTIES WindowFixed LimitLiftsUnlessLost
