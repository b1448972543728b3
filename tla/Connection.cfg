SPECIFICATION ConnFairSpec
CONSTANTS
    w1 = w1
    w2 = w2
    Worker = {w1, w2}
    User = User
    MaxConnects = 2
    MaxCalls = 1
    MaxFaults = 1
PROPERTY CallbacksKept
PROPERTY EndIsReported
CHECK_DEADLOCK FALSE
