SPECIFICATION MCSpec
CONSTANTS
    t1 = t1
    t2 = t2
    Threads = {t1, t2}
    Size = 3
    MinRead = 2
    MinWrite = 2
    RoomyRead = 1
    RoomyWrite = 1
    MaxBytes = 5
    u1 = u1
    u2 = u2
    w1 = w1
    Users = {u1, u2}
    Pool = {w1}
    Clock = Clock
    MaxTimers = 2
    MaxCalls = 2
INVARIANT BytesInOrder
INVARIANT NeverStalls
INVARIANT StopsOnce
INVARIANT NothingUsedAfterFree
INVARIANT OneTimeout
PROPERTY ObjectIsFreed
CHECK_DEADLOCK FALSE
