SPECIFICATION Spec
CONSTANTS
    r1 = r1
    r2 = r2
    Recv = {r1, r2}
    UI = UI
    MaxSessions = 2
    MaxConnects = 3
    MaxTraffic = 0
    MaxFaults = 1
INVARIANT ConnectStartsClean
INVARIANT KeyOfTheSession
SYMMETRY Symmetric
CHECK_DEADLOCK FALSE
