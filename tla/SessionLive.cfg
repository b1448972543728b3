SPECIFICATION FairSpec
CONSTANTS
    r1 = r1
    Recv = {r1}
    UI = UI
    MaxSessions = 2
    MaxConnects = 1
    MaxTraffic = 2
    MaxFaults = 1
PROPERTY AbandonedSessionEnds
PROPERTY DialogComesBack
CHECK_DEADLOCK FALSE
