SPECIFICATION MCSpec
CONSTANTS
    r1 = r1
    r2 = r2
    Recv = {r1, r2}
    Timer = Timer
    Owner = Owner
    Server = TRUE
    MaxConnect = 1
    MaxPackets = 3
    ClientConnects = 2
    ClientPackets = 2
INVARIANT NoCallbackAfterDisconnect
INVARIANT OneDisconnectPerSession
INVARIANT ListIsSane
PROPERTY SessionIsFreed
CHECK_DEADLOCK FALSE
