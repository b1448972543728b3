SPECIFICATION FairSpec
CONSTANTS
    r1 = r1
    r2 = r2
    e1 = e1
    e2 = e2
    Recv = {r1, r2}
    Ends = {e1, e2}
    Starter = Starter
    Timer = Timer
    List = List
    MaxPackets = 3
INVARIANT WalkIsSafe
PROPERTY DeafServerGoes
CHECK_DEADLOCK FALSE
