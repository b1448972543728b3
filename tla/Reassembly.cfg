SPECIFICATION MCSpec
CONSTANTS
    t1 = t1
    t2 = t2
    s1 = s1
    s2 = s2
    MsgLens <- TwoLong
    FragSize = 2
    MaxFrags = 2
    Header = 0
    NumSlots = 1
    MMod = 5
    Strict = FALSE
    Senders = {s1}
    Threads = {t1, t2}
    NoPacket = NoPacket
    Reorder = TRUE
    MaxLoss = 0
    MaxDup = 1
    Stale = 1
    MaxTime = 2
    TickMod = 8
    InitTicks = {0, 7}
INVARIANT MessageIntact
INVARIANT OrderedChannelStaysOpen
PROPERTY WholeMessagesDelivered
CHECK_DEADLOCK FALSE
