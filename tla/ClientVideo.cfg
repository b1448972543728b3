SPECIFICATION MCSpec
CONSTANTS
    r1 = r1
    r2 = r2
    Recv = {r1, r2}
    UI = UI
    NumSlots = 2
    Formats = {TRUE}
    MaxPics = 2
    MaxLists = 1
    MaxFrames = 1
    MaxFaults = 0
INVARIANT PictureInUse
INVARIANT ListsCurrent
PROPERTY StopIsAnswered
CHECK_DEADLOCK FALSE
