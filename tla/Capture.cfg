SPECIFICATION MCSpec
CONSTANTS
    Owners = {r1, r2}
    Pool = {c1}
    Frames = {f1}
    Reads = 1
    MaxPins = 2
    MaxPackets = 3
    OneOwner = {r1}
    TwoPool = {c1, c2}
    MoreFrames = {f1, f2, f3}
    FewerPackets = 2
    ViewerFrames = {f1, f2}
    ViewerImages = 1
INVARIANT FramesGoRound
INVARIANT PinInUse
INVARIANT CameraOff
INVARIANT PictureInWindow
PROPERTY PinsAreFreed
CHECK_DEADLOCK FALSE
