SPECIFICATION ServiceFairSpec
CONSTANTS
    Dispatcher = Dispatcher
    MaxControls = 5
INVARIANT AlertFindsService
INVARIANT ReportedIsTarget
PROPERTY AlertIsAnEvent
PROPERTY ControlIsCarriedOut
CHECK_DEADLOCK FALSE
