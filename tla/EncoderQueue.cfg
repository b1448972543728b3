SPECIFICATION QueueFairSpec
CONSTANTS
  p1 = p1
  p2 = p2
  w1 = w1
  w2 = w2
  Producers = {p1, p2}
  Workers = {w1, w2}
  NoWord = NoWord
  N = 2
  Alloc = {0, 1}
  MaxFrames = 3
  MaxEvents = 1
  InputMayFail = TRUE
INVARIANT PoolIsWhole
INVARIANT NeverFull
INVARIANT DemandIsMet
PROPERTY FedInOrder
PROPERTY EveryFrameIsFed
CHECK_DEADLOCK FALSE
