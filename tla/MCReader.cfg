SPECIFICATION Spec
CONSTANTS
  Infinite = 9
  Timeouts = {0, 2, 3, 9}
  QueueSize = 2
  MaxFrames = 4
  MayFail = TRUE
INVARIANTS TypeOK OnceInOrder LossTold CountedLimitKept
PROPERTIES FrameHandedOver ProgramEnds
CHECK_DEADLOCK FALSE
