SPECIFICATION Spec
CONSTANTS
  tx = tx
  rx = rx
  Programs <- Both
  NumChannels = 2
  Lists <- AskedFor
  Wanted <- Wants
  MinWidth = 1
  MaxWidth = 3
  LineWidth = 2
  Numbers <- StartNumbers
  Count = 3
  MaxFrames = 3
  MaxLines = 1
  QueueSize = 1
  Lines <- SomeLines
INVARIANTS MainOrderly AlarmsTell LineCounted
PROPERTIES NumbersConsecutive SignalEndsProgram TestEnds
CHECK_DEADLOCK FALSE
