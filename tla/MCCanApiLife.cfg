SPECIFICATION Spec
CONSTANTS
  b1 = b1
  b2 = b2
  NONEBUS = NONEBUS
  BADCHANNEL = BADCHANNEL
  MaxHandles = 2
  MaxCount = 1
  Boards <- TwoBoards
  FdBoards <- None
  Modes <- LifeModes
  Params <- NoParam
  Bitrates <- LifeBitrates
  FilterArgs <- None
  TxFrames <- None
  BusStatuses <- None
  RxFrames <- None
  Faults <- LifeFaults
INVARIANTS TableConsistent RunningOnBus StoppedIsSilent
PROPERTIES OthersUntouched ImplementsStates
SYMMETRY Symmetric
VIEW View
