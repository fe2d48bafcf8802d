SPECIFICATION PeakSpec
CONSTANTS
  b1 = b1
  b2 = b2
  o1 = o1
  o2 = o2
  NONEBUS = NONEBUS
  BADCHANNEL = BADCHANNEL
  MaxHandles = 2
  MaxCount = 1
  Boards <- TwoBoards
  Objects <- TwoObjects
  FdBoards <- None
  Modes <- FilterModes
  Params <- NoParam
  Bitrates <- Indexes
  FilterArgs <- FilterValues
  TxFrames <- Refusable
  BusStatuses <- None
  RxFrames <- None
  Faults <- PeakFaults
INVARIANTS HandlesAccounted FilterReadBack
PROPERTIES FilterFrozen
SYMMETRY Symmetric
VIEW View
