SPECIFICATION Spec
CONSTANTS
  b1 = b1
  b2 = b2
  NONEBUS = NONEBUS
  BADCHANNEL = BADCHANNEL
  MaxHandles = 1
  MaxCount = 2
  Boards <- TwoBoards
  FdBoards <- TwoBoards
  Modes <- ChannelModes
  Params <- ChannelParams
  Bitrates <- ChannelBitrates
  FilterArgs <- None
  TxFrames <- SentFrames
  BusStatuses <- Statuses
  RxFrames <- ReceivedFrames
  Faults <- AllFaults
INVARIANTS TypeOK
PROPERTIES LossIsLatched CountersTell
SYMMETRY Symmetric
VIEW View
