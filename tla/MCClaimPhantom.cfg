SPECIFICATION Spec
CONSTANTS
  b1 = b1
  b2 = b2
  NONEBUS = NONEBUS
  BADCHANNEL = BADCHANNEL
  MaxHandles = 1
  MaxCount = 2
  Boards <- OneBoard
  FdBoards <- OneBoard
  Modes <- ChannelModes
  Params <- NoParam
  Bitrates <- ChannelBitrates
  FilterArgs <- None
  TxFrames <- SentFrames
  BusStatuses <- Statuses
  RxFrames <- ReceivedFrames
  Faults <- AllFaults
PROPERTY ReadReturnsReceived
VIEW View
