SPECIFICATION Spec
CONSTANTS
  Numbers <- MCNumbers
  Counts = {0, 1, 2, 3}
  MaxCount = 2
  Cycles = {0, 1, 60000, 60001, 60000000, 60000001}
  Configurations <- MCConfigurations
  Messages <- MCMessages
  Stamps <- MCStamps
  CounterDigits = {20}
  Channels = {0}
  MaxSets = 2
INVARIANTS StringKept ReportedAsStarted CompareOrders ParsedWritable LineTells LineFits
CHECK_DEADLOCK FALSE
