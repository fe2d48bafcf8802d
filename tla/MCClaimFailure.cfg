SPECIFICATION Spec
CONSTANTS
  Clients = {c1}
  Senders = {c1}
  MaxFrames = 1
  MaxPackets = 1
  Cut = {}
  Window = 2
  ErrorFrames = TRUE
  Fails = TRUE
PROPERTY FailureEndsBridge
CHECK_DEADLOCK FALSE
