SPECIFICATION Spec
CONSTANTS
  Clients = {c1, c2}
  MaxFrames = 2
  MaxPackets = 2
  Senders = {c1}
  Cut = {"up"}
  Window = 3
  ErrorFrames = TRUE
  Fails = TRUE
INVARIANTS PacketsKept FramesComplete LossKept
PROPERTIES PacketsServed SignalEndsBridge
CHECK_DEADLOCK FALSE
