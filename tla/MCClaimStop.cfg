SPECIFICATION Spec
CONSTANTS
  MaxConns = 1
  Fds = {4}
  Listener = 3
  Senders = {s1}
  MaxSent = 1
INVARIANT FreedAfterThread
CHECK_DEADLOCK FALSE
