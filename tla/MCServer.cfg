SPECIFICATION Spec
CONSTANTS
  MaxConns = 2
  Fds = {4, 5}
  Listener = 3
  Senders = {s1}
  MaxSent = 2
INVARIANTS ConnectionsKept SentOnceToAll
PROPERTIES ClientsServed
CHECK_DEADLOCK FALSE
