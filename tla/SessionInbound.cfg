SPECIFICATION Spec
CONSTANTS
  MaxMessages = 0
  Capacity = 1
  InConns = {c1, c2}
  OutConn = out
  NoConn = noconn
  MaxHandlers = 1
  MaxStreams = 2
SYMMETRY InboundSymmetry
INVARIANTS
  NoIdleConnection
  PermitsAccounted
\* The session ends with its contact or its transport.
CHECK_DEADLOCK FALSE
