SPECIFICATION Spec
CONSTANTS
  MaxMessages = 1
  Capacity = 1
  InConns = {c1}
  OutConn = out
  NoConn = noconn
  MaxHandlers = 1
  MaxStreams = 1
INVARIANTS
  TypeOK
  StateMatchesPrimary
  SlotAccounting
PROPERTIES
  ConnectedUntilLost
  RetiredOnlyIdle
\* The session ends with its contact or its transport.
CHECK_DEADLOCK FALSE
