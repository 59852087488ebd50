SPECIFICATION Spec
CONSTANTS
  MaxMessages = 3
  Capacity = 2
  InConns = {}
  OutConn = out
  NoConn = noconn
  MaxHandlers = 1
  MaxStreams = 0
INVARIANTS
  QueueAccounting
  AttemptedInOrder
  NoneStranded
  DeliveriesInHand
PROPERTIES
  ImplementsContract
\* The session ends with its contact or its transport.
CHECK_DEADLOCK FALSE
