SPECIFICATION FairSpec
CONSTANTS
  MaxMessages = 2
  Capacity = 2
  InConns = {}
  OutConn = out
  NoConn = noconn
  MaxHandlers = 1
  MaxStreams = 0
PROPERTIES
  AdmittedSettles
  ShutdownCompletes
\* The session ends with its contact or its transport.
CHECK_DEADLOCK FALSE
