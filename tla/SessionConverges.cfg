SPECIFICATION FairSpec
CONSTANTS
  MaxMessages = 1
  Capacity = 1
  InConns = {c1}
  OutConn = out
  NoConn = noconn
  MaxHandlers = 1
  MaxStreams = 0
PROPERTIES
  ConnectingEnds
  DrainingEnds
\* The session ends with its contact or its transport.
CHECK_DEADLOCK FALSE
