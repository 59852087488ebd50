\* One peer, contact or not, whose sessions succeed each other while two of
\* its connections, dials of old sessions and changes of the contacts meet.
\* No stream is opened here.  The program ends: the transport closes.
CHECK_DEADLOCK FALSE
SPECIFICATION Spec
CONSTANTS
  Peers = {1}
  Paths = {"Relay", "DirectIp"}
  Greater = {1}
  SessionIds = {1, 2}
  Accepts = {1, 2}
  Handlers = {}
  Inbound = {}
  Outbound = {1}
  DialPermits = 1
  SessionPermits = 1
  Admissions = 1
  QueueCapacity = 1
  IncomingCapacity = 1
  MaxConnects = 2
  MaxEvents = 1
INVARIANTS
  TransportTypeOK
  SessionsOwned
  ContactsHaveSessions
  BudgetsKept
  PendingHasSession
PROPERTY
  StartKept
