\* One contact that is removed while a connection of its is being accepted.
CHECK_DEADLOCK FALSE
SPECIFICATION Spec
CONSTANTS
  Peers = {1}
  Paths = {"Relay"}
  Greater = {1}
  SessionIds = {1, 2}
  Accepts = {1}
  Handlers = {}
  Inbound = {}
  Outbound = {}
  DialPermits = 1
  SessionPermits = 1
  Admissions = 1
  QueueCapacity = 1
  IncomingCapacity = 1
  MaxConnects = 2
  MaxEvents = 1
INVARIANT
  SessionsOfContactsOnly
