\* A contact added, removed and added again while its sessions dial, connect,
\* are connected to and lost, with a crash at any point.  One event may be
\* unread when it is added or removed, so that an event of the session that
\* was stopped can be read after the contact is back.  Messages and the other
\* panels are left out.  The bounds on commands and connections may leave
\* nothing to do.
CHECK_DEADLOCK FALSE
SPECIFICATION ProgramSpec
CONSTANTS
  Peers = {1}
  Paths = {"Relay"}
  Greater = {1}
  Keys = {"x", "k", "Enter", "Esc"}
  Texts = {0}
  EffectCapacity = 1
  Secrets = {1}
  SessionIds = {1, 2}
  Accepts = {1}
  Handlers = {}
  Inbound = {}
  Outbound = {}
  DialPermits = 1
  SessionPermits = 1
  Admissions = 1
  QueueCapacity = 1
  IncomingCapacity = 1
  MaxConnects = 1
  MaxEvents = 1
  MaxCommands = 1
INVARIANTS
  ViewAgreesAtRest
  ShownContactsAreStored
PROPERTIES
  ConnectingEnds
