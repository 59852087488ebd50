\* A contact from the first start to the end: messages both ways, refusals,
\* quitting and dying.  Two places for effects: the copied id of the first
\* run and one message.  The bounds on commands, connections and ids may
\* leave nothing to do.
CHECK_DEADLOCK FALSE
SPECIFICATION ProgramSpec
CONSTANTS
  Peers = {1}
  Paths = {"Relay"}
  Greater = {1}
  Keys = {"Tab", "Enter", "Esc", "q"}
  Texts = {0, 1}
  EffectCapacity = 2
  Secrets = {1}
  SessionIds = {1}
  Accepts = {}
  Handlers = {1}
  Inbound = {1}
  Outbound = {1, 2}
  DialPermits = 1
  SessionPermits = 1
  Admissions = 1
  QueueCapacity = 1
  IncomingCapacity = 1
  MaxConnects = 1
  MaxEvents = 1
  MaxCommands = 1
INVARIANTS
  ProgramTypeOK
  PendingMessageWillSettle
  SendingHasRequest
PROPERTIES
  SendingEnds
  QuitEnds
