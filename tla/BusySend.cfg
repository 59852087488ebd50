\* dispatch_effect drops a request when the effect channel is full.  The
\* code's channel holds 64; one place is enough to see what a drop leaves.
CHECK_DEADLOCK FALSE
SPECIFICATION ProgramSpec
CONSTANTS
  Peers = {1}
  Paths = {"Relay"}
  Greater = {1}
  Keys = {"Tab", "Enter", "q"}
  Texts = {0, 1}
  EffectCapacity = 1
  Secrets = {1}
  SessionIds = {1}
  Accepts = {}
  Handlers = {}
  Inbound = {}
  Outbound = {1}
  DialPermits = 1
  SessionPermits = 1
  Admissions = 1
  QueueCapacity = 1
  IncomingCapacity = 1
  MaxConnects = 1
  MaxEvents = 1
  MaxCommands = 1
INVARIANTS
  SendingHasRequest
