\* Two deliveries of a peer, the second after the first was answered or given
\* up, a queue with room for one text, one permit, and the contact removed and
\* added again.  No connection is accepted here: the one the session dials is
\* enough.  The program ends: the transport closes.
CHECK_DEADLOCK FALSE
SPECIFICATION ExchangeSpec
CONSTANTS
  Peers = {1}
  Paths = {"Relay"}
  Greater = {1}
  SessionIds = {1, 2}
  Accepts = {}
  Handlers = {1}
  Inbound = {1, 2}
  Outbound = {}
  DialPermits = 1
  SessionPermits = 1
  Admissions = 1
  QueueCapacity = 1
  IncomingCapacity = 1
  MaxConnects = 1
  MaxEvents = 1
  Documents = {"Text", "Other"}
INVARIANTS
  AnswersAreTrue
PROPERTIES
  AnsweredUnlessDisturbed
  StreamsEnd
  ChangeEnds
