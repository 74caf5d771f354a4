SPECIFICATION FairSpec
CONSTANTS
  Clients = {c1, c2, c3}
  NoClient = NoClient
  Backlog = 2
INVARIANTS
  TypeOK
  ConnectionsKnown
  EarlyAnswered
PROPERTIES
  Served
  LoopReturns
