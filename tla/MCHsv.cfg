SPECIFICATION FairSpec
CONSTANTS
  Pids = {p1, p2}
  NoPid = NoPid
  Masks <- AllMasks
  StopTicks = 3
INVARIANTS
  TypeOK
  NoInstanceLeft
  SignalsOwnChild
PROPERTIES
  TermEndsHsv
  RestartTakesEffect
  ExitIsRestarted
  ImplementsSupervisor
