SPECIFICATION FairSpec
CONSTANTS
  Services = {a, b, c}
  NoService = NoService
  Removable = {a}
  Pids = {p1, p2, p3}
  MaxHsv = 2
INVARIANTS
  TypeOK
  RegistryExact
  OneSupervisor
  RegisterSucceeds
PROPERTIES
  AllHsvStopped
  DeadHsvForgotten
  ShutdownAllEnds
  ImplementsServiceControl
