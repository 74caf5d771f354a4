SPECIFICATION FairSpec
CONSTANTS
  Pids = {p1, p2, p3}
  NoPid = NoPid
INVARIANTS
  TypeOK
  NoLostChild
  PidsAreOwn
  OneModeProgram
PROPERTIES
  ImplementsLifecycle
  ZombiesCollected
