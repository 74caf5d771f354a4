SPECIFICATION Spec
CONSTANTS
  Pids = {p1, p2}
  NoPid = NoPid
  Masks <- BelowHInit
  StopTicks = 3
INVARIANT RestartSkipsDelay
