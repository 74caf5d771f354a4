SPECIFICATION Spec
CONSTANTS
  Services = {a, b}
  NoService = NoService
  Removable = {a}
  Pids = {p1, p2}
  MaxHsv = 2
PROPERTY StartFindsRunning
