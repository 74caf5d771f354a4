SPECIFICATION FairSpec
CONSTANTS
  MaxLines = 4
  MaxRows = 2
  MaxWritten = 5
  MaxTyped = 5
  Keys = {"Up", "Down", "PgUp", "PgDn", "Home", "End", "esc", "q"}
INVARIANTS
  TypeOK
  BufferNewest
  ViewInBounds
PROPERTIES
  FollowsSlowLog
  ReaderUndisturbed
  QuitObeyed
