CONSTANTS
  w1 = w1
  w2 = w2
  Workers = {w1, w2}
  NoOwner = NoOwner
  MaxVersion = 2
  MaxCursor = 1
  Stale = 1
  Retry = 1
SPECIFICATION LiveSpec
CHECK_DEADLOCK FALSE
INVARIANTS
  NoStrayCommit
  CursorContinuity
PROPERTIES
  ServesThoseWhoAsk
  
