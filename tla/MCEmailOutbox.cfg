\* One mail and two ticks; the provider remembers longer than a row lives.
SPECIFICATION LiveSpec
CONSTANTS
  Rows = {r1}
  Ticks = {t1, t2}
  NoTick = NoTick
  MaxAttempts = 3
  Backoff <- MCBackoff
  DeferDelay = 1
  Stale = 6
  KeyMemory = 8
  MaxStall = 1
CHECK_DEADLOCK FALSE

  
  
PROPERTIES
  EveryRowCloses
