CONSTANTS
  w1 = w1
  w2 = w2
  o1 = o1
  o2 = o2
  Workers = {w1}
  Consumers = {o1, o2}
  Nobody = Nobody
  MaxAttempts = 2
  Hold = 2
  Backoff = 1
  Ttl = 2
  MaxClaims = 3
  MaxEpoch = 2
SPECIFICATION LiveSpec
CHECK_DEADLOCK FALSE
PROPERTIES
  

  NewestClaimSaves
  ServesThoseWhoAsk
INVARIANTS
  AttemptsAreFailures
  OwnersKeepTheirEntry
