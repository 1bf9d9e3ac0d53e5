CONSTANTS
  r1 = r1
  r2 = r2
  r3 = r3
  o1 = o1
  o2 = o2
  oracle = oracle
  m3 = m3
  Requests = {r1, r3}
  Origins = {o1, o2}
  Hosts = {oracle, m3}
  OriginOf <- MCOriginOf
  HostOf <- MCHostOf
  Limited = oracle
  HostLimit = 1
  MaxDispatches = 2
  MaxRevision = 2
SPECIFICATION LiveSpec
CHECK_DEADLOCK FALSE
INVARIANTS
  TrafficIsLimited
  

  
