CONSTANTS
  p = p
  s = s
  r = r
  q = q
  Instances = {p, s}
  Primaries = {p}
  NoOwner = NoOwner
  Releases = {r, q}
  Boots <- MCBoots
  PrimaryBoots = 2
  StandbyBoots = 1
  MaxEpoch = 2
  Lease = 2
  Grace = 1
  BootLimit = 1
  BootWindow = 3
  Quarantine = 1
  Fresh = 0
  Stable = 0
SPECIFICATION Spec
CONSTRAINT Explored
VIEW View
CHECK_DEADLOCK FALSE
INVARIANTS
  NoOverlap
  NoLateResult
