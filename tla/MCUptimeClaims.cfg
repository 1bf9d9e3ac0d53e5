\* Two products of one site, two home instances and a probe.
SPECIFICATION UptimeSpec
CONSTANTS
  p1 = p1
  p2 = p2
  site = site
  m3 = m3
  mini = mini
  osaka = osaka
  Products = {p1, p2}
  Origins = {site}
  OriginOf <- MCOriginOf
  Homes = {m3, mini}
  Probes = {osaka}
  ProbeSize = 1
  Tripping = {osaka, mini}
  Outcomes = {"ok", "failed", "unknown"}
  Tokens = {k1, k2, k3, k4}
  NoToken = NoToken
  MaxSeen = 2
  MaxControl = 2
  MaxVersion = 2
SYMMETRY Symmetry
VIEW View
CONSTRAINT Explored
CHECK_DEADLOCK FALSE
INVARIANTS
  OneOwnerPerOrigin
  TrialsAreLimited
  ResultsMatchTheirClaim
  FailuresWereSeenAtHome
