SPECIFICATION Spec
CONSTANTS
  t1 = t1
  t2 = t2
  o1 = o1
  o2 = o2
  NoOp = NoOp
  Tabs <- MCTabs
  Ops <- MCOps
  Repos = {"A", "B"}
  Foreign = {"B"}
  MaxRevision = 6
SYMMETRY Symmetric
CONSTRAINT Explored
CHECK_DEADLOCK FALSE
INVARIANTS
  OneCallAtATime
  RecordIsTrue
PROPERTIES
  ClaimedAsSeen
