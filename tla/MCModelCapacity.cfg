SPECIFICATION Spec
CONSTANTS
  r1 = r1
  r2 = r2
  r3 = r3
  Requests = {r1, r2, r3}
  Settings <- MCSettings
  MaxWaiting = 2
  MaxChain = 1
  Groups = {"g", "h"}
  MaxRevision = 3
CONSTRAINT Explored
INVARIANTS
  StepSentOnce
  CallsAreCounted
  EngineNotOversold
  OthersLeaveReserve
PROPERTIES
  NoStaleDispatch
  ClosedStaysClosed
CHECK_DEADLOCK FALSE
