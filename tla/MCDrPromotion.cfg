SPECIFICATION Spec
CONSTANTS
  w1 = w1
  w2 = w2
  w3 = w3
  Workers <- MCWorkers
  Declared <- MCDeclared
  DBs = {"P", "Q", "R"}
  First = "P"
  Jobs = {"job"}
  Scopes = {"http", "model"}
  Deadline = 2
  Skew = 1
  MaxTime = 4
SYMMETRY Symmetric
CONSTRAINT Explored
INVARIANTS
  OneSite
  OneEpoch
  NoOldWork
  
  LostWorkIsReviewed
CHECK_DEADLOCK FALSE
