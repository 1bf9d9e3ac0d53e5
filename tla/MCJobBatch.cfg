SPECIFICATION BatchSpec
CONSTANTS
  t1 = t1
  t2 = t2
  Txs <- MCTxs
  MaxToken = 4
  Jobs = {"evidence", "tagline-ko", "translate"}
  Place <- MCPlace
  Roles = {"crawler", "text", "translation"}
  RolePlace <- MCRolePlace
  LegacyRole <- MCLegacy
  NewRole <- MCNew
  NewJobs = {}
  SourceJobs = {"evidence"}
  Exclusive = {"translation"}
  Kinds <- MCKinds
  MaxEpoch = 2
VIEW View
CONSTRAINT OneSide
INVARIANTS
  NoOldWork
  
  
CHECK_DEADLOCK FALSE
