SPECIFICATION FairSpec
CONSTANTS
  HistoryWindow = 2
  MaxEpoch = 3
  MaxId = 3
  MaxUpdates = 2
CHECK_DEADLOCK FALSE
INVARIANTS
  CommitsAdmitted
  SignaturesVerify
  WelcomesJoin
PROPERTIES
  OwedBindLands
