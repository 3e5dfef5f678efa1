SPECIFICATION RFairSpec
CONSTANTS
  SendPskWindow = 2
  CandidateWindow = 1
  MaxFold = 0
  MaxPq = 2
  MaxId = 0
  Takers = {}
  Approvers = {}
  Rotators = {}
  MaxCrashes = 1
  Gates = {TRUE}
INVARIANTS
  GatedHostIsSafe
PROPERTIES
  BothHalvesComeUp
  RoundPassesTurn
