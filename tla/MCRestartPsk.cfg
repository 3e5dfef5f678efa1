SPECIFICATION RotatedRSpec
CONSTANTS
  SendPskWindow = 2
  CandidateWindow = 1
  MaxFold = 0
  MaxPq = 4
  MaxId = 1
  Takers = {}
  Approvers = {}
  Rotators = {}
  MaxCrashes = 1
  Gates = {TRUE}
INVARIANTS
  RekeyPskResolves
