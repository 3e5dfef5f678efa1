SPECIFICATION RotatedRSpec
CONSTANTS
  SendPskWindow = 2
  CandidateWindow = 1
  MaxFold = 0
  MaxPq = 3
  MaxId = 1
  Takers = {}
  Approvers = {}
  Rotators = {}
  MaxCrashes = 1
  Gates = {TRUE}
INVARIANTS
  NoStaleSplice
