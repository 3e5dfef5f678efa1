SPECIFICATION RSpec
CONSTANTS
  SendPskWindow = 2
  CandidateWindow = 1
  MaxFold = 3
  MaxPq = 2
  MaxId = 0
  Takers = {}
  Approvers = {"initiator", "acceptor"}
  Rotators = {}
  MaxCrashes = 1
  Gates = {FALSE}
INVARIANTS
  RoutineFrameNeedsNoWait
