SPECIFICATION EitherRSpec
CONSTANTS
  SendPskWindow = 2
  CandidateWindow = 1
  MaxFold = 2
  MaxPq = 3
  MaxId = 1
  Takers = {}
  Approvers = {"acceptor"}
  Rotators = {}
  MaxCrashes = 1
  Gates = {TRUE, FALSE}
CONSTRAINT
  OneRatchet
INVARIANTS
  RestoreSucceeds
  AppliedIsDurable
  RestoredResponderHolds
  GatedHostIsSafe
