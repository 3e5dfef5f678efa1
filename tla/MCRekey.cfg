SPECIFICATION RotatedSpec
CONSTANTS
  SendPskWindow = 2
  CandidateWindow = 1
  MaxFold = 2
  MaxPq = 4
  MaxId = 2
  Takers = {"initiator", "acceptor"}
  Approvers = {"acceptor"}
  Rotators = {"initiator"}
CONSTRAINT
  RotationOrRounds
INVARIANTS
  BindMeetsResponder
  ResponderNeverStranded
  ReservationKept
  RekeyIdsCanonical
  CommittableCandidateHeld
