SPECIFICATION Spec
CONSTANTS
  SendPskWindow = 2
  CandidateWindow = 1
  MaxFold = 2
  MaxPq = 3
  MaxId = 0
  Takers = {}
  Approvers = {"initiator", "acceptor"}
  Rotators = {}
CONSTRAINT
  FoldsOrRounds
INVARIANTS
  TypeOK
  InStep
  NoEpochDesync
  BindMeetsResponder
  CrossPskInWindow
  TurnIsOneToken
PROPERTIES
  StapleNotDisplaced
  ClassicalIsStopAndWait
  PostQuantumIsStopAndWait
