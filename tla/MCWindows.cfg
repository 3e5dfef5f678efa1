SPECIFICATION WSpec
CONSTANTS
  SendPskWindow = 2
  CandidateWindow = 1
  MaxFold = 2
  MaxPq = 3
  MaxId = 0
  Takers = {"acceptor"}
  Approvers = {"initiator"}
  Rotators = {}
  EpochRetention = 1
  PqHeaderWindow = 2
  AttachmentWindow = 2
  Attaching = {"acceptor"}
INVARIANTS
  WindowsBounded
  PeerOpensNextSeal
  HandedOutOpens
  AttachmentDerivable
