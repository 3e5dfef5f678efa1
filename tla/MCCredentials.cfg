SPECIFICATION Spec
CONSTANTS
  HistoryWindow = 2
  MaxId = 2
  MaxCommits = 2
  MaxRounds = 2
  Serial = TRUE
INVARIANTS
  CatchUpAccepted
  PeerKnowsOwner
  PqCatchUpAdmitted
