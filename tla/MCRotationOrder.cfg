SPECIFICATION Spec
CONSTANTS
  HistoryWindow = 4
  MaxId = 2
  MaxCommits = 2
  MaxRounds = 0
  Serial = FALSE
INVARIANTS
  CatchUpAccepted
