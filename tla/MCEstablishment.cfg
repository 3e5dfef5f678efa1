SPECIFICATION FairSpec
CONSTANTS
  r1 = r1
  r2 = r2
  Remote = {r1, r2}
  Bindings = {"b1", "b2"}
  Payloads = {TRUE}
  Invitations <- SmallInvitations
  MaxAttempts = 2
  MaxCrashes = 1
CHECK_DEADLOCK FALSE
INVARIANTS
  NothingUndelegated
  OneEnvelopePerWelcome
  StapleOutlivesJoin
  JoinedMeansAdmitted
  BothEndsAgree
  SpawnsAtMostOnce
  SessionsAreClaimed
PROPERTIES
  Establishes
