SPECIFICATION FairSpec
CONSTANTS
  UserSession = {us1}
  Issuer = {i1, i2}
  Stream = {s1, s2}
  Writer = {w1}
  MaxTimer = 3
  MaxSequence = 3
  PromptTimers = FALSE
INVARIANTS
  StreamCountExact
  CleanupArmed
  NoOrphanDocuments
PROPERTIES
  MembershipReleased
CHECK_DEADLOCK FALSE
