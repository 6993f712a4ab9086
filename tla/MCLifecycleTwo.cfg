SPECIFICATION Spec
CONSTANTS
  UserSession = {us1, us2}
  Issuer = {i1}
  Stream = {s1}
  Writer = {w1}
  MaxTimer = 2
  MaxSequence = 4
  PromptTimers = TRUE
SYMMETRY Symmetry
INVARIANTS
  SequenceNeverShared
PROPERTIES
  NoStreamEvicted
CHECK_DEADLOCK FALSE
