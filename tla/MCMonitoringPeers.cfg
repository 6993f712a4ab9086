SPECIFICATION Spec
CONSTANTS
  UserSession = {us1}
  Issuer = {i1}
  Stream = {s1}
  Writer = {w1}
  MaxTimer = 3
  MaxSequence = 3
  PromptTimers = FALSE
SYMMETRY Symmetry
PROPERTIES
  MonitoringPeersActive
CHECK_DEADLOCK FALSE
