SPECIFICATION FairSpec
CONSTANTS
  Caller = {c1, c2}
  Stream = {s1}
  Nobody = nobody
  Window = 1
INVARIANTS
  NoCircularWait
PROPERTIES
  ReadersFinish
  HandlersFinish
CHECK_DEADLOCK FALSE
