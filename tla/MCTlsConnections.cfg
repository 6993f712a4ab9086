SPECIFICATION FairSpec
CONSTANTS
  a1 = a1
  c1 = c1
  Conn = {c1, c2}
  Address = {a1}
  Remote <- MCRemote
  Call = {r1, r2}
  Carrier <- MCCarrier
  Backlog = 1
INVARIANTS
  OneIdPerConnection
  
PROPERTIES
  LinesInOrder
  LeavesDemultiplexer
CHECK_DEADLOCK FALSE
