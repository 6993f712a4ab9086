SPECIFICATION FairSpec
CONSTANTS
  p1 = p1
  p2 = p2
  Process = {p1, p2}
  Supervised = {p1}
  Regenerating = {p2}
  Leaf = {l1, l2, l3, l4, l5}
  Key = {k1, k2, k3, k4}
  Nobody = nobody
  Opens <- MCOpens
  MaxTrouble = 3
INVARIANTS
  TokensOutliveRestart
  ServesSoundLeaf
PROPERTIES
  ComesUp
CHECK_DEADLOCK FALSE
