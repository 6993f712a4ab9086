SPECIFICATION Spec
CONSTANTS
  User = {us1, us2}
  Writer = {w1, w2}
  Key = {"upcsid", "state"}
  Inner = {"x", "y"}
  Number = "upcsid"
  MaxInt = 3
  Request <- MCRequest
  Mask <- MCMask
SYMMETRY Symmetry
INVARIANTS
  CounterIsLastDraw
  DrawsIncrease
  ToldIsStored
  MaskedReadExact
CHECK_DEADLOCK FALSE
