SPECIFICATION Spec
CONSTANTS
  UserSession = {us1, us2}
  Connection = {}
  Family = {"__stg"}
  Data = {d1, d2}
  Writer = {w1}
  Stream = {s1}
  MaxSequence = 2
  MaxOperation = 2
SYMMETRY Symmetry
INVARIANTS
  ViewsFollowStore
PROPERTIES
  FixedDataStable
  MapStableWhileSending
  ObservedSpec
CHECK_DEADLOCK FALSE
