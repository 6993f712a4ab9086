SPECIFICATION Spec
CONSTANTS
  Uid = {u1, u2}
  Config = {World, FriendWorld}
  FriendConfig = {FriendWorld}
  MatchingKey = {k}
  Capacity <- MCCapacity
  MaxStamp = 4
  Handler = {h}
  MaxTicket = 2
  RequestedMax = {0, 4}
  RequestedRoom = {0, 1}
  MaxRoomSize = 3
  MaxCreation = 1
SYMMETRY Symmetry
INVARIANTS
  RosterAgrees
  OneSlotPerUser
  FriendPoolFromRoom
PROPERTIES
  CapacityRespected
  CreationOpensOneRoom
  TombstoneFinal
  TicketPlacedOnce
  RepeatedTicketTakesNoSlot
  StaleTokenRefused
  RoomsSpec
CHECK_DEADLOCK FALSE
