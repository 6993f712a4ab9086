SPECIFICATION FairSpec
CONSTANTS
  Name = {1, 2, 3, 4, 5}
  Client = {c1}
  Size = {0, 1, 9}
  DefaultSize = 2
  MaxSize = 3
INVARIANTS
  ListingExact
PROPERTIES
  PagesDisjoint
  ListingEnds
CHECK_DEADLOCK FALSE
