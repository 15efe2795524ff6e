CONSTANTS
  Listings <- AllListings
  LastItem = 5
  PageSizes = {1, 4}
  Default = 2
  Largest = 3
  NULL = NULL
SPECIFICATION Spec
INVARIANTS TypeOK NothingTwice NothingMissed
PROPERTIES WalkEnds
CHECK_DEADLOCK FALSE
