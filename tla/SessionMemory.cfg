SPECIFICATION MCSpec
CONSTANTS
  Sessions = {1, 2}
  Named = {1}
  Unreadable = {2}
  Capacities = {0, 1}
  SyncLoad = 1
  MaxPins = 1
  MaxQueue = 2
  DiskFills = TRUE
INVARIANTS
  MemoryComesBack
  ShownAreDrawn
PROPERTY
  NothingDropped
