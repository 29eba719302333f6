CONSTANTS
  MaxJitter = 2
  EntryLifeTime = 14
  MaxDelay = 1
  MaxLost = 1
SPECIFICATION FairSpec
INVARIANTS
  TypeOK
PROPERTIES
  NeighbourIsKept
  NeighbourIsFound
CHECK_DEADLOCK FALSE
