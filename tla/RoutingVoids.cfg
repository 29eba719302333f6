CONSTANTS
  Addrs <- MCAddrs
  EntryLifeTime = 1
  Scale = 1
  Grid <- MCGrid
  Scenarios <- MCScenarios
  Range2 = 5
SPECIFICATION FairSpec
INVARIANTS
  TypeOK
  LostOnlyAlone
PROPERTIES
  Delivery
  ProgressIsKept
CHECK_DEADLOCK FALSE
