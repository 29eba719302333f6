CONSTANTS
  Addrs <- MCAddrs
  Grid <- MCGrid
  Range2 = 5
  EntryLifeTime = 1
SPECIFICATION Spec
INVARIANTS
  RngIsRelativeNeighborhoodGraph
