CONSTANTS
  Addrs <- MCAddrs
  EntryLifeTime = 2
  Scale = 2
  MyPositions <- MCMyPositions
  Positions <- MCPositions
  GraphType = 1
SPECIFICATION Spec
INVARIANTS
  RoutedToTheLiving
