CONSTANTS
  Places <- MCPlaces
  Relays <- MCRelays
  Limit16 = 8
  MaxTime = 2
  Services = {"god", "on demand"}
  Payload <- MCPayload
SPECIFICATION Spec
INVARIANTS
  TypeOK
  PayloadIsIntact
  HelloTellsPosition
  PositionHasItsTime
PROPERTIES
  NeverOlder
CHECK_DEADLOCK FALSE
