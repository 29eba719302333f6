CONSTANTS
  Places <- MCPlaces
  Relays <- MCRelays
  Limit16 = 4
  MaxTime = 2
  Services = {"god"}
  Payload <- MCPayload
SPECIFICATION Spec
INVARIANTS
  DestinationWasThere
CHECK_DEADLOCK FALSE
