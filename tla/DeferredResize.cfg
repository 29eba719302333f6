CONSTANTS
  f1 = f1
  f2 = f2
  raw = raw
  u = u
  d1 = d1
  d2 = d2
  Packets <- MCPackets
  Dsts <- MCDsts
  Destination <- MCDestination
  Uid <- MCUid
  HasHeader <- MCHasHeader
  PollDelay = 2
  MaxLens = {1, 2}
  Timeouts = {2}
  OnDemand = TRUE
SPECIFICATION Spec
PROPERTIES
  FullQueueDoesNotGrow
