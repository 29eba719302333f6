CONSTANTS
  Ifaces <- MCIfaces
  Addrs = {a1, a2, a3}
  Unset = Unset
  SocketIds <- MCSocketIds
  MaxAddrs = 2
  SetUpRepeats = FALSE
SPECIFICATION Spec
INVARIANTS
  TypeOK
  OneSocketPerInterface
  NothingHeardWithoutSockets
  LoopbackSourceIsOnDevice
PROPERTY DownFindsItsSocket
CHECK_DEADLOCK FALSE
