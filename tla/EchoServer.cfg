CONSTANTS
  c1 = c1
  c2 = c2
  c3 = c3
  c4 = c4
  Programs = {"echo", "multishot", "drain", "buffers", "link"}
  Clients = {c1, c2, c3, c4}
  Fds = {3, 4, 5, 6}
  Bids = {b1}
  MaxMessages = 2
  Arrivals <- MCArrivals
  Says <- MCSays
  None = None
CHECK_DEADLOCK FALSE
SPECIFICATION FairSpec
INVARIANTS
  TypeOK
  EchoesInOrder
  OneHandlerEach
  NoErasedBuffer
  BuffersHaveOneOwner
  RespondsInTurn
PROPERTIES
  HelloThenGoodbye
  NewcomersAreAccepted
  GoodbyeIsSaid
