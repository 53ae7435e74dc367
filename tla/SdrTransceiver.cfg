SPECIFICATION Spec
CONSTANTS
  Clients = {a, b}
  NoClient = NoClient
  Threads = {1, 2}
  Fds = {0, 1}
  Rates = {1}
  DEFAULT = 0
  BLOCK = 1
  PREFILL = 1
  RX_FULL = 2
  TX_DEPTH = 2
INVARIANTS TypeInvariant TunedAsAsked PttHasOwner SocketsAreOwned
PROPERTIES GoneIsReleased
