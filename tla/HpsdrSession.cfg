SPECIFICATION Spec
CONSTANTS
  Clients = {a, b}
  Receivers = {1, 5, 8}
  RateCodes = {0, 1}
  Freqs = {0, 2}
  DEFAULT_FREQ = 1
  RX_FULL = 2
  CREATE_FAILS = FALSE
INVARIANTS BlockFits InPhase
PROPERTIES ImplementsWorker
