SPECIFICATION Spec
CONSTANTS
  Threads = {1, 2}
  BINS = 3
  Counts = {0, 1}
  RAND_MAX = 3
  FIFO_LIMIT = 1
  CREATE_FAILS = FALSE
INVARIANTS TypeInvariant PulsesFollowSpectrum UnattendedIsKept
PROPERTIES ImplementsWorker StopCompletes
