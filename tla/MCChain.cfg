SPECIFICATION Spec
CONSTANTS
  LAST = 7
  Windows <- MCWindows
  CombineSetups <- MCSetups
  PIPE_STAGES = 2
  BUFFER_DEPTH = 8
  SAMPLES_PER_WORD = 2
  FIFO_DEPTH = 4
  MAX_BURST_LEN = 2
  COUNT_MOD = 32
  INT_MOD = 64
  LEN_MOD = 8
  ADDR_MOD = 32
  BASE_ADDR = 8
  BUFFER_SIZE = 8
INVARIANTS CrossingAfterPre WindowInMemory
PROPERTY CaptureReachesMemory
