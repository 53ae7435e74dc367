SPECIFICATION HistorySpec
CONSTANTS
  Samples <- MCSamples
  Zero = 0
  RamConfigs <- MCConfigs
  SAMPLES_PER_WORD = 2
  FIFO_DEPTH = 2
  MAX_BURST_LEN = 2
  BYTES_PER_BEAT = 2
  LEN_MOD = 8
  ADDR_MOD = 4
  TAGS = 5
PROPERTY ImplementsPackedStream
