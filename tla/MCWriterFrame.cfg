SPECIFICATION FrameSpec
CONSTANTS
  Samples = {0}
  Zero = 0
  RamConfigs <- MCConfigs
  SAMPLES_PER_WORD = 2
  FIFO_DEPTH = 4
  MAX_BURST_LEN = 2
  BYTES_PER_BEAT = 2
  LEN_MOD = 8
  ADDR_MOD = 16
  BASE = 4
  SIZE = 8
PROPERTY TlastCausesFlush
