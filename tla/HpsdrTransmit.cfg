SPECIFICATION TransmitSpec
CONSTANTS
  BLOCK = 2
  PREFILL = 2
  DEPTH = 7
  BATCH = 2
  MAX_QUIET = 1
INVARIANT FifoNeverOverflows
PROPERTIES HandsBackLittle MainGoesOn RelaysRelease
