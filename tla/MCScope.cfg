SPECIFICATION Spec
CONSTANTS
  Samples <- MCSamples
  Unwritten = Unwritten
  ScopeConfigs <- MCConfigs
  Windows <- LargeWindows
  BUFFER_DEPTH = 8
  COUNT_MOD = 16
  INT_MOD = 32
  TAGS = 12
  Memory = 11
INVARIANTS TypeInvariant WindowInOrder TlastEndsWindow
PROPERTIES ImplementsWindow CaptureCompletes
