SPECIFICATION Spec
CONSTANTS
  Samples <- MCSamples
  Zero = 0
  Value <- MCValue
  Configs <- MCConfigs
  PIPE_STAGES = 2
INVARIANTS TypeInvariant ReportedIsDisarmed
PROPERTIES NoRetrigger EveryEdgeReported
