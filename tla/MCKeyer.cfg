SPECIFICATION Spec
CONSTANTS
  Settings <- MCSettings
  DOT = 1
  DASH = 2
  GAP = 2
  DEFAULT_HANG = 3
  MAX_QUIET = 3
PROPERTIES ImplementsCarrier NothingForgotten ElementLength KeyUpEndsTransmission
