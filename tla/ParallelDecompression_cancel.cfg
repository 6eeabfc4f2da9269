SPECIFICATION UnpackFairSpec
CONSTANTS
  MaxStream = 5
  Limit = 4
  PipeSize = 1
PROPERTY CancelReturns
CHECK_DEADLOCK FALSE
