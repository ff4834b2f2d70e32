CONSTANTS
  Buffer = {b1, b2, b3}
  MaxConnections = 2
  MaxWork = 2
  NoBuffer = NoBuffer
SPECIFICATION LiveSpec
PROPERTIES ConnectionRecovered
CHECK_DEADLOCK FALSE
