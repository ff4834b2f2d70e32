CONSTANTS
  Server = X
  Activity = {a1, a2}
  NoProcess = NoProcess
  MaxConnections = 2
SPECIFICATION LiveSpec
PROPERTIES MutexRecovered
CHECK_DEADLOCK FALSE
