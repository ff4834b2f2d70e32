CONSTANTS
  Server = X
  Activity = {a1, a2}
  NoProcess = NoProcess
  MaxConnections = 2
SPECIFICATION LiveSpec
INVARIANTS Exclusive LockingPidNamesOwner
PROPERTIES ServerGetsMutex
CHECK_DEADLOCK FALSE
