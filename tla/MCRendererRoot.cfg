CONSTANTS
  Window = {w1}
  Mapping = {m1}
  Buffer = {1, 2}
  BufferId <- MCBufferId
  MaxCalls = 2
  MaxChanges = 2
  NULL = NULL
SPECIFICATION Spec
INVARIANTS RootChangeStaysRequested
CHECK_DEADLOCK FALSE
