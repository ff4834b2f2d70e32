CONSTANTS
  Window = {w1}
  Mapping = {m1}
  Buffer = {1, 2}
  BufferId <- MCBufferId
  MaxCalls = 2
  MaxChanges = 1
  NULL = NULL
SPECIFICATION LiveSpec
INVARIANTS BufferNotReleased NothingUnmappedUsed EarlierSurfaceGone FramesNeedWindow FrameStaysRequested
PROPERTIES CallReturns FrameIsDrawn
