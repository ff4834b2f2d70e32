CONSTANTS
  NoPty = NoPty
  Session = {s1}
  Fd = {1}
  Size = 2
  PtySize = 2
  MaxOutput = 3
  MaxInput = 3
SPECIFICATION LiveSpec
INVARIANTS OutputIsNoticed
PROPERTIES FinishedIsFinal ExitIsHandled OutputIsShown ThreadsStopOnceAlone
CHECK_DEADLOCK FALSE
