CONSTANTS
  NoPty = NoPty
  Session = {s1}
  Fd = {1, 2}
  Size = 1
  PtySize = 1
  MaxOutput = 1
  MaxInput = 3
SPECIFICATION LiveSpec
PROPERTIES ExitIsCleanedUp
CHECK_DEADLOCK FALSE
