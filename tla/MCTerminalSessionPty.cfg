CONSTANTS
  NoPty = NoPty
  Session = {s1, s2}
  Fd = {1, 2}
  Size = 1
  PtySize = 1
  MaxOutput = 1
  MaxInput = 1
SPECIFICATION Spec
INVARIANTS OwnPtyOnly
CHECK_DEADLOCK FALSE
