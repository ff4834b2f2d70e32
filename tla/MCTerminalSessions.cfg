CONSTANTS
  NoPty = NoPty
  Session = {s1, s2}
  Fd = {1, 2}
  Size = 1
  PtySize = 1
  MaxOutput = 2
  MaxInput = 0
SPECIFICATION Spec
SYMMETRY Symmetry
INVARIANTS DescriptorsOwned OutputConserved
CHECK_DEADLOCK FALSE
