CONSTANTS
  Line = {blank, a, b}
  Blank = blank
  Row = {r1, r2, r3, r4}
  Null = null
  TotalRows = 4
  Heights = {2, 3, 4}
  AltScreen = FALSE
SYMMETRY Symmetry
SPECIFICATION Spec
PROPERTIES ShrinkSkipsBlank
