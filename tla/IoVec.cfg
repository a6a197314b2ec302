SPECIFICATION Spec
CONSTANTS
  Place = {p}
  Vector = {i, j}
  MaxSize = 3
  MaxOverrun = 1
  Foreign = Foreign
  None = None
SYMMETRY Symmetry
INVARIANTS InsideItsObject
PROPERTIES OnlyIovecsAreWritten TextsAreSentToTheirZero
