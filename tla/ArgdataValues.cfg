SPECIFICATION Spec
CONSTANTS
  Node = {a, b}
  Static = {true}
  True = true
  False = false
  Array = {k, l}
  Vector = {v}
  Block = {x, y}
  Number = {2}
  Fd = {0,1}
  NoFd = NoFd
  MaxArray = 1
  MaxBytes = 3
  Merge = {TRUE, FALSE}
  Free = Free
  Gone = Gone
  Lost = Lost
  Nothing = Nothing
INVARIANTS TypeOK ReadsWhatWasBuilt PartsIntact EncodesTheValue
PROPERTIES ImplementsImmutableValues
SYMMETRY Symmetry
