SPECIFICATION Spec
CONSTANTS
  Kind = "map"
  Slot = {s1, s2, s3}
  Frame = Frame
  Container = {built, buffer, empty}
  Decoded = {buffer}
  e1 = e1
  e2 = e2
  e3 = e3
  built = built
  twice = twice
  buffer = buffer
  empty = empty
  Element <- MCElement
  Content <- MCContent
  Offset <- MCOffset
  Elision = {TRUE}
  Nobody = Nobody
  Null = Null
  Unset = Unset
  Dangling = Dangling
  Dead = Dead
INVARIANT EqualIffSamePosition
