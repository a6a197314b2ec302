SPECIFICATION TSpec
CONSTANTS
  Kind = "seq"
  Slot = {loop, s1, s2}
  Loop = loop
  Over = buffer
  Frame = Frame
  Container = {built, buffer}
  Decoded = {buffer}
  e1 = e1
  e2 = e2
  e3 = e3
  built = built
  buffer = buffer
  Element <- MCElement
  Content <- MCContent
  Offset <- MCOffset
  Elision = {TRUE}
  Nobody = Nobody
  Null = Null
  Unset = Unset
  Dangling = Dangling
  Dead = Dead
INVARIANT VisitsInOrder
PROPERTY LoopTerminates
