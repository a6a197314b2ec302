SPECIFICATION Spec
CONSTANTS
  Proc = {p1}
  Thread = {t1, t2}
  Number = {n1, n2, n3, n4}
  Object = {o1, o2, o3, o4}
  Unique = {u1, u2}
  Raw = {r1}
  NoFd = NoFd
  NoObject = NoObject
SYMMETRY Symmetry
CHECK_DEADLOCK FALSE
INVARIANTS SoleOwner HandleDenotesItsObject
PROPERTIES CloseOnlyByHolder ImplementsReferences
