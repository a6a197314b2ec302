SPECIFICATION Spec
CONSTANTS
  Proc = {p1, p2}
  Thread = {t1, t2}
  Number = {n1, n2}
  Object = {o1, o2, o3}
  Unique = {u1, u2}
  Raw = {r1}
  NoFd = NoFd
  NoObject = NoObject
SYMMETRY Symmetry
CHECK_DEADLOCK FALSE
INVARIANTS TypeOK SoleOwner HandleDenotesItsObject
PROPERTY LeakOnlyByCreate2OrFork
