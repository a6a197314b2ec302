SPECIFICATION Spec
CONSTANTS
  Proc = {p1}
  Thread = {t1}
  Number = {n1, n2}
  Object = {o1, o2}
  Unique = {u1, u2}
  Raw = {r1}
  NoFd = NoFd
  NoObject = NoObject
SYMMETRY Symmetry
CHECK_DEADLOCK FALSE
INVARIANT NoLeak
