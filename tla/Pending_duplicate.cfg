SPECIFICATION Spec
CONSTANTS
  s1 = s1
  u1 = u1
  u2 = u2
  p1 = p1
  p2 = p2
  p3 = p3
  t1 = t1
  t2 = t2
  Student = {s1}
  University = {u1}
  Uuid = {p1, p2}
  Slot = {t1, t2}
  None = None
  Faults = FALSE
INVARIANTS NoDuplicatePending
