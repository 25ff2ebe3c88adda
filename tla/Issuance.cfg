SPECIFICATION LiveSpec
CONSTANTS
  s1 = s1
  n1 = n1
  c1 = c1
  c2 = c2
  i1 = i1
  i2 = i2
  p1 = p1
  p2 = p2
  u1 = u1
  Student = {s1}
  University = {n1}
  Cid = {c1, c2}
  Uuid = {i1, i2}
  Post = {p1, p2}
  Upload = {u1}
  None = None
  Faults = TRUE
INVARIANTS TypeOK LinkIsPinned CreatedIsOwn
PROPERTIES ImplementsRegistry EveryRequestAnswered
