SPECIFICATION Spec
CONSTANTS
  a1 = a1
  a2 = a2
  e1 = e1
  e2 = e2
  c1 = c1
  c2 = c2
  i1 = i1
  i2 = i2
  Addr = {a1, a2}
  Email = {e1, e2}
  Id = {i1, i2}
  Null = Null
  Call = {c1}
  EmailsOf <- AnyEmail
  Faults = FALSE
SYMMETRY Symmetry
INVARIANTS LinkedWhenQuiet
