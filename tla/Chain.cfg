SPECIFICATION LiveSpec
CONSTANTS
  owner = owner
  org = org
  x1 = x1
  Address = {owner, org}
  Owner = owner
  Zero = Zero
  Uri = {x1}
  None = None
  Listee = {owner, org, Zero}
  Receiver = {org}
  MaxCalls = 3
  MaxDocs = 1
  Faults = TRUE
INVARIANTS TypeOK ContractSound OrderKept ReturnedIsAccountedFor NeverHeldUp
PROPERTIES ImplementsRegistry SubmittedSettles
CHECK_DEADLOCK FALSE
