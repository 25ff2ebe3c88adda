SPECIFICATION Spec
CONSTANTS
  a1 = a1
  a2 = a2
  w1 = w1
  w2 = w2
  n1 = n1
  e1 = e1
  i1 = i1
  i2 = i2
  r1 = r1
  c1 = c1
  Addr = {a1, a2}
  Email = {e1}
  Id = {i1, i2}
  Wallet = {w1, w2}
  WalletOf <- TwoWallets
  Null = Null
  NoNonce = NoNonce
  Blank = Blank
  Nonce = {n1}
  LoginReq = {r1}
  Call = {c1}
  EmailsOf <- FirstRegisters
  Faults = TRUE
SYMMETRY Symmetry
INVARIANTS ProfileWasChallenged
PROPERTIES ImplementsRegistration
