SPECIFICATION Spec
CONSTANTS
  a1 = a1
  a2 = a2
  w1 = w1
  w2 = w2
  n1 = n1
  n2 = n2
  i1 = i1
  i2 = i2
  r1 = r1
  r2 = r2
  Addr = {a1, a2}
  Email = {}
  Id = {i1, i2}
  Wallet = {w1, w2}
  WalletOf <- Spellings
  Null = Null
  NoNonce = NoNonce
  Blank = Blank
  Nonce = {n1}
  LoginReq = {r1, r2}
  Faults = FALSE
INVARIANTS VerifiedGetsSession
