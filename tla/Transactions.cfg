SPECIFICATION LiveSpec
CONSTANTS
  h1 = h1
  b1 = b1
  b2 = b2
  b3 = b3
  i1 = i1
  i2 = i2
  t1 = t1
  t2 = t2
  Hash = {h1}
  Block = {b1, b2, b3}
  Height = {1, 2}
  HeightOf <- MCHeightOf
  TxsOf <- MCTxsOf
  Uuid = {i1, i2}
  Save = {t1, t2}
  None = None
  Faults = TRUE
INVARIANTS TypeOK RowsFromChain RecordedIsStored
PROPERTIES EverySaveAnswered
