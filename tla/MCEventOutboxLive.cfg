SPECIFICATION Spec
CONSTANTS
  Producers = {p1}
  Workers = {w1, w2}
  Endpoints = {u1}
  None = None
  MaxRow = 3
  TxRows = 2
  BatchMax = 2
  MaxAttempts = 2
  BytesMax = 2
  Size <- RowSizes
  Legacy = {2}
  LegacyAttempts = 1
  Poison = {1}
  MaxFaults = 2
PROPERTIES EventuallySettled
CHECK_DEADLOCK FALSE
