SPECIFICATION Safety
CONSTANTS
  Producers = {p1, p2}
  Workers = {w1, w2}
  Endpoints = {u1}
  None = None
  MaxRow = 4
  TxRows = 2
  BatchMax = 3
  MaxAttempts = 3
  BytesMax = 2
  Size <- RowSizes
  Legacy = {3}
  LegacyAttempts = 2
  Poison = {2}
  MaxFaults = 1
SYMMETRY Interchangeable
INVARIANTS TypeOK InOrder DeliveredWasAccepted PoisonIsolated
PROPERTIES ImplementsMailbox
CHECK_DEADLOCK FALSE
