SPECIFICATION Spec
CONSTANTS
  MaxSso = 1
  Sids = {b1}
  Deliveries = {d1, d2}
  Logins = {l1}
  Calls = {}
  None = None
  MaxFaults = 1
PROPERTIES AckedIsApplied
CHECK_DEADLOCK FALSE
