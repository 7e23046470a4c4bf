SPECIFICATION Spec
CONSTANTS
  MaxSso = 1
  Sids = {b1}
  Deliveries = {d1}
  Logins = {l1}
  Calls = {c1}
  None = None
  MaxFaults = 0
INVARIANTS LogoutReaches
CHECK_DEADLOCK FALSE
