SPECIFICATION LiveSpec
CONSTANTS
  None = None
  k1 = k1
  Emails = {e1}
  Events = {o1}
  Jobs = {j1}
  Requests = {r1}
  KeyOf <- Keyed
  ReliableStore = TRUE
  ChainLength = 1
  MaxAttempts = 2
  MaxRetries = 3
CHECK_DEADLOCK FALSE
INVARIANTS OnlyExhaustionBuries
