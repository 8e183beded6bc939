SPECIFICATION LiveSpec
CONSTANTS
  None = None
  k1 = k1
  Emails = {e1}
  Events = {o1}
  Jobs = {j1, j2}
  Requests = {r1, r2}
  KeyOf <- Keyless
  ReliableStore = FALSE
  ChainLength = 2
  MaxAttempts = 3
  MaxRetries = 1
CHECK_DEADLOCK FALSE
INVARIANTS FailedWasNotAccepted
PROPERTIES EventuallySettled
