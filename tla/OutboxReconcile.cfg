SPECIFICATION ReconcileSpec
CONSTANTS
  None = None
  Emails = {e1}
  Events = {o1}
  Jobs = {j1, j2}
  Requests = {r1, r2}
  KeyOf <- Keyless
  ReliableStore = FALSE
  ChainLength = 1
  MaxAttempts = 2
  MaxRetries = 3
  Reconcilers = {c1}
  MaxTrouble = 1
CHECK_DEADLOCK FALSE
INVARIANTS ReconcileIsSafe
