SPECIFICATION Spec
CONSTANTS
  None = None
  k1 = k1
  Emails = {e1}
  Events = {o1}
  Jobs = {j1, j2}
  Requests = {r1, r2}
  KeyOf <- Keyed
  ReliableStore = TRUE
  ChainLength = 2
  MaxAttempts = 2
  MaxRetries = 3
CHECK_DEADLOCK FALSE
SYMMETRY Symmetry
INVARIANTS TruthInv SingleHolder AttemptsBounded DuplicateOnlyAfterLoss SentWasAccepted IInv
PROPERTIES SettledForever ImplementsLease
