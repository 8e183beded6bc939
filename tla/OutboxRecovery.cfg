SPECIFICATION RecoverySpec
CONSTANTS
  None = None
  Emails = {e1}
  Events = {o1, o2}
  Jobs = {j1, j2}
  Requests = {r1}
  KeyOf <- Keyless
  ReliableStore = FALSE
  ChainLength = 1
  MaxAttempts = 1
  MaxRetries = 1
  Reconcilers = {c1}
  MaxTrouble = 2
CHECK_DEADLOCK FALSE
SYMMETRY Symmetry
INVARIANTS RepairInv OneSenderUnlessHasty DuplicatesExplained FailedTruthUnderRepair
