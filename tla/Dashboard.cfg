SPECIFICATION Spec
CONSTANTS
  Ids = {i1, i2}
  First = i1
  Accounts = {a1, a2}
  Alerts = {"usage_alerts", "weekly_summary"}
  Tours <- MCTours
  MaxCalls = 2
  None = None
INVARIANTS
  DashInv
  ListsSettle
  SecretKept
  OneRowPerOpening
  EditStartsFromOwnLastSave
  OneSession
  SwitchShowsSaved
PROPERTIES
  NoYank
  VerifiedIsShown
CHECK_DEADLOCK FALSE
