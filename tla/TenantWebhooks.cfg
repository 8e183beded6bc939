SPECIFICATION HooksSpec
CONSTANTS
  None = None
  e1 = e1
  Emails = {e1}
  Messages = {m1}
  EmailOf <- OneEmail
  ProviderOf <- BySes
  Handlers = {w1}
  Reconcilers = {}
  Subscribed = {"delivered", "complained"}
  Reportable = {"delivered", "complained"}
  MaxRequests = 2
  MaxHookRetries = 1
  MaxSwitches = 1
CHECK_DEADLOCK FALSE
INVARIANTS HooksInv HeardAgainOnlyAfterLoss RowsTellTheTruth
PROPERTY HooksEnd
