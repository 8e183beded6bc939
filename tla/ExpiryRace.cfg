SPECIFICATION EventsSpec
CONSTANTS
  None = None
  e1 = e1
  Emails = {e1}
  m1 = m1
  m2 = m2
  Messages = {m1}
  EmailOf <- OneEmail
  ProviderOf <- ByChain
  Handlers = {w1}
  Reconcilers = {r1}
  Subscribed = {"bounced", "complained"}
  Reportable = {"delivered", "bare"}
  MaxRequests = 2
CHECK_DEADLOCK FALSE
PROPERTY TerminalLeftAlone
