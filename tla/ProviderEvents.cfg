SPECIFICATION EventsSpec
CONSTANTS
  None = None
  e1 = e1
  Emails = {e1}
  m1 = m1
  m2 = m2
  Messages = {m1, m2}
  EmailOf <- OneEmail
  ProviderOf <- ByChain
  Handlers = {w1, w2}
  Reconcilers = {r1}
  Subscribed = {"bounced", "complained"}
  Reportable = {"delivered", "hard", "bare", "dropped", "complained"}
  MaxRequests = 2
SYMMETRY Alike
CHECK_DEADLOCK FALSE
INVARIANTS EventsTypeOK StrongestReportShows StatusWasReported ToldIsSuppressed SuppressedForCause EventsInv
PROPERTY ForwardUnlessDisturbed
