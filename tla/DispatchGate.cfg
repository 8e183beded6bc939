SPECIFICATION GateSpec
CONSTANTS
  r1 = r1
  r2 = r2
  r3 = r3
  c1 = c1
  c2 = c2
  c3 = c3
  sendgrid = sendgrid
  mailgun = mailgun
  Requests = {r1, r2, r3}
  Connections = {c1, c2, c3}
  Priority <- MCPriority
  TypeOf <- MCTypeOf
  DailyCap = 1
  RunCap = 1
  CloudRetries = 2
  CloudAttempts = 4
  Scenes <- MCScenes
  None = None
INVARIANTS
  GateInv
  OneSendPerKey
  SuppressedOnlyLate
  QuotaBounded
  McpBounded
  CloudHeardOnce
CHECK_DEADLOCK FALSE
