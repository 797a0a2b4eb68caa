SPECIFICATION MCSpec
CONSTANTS
  p1 = p1
  e1 = e1
  w1 = w1
  w2 = w2
  a1 = a1
  m1 = m1
  to1 = to1
  None = None
  Endpoints = {p1}
  Events = {e1}
  Workers = {w1, w2}
  Admins = {a1}
  MaxWebhookAttempts = 2
  MaxWebhookEndpoints = 1
  StaleAfter = 1
  Delays = {1}
  KeepSettled = 0
  MaxFaults = 2
  Messages = {m1}
  Addresses = {to1}
  AddressOf <- OneAddress
  MaxEmailAttempts = 2
  StaleSend = 0
  Lifetime = 3
  Retention = 1
INVARIANTS
  SentOnce
PROPERTIES
  ImplementsWorkQueue
  SuppressionHonoured
  OutgoingSettles
