SPECIFICATION MCSpec
CONSTANTS
  l1 = l1
  l2 = l2
  r1 = r1
  r2 = r2
  totp = totp
  passkey = passkey
  None = None
  Logins = {l1, l2}
  Requests = {r1, r2}
  Factors = {totp, passkey}
  MaxVersion = 1
  MaxEpoch = 2
  Attempts = {1, 2}
  Limit = 2
  MaxFailures = 1
  Costs = {1, 2}
  Window = 3
  LastTime = 7
SYMMETRY Symmetric
INVARIANTS
  
  SecondFactorProven
  AttemptsThrottled
PROPERTIES
  OneEpoch

CHECK_DEADLOCK FALSE
