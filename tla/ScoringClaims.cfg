SPECIFICATION Spec
CONSTANTS
  c1 = c1
  c2 = c2
  w1 = w1
  w2 = w2
  w3 = w3
  u1 = u1
  u2 = u2
  long = long
  long2 = long2
  short = short
  None = None
  Apps = {1}
  Companies = {c1}
  CompanyOf <- OneApp
  Inputs = {long, short}
  Scorable = {long}
  Workers = {w1, w2}
  Users = {u1}
  TenantConcurrency = 1
  GlobalConcurrency = 2
  MaxAttempts = 2
  StaleAfter = 0
  Delays = {1}
  Budget <- BudgetOf1
  TokenCosts = {1}
  MaxBulk = 1
  MaxRuns = 1
  MaxEdits = 1
  MaxCrashes = 1
INVARIANTS
  OneOwner
PROPERTIES
  ImplementsWorkQueue
  OptOutHonoured
