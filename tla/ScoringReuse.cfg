SPECIFICATION Spec
CONSTANTS
  c1 = c1
  c2 = c2
  w1 = w1
  w2 = w2
  w3 = w3
  u1 = u1
  u2 = u2
  long = long
  long2 = long2
  short = short
  None = None
  Apps = {1}
  Companies = {c1}
  CompanyOf <- OneApp
  Inputs = {long, long2}
  Scorable = {long, long2}
  Workers = {w1}
  Users = {u1, u2}
  TenantConcurrency = 1
  GlobalConcurrency = 1
  MaxAttempts = 1
  StaleAfter = 0
  Delays = {1}
  Budget <- BudgetOf1
  TokenCosts = {0, 1}
  MaxBulk = 1
  MaxRuns = 3
  MaxEdits = 2
  MaxCrashes = 0
SYMMETRY SymWorkersUsers
INVARIANTS
  OneActiveRun
  ScoresAgree
  

  
