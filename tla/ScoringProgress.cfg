SPECIFICATION FairSpec
CONSTANTS
  c1 = c1
  c2 = c2
  w1 = w1
  w2 = w2
  w3 = w3
  u1 = u1
  u2 = u2
  long = long
  long2 = long2
  short = short
  None = None
  Apps = {1, 2}
  Companies = {c1}
  CompanyOf <- TwoApps
  Inputs = {long}
  Scorable = {long}
  Workers = {w1}
  Users = {u1, u2}
  TenantConcurrency = 1
  GlobalConcurrency = 1
  MaxAttempts = 1
  StaleAfter = 0
  Delays = {1}
  Budget <- BudgetOf3
  TokenCosts = {0}
  MaxBulk = 2
  MaxRuns = 1
  MaxEdits = 0
  MaxCrashes = 1
PROPERTIES
  ScoringSettles
