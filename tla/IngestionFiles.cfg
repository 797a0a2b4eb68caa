SPECIFICATION FairSpec
CONSTANTS
  f1 = f1
  f2 = f2
  f3 = f3
  c1 = c1
  c2 = c2
  w1 = w1
  w2 = w2
  e1 = e1
  e2 = e2
  Typed = Typed
  None = None
  Files = {f1}
  Candidates = {c1}
  CandidateOf <- OneCandidate
  Workers = {w1, w2}
  Erasers = {e1}
  MaxParseAttempts = 2
  Backoff <- Doubling
  StaleAfter = 0
  MaxPurge = 1
  MaxFaults = 1
CHECK_DEADLOCK FALSE
INVARIANTS
  ResumesSound
PROPERTIES
  ImplementsWorkQueue
  FilesSettle
