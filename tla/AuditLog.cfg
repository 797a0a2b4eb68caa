SPECIFICATION MCSpec
CONSTANTS
  w1 = w1
  d1 = d1
  d2 = d2
  p1 = p1
  p2 = p2
  v1 = v1
  None = None
  Operations = {"event", "save", "pause", "resume", "remove", "keep", "flag"}
  Writers = {w1}
  Drains = {d1, d2}
  Purgers = {p1, p2}
  Verifiers = {v1}
  RetentionChoices = {0}
  MaxPurge = 2
  VerifyBatch = 1
  StreamBatch = 1
  StaleAfter = 0
  Backoff = 1
  MaxEntries = 4
  StreamEntries = 3
  MaxFaults = 1
INVARIANTS
  ChainSound
  NothingSkipped
PROPERTIES
  PurgeJustified
  EntriesDelivered
