SPECIFICATION MCSpec
CONSTANTS
  p1 = p1
  p2 = p2
  p3 = p3
  t1 = t1
  t2 = t2
  None = None
  People = {p1, p2, p3}
  Applications = {1, 2}
  Stages = {"NEW", "OFFER"}
  NewStage = "NEW"
  Scores = {1, 2}
  Labels = {"x", "y"}
  ForeignId = ForeignId
  MaxForm = 2
  MaxDecisions = 2
  MaxRuns = 1
  MaxEdits = 2
  MaxChanges = 4
  ListIds = {1, 2, 3, 4, 5}
  Keys = {1, 2}
  PageSize = 2
  MaxListChanges = 2
  Absent = Absent
  Tabs = {t1, t2}
  Minutes = {2}
  Days = {3}
  MaxSessions = 2
  MaxGrants = 3
  MaxClock = 3
INVARIANTS
  BlindToScores
  
  
PROPERTIES
  RecordKept
  LeaversStartOver
  ListsWalked

CHECK_DEADLOCK FALSE
