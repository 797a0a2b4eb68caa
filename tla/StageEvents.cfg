SPECIFICATION MCSpec
CONSTANTS
  p1 = p1
  p2 = p2
  p3 = p3
  t1 = t1
  t2 = t2
  None = None
  People = {p1, p2, p3}
  Applications = {1, 2}
  Stages = {"NEW", "OFFER"}
  NewStage = "NEW"
  Scores = {1, 2}
  Labels = {"x", "y"}
  ForeignId = ForeignId
  MaxForm = 2
  MaxDecisions = 2
  MaxRuns = 1
  MaxEdits = 2
  MaxChanges = 0
  ListIds = {1}
  Keys = {1, 2}
  PageSize = 2
  MaxListChanges = 0
  Absent = Absent
  Tabs = {t1, t2}
  Minutes = {2}
  Days = {3}
  MaxSessions = 0
  MaxGrants = 0
  MaxClock = 0
INVARIANTS
  StageChangesTold

CHECK_DEADLOCK FALSE
