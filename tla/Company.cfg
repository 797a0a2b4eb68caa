SPECIFICATION MCSpec
CONSTANTS
  u1 = u1
  u2 = u2
  u3 = u3
  r1 = r1
  r2 = r2
  s1 = s1
  s2 = s2
  h1 = h1
  h2 = h2
  p1 = p1
  p2 = p2
  None = None
  Users = {u1, u2, u3}
  Founder = u1
  Requests = {r1, r2}
  Operations = {"role", "remove", "transfer", "deprovision", "delete", "invite", "accept", "join"}
  Limits = {2, None}
  MaxRequests = 3
  Subs = {s1, s2}
  Handlers = {h1, h2}
  MaxChanges = 3
  MaxFaults = 1
  Passes = {p1, p2}
  BatchSize = 2
  Settle = 1
  MaxAge = 3
  MaxRuns = 3
  LastFinish = 2
  MaxEvents = 1
INVARIANTS
  LatestStored
  NothingSkipped
  InviteOnce
PROPERTIES
  GraceRuns
  NoOversell
  OwnerKept
  AllSettles

CHECK_DEADLOCK FALSE
