SPECIFICATION ExternalSpec
CONSTANTS
  Paths = {p1, p2}
  Hidden = {p2}
  Versions = {v1}
  Absent = Absent
  Principals = {u1}
  Models = {m1, m2}
  Workers = {w1}
  MaxCommits = 3
  MaxEvents = 2
  None = None
  Ids = {1, 2, 3}
  RefOf <- ThreeChunks
  Dimensions <- TwoSizes
  Embedders = {"m1", "m2"}
  PageSize = 1
  Projectors = {w1, w2}
  Admin = admin
  MaxTurns = 4
  Users = {1, 2, 3}
  Groups = {4}
  Members = {1, 2}
  Licensed = {2}
  Everyone = 5
  PageLength = 1
  MaxPages = 2
  MaxAttempts = 2
  Limit = 2
  Projects = {1}
  ProjectPaths = {1, 2}
  Gone = 0
  MaxRaw = 3
  Pages = {1, 2, 3}
  MaxClock = 4
  MaxFaults = 1
INVARIANTS StampedRefIsIndexed ProjectedRefIsFound SourceAnswerIsWhole JiraEditIsNoticed
CHECK_DEADLOCK FALSE
