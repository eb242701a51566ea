SPECIFICATION Spec
CONSTANTS
  Users = {u1}
  Replicas = {r1, r2}
  Requests = {q1, q2}
  Sessions = {s1, s2}
  Keys = {k1, k2}
  Tokens = {t1}
  MinuteLimit = 1
  HourLimit = 1
  MaxNow = 2
  MaxRequests = 3
  None = None
INVARIANTS LockedOutIsNotServed RecoveryIsNarrow WithinRateLimit
PROPERTIES EndedStaysEnded BootstrapEnds
SYMMETRY Symmetry
CHECK_DEADLOCK FALSE
