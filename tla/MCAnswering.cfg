SPECIFICATION AnsweringSpec
CONSTANTS
  None = None
  MaxGen = 2
  MaxModel = 2
  MaxConf = 2
  Timeout = 1
  Seconds = 1
  MaxEntries = 1
  Credentials = {"member", "limited"}
  Replicas = {r1, r2}
  Life = 3
  Every = 1
  MaxMade = 4
  Repos = {a, b}
  MaxEvents = 2
INVARIANTS AnswerIsHonest VerifiedOnly CachedAnswerIsGood LiveStreamIsNotCut ToolAnswerIsPermitted
CHECK_DEADLOCK FALSE
