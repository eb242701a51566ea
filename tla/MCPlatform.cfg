SPECIFICATION PlatformSpec
CONSTANTS
  Replicas = {p1, p2}
  Settings = {"keycloak"}
  RecoveryKeys = {k1, k2}
  Masters = {m1, m2}
  RetentionCount = 1
  Interval = 1
  MaxBackups = 2
  MaxNow = 1
  MaxStarts = 2
  None = None
  Admins = {p1, p2}
  Modes = {"hybrid-fallback"}
  Tokens = {t1}
  References = {}
  MaxVersion = 3
  RowIds = {1, 2}
  Migrations = 2
  MaxWrites = 3
  MaxFaults = 1
INVARIANTS BackupCanBeRestored SecretsAreUsable IndexIsCurrent
PROPERTY StoredIsKept
SYMMETRY Symmetry
CHECK_DEADLOCK FALSE
