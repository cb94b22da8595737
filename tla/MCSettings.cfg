SPECIFICATION Spec
CONSTANTS
  Absent = Absent
  Names = {n0, n1}
  Passwords = {p0, p1}
  DefName = n0
  DefPassword = p0
  IDLE_MIN = 2
  IDLE_MAX = 3
  IDLE_DEFAULT = 2
  StoredIdle = {1, 4}
  Pairs = {k1, k2, k3}
  Schemas = {1, 2}
  Firmwares = {2}
  TornErase = FALSE
  EarlyRequest = FALSE
  MaxFaults = 2
INVARIANT TypeOK
INVARIANT ServedPairMatches
INVARIANT IdleAsTold
PROPERTY ApAsAccepted
PROPERTY BootCompletes
PROPERTY CredentialsApply
