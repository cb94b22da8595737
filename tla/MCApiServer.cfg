SPECIFICATION Spec
CONSTANTS
  Passwords = {p1, p2}
  Salts = {s1, s2}
  Deks = {d1, d2}
  Iters = {i1}
  ITERATIONS = i1
  Absent = Absent
  Zeroed = Zeroed
  Garbage = Garbage
  FaultOps = {"transfer", "unlock"}
  CrashOps = {"change", "entries", "bootwipe"}
  LoginWhileUnlocked = TRUE
  Tokens = {t1, t2}
  NoToken = NoToken
  MAX_FAILS = 1
  LOCKOUT = 1
  IDLE_MIN = 1
  IDLE_DEFAULT = 1
  IDLE_MAX = 1
  POLL = 1
  HOLD = 1
  IdleInputs = {1}
  MaxTime = 3
SYMMETRY Symmetry
INVARIANT TypeOK
INVARIANT OpenVaultHasSession
INVARIANT SessionMeansSetUp
INVARIANT TransferPasswordSet
PROPERTY DrivesVault
PROPERTY DrivesSession
